---------------------------- MODULE HostRun_proof ----------------------------
(***************************************************************************)
(* Theorems about HostRun for every set of claims, Runs and Sessions and   *)
(* for any number of faults: its types; the inductive invariant Safe, from *)
(* which the safety properties of the host follow; Binding, with which     *)
(* every step of the host is a step of HostLease or none; and Forward,     *)
(* with which no receipt ever goes back.                                   *)
(***************************************************************************)
EXTENDS HostRunLease, TLAPS

-----------------------------------------------------------------------------
(* Types of the helpers *)

LEMMA RunOfClaim == \A c \in Claims : RunOf[c] \in Runs
BY ClaimsAssumption

LEMMA LockTyped ==
  ASSUME NEW c \in Claims \cup {NoClaim, Torn}, NEW s \in Sessions \cup {NoSession}
  PROVE LockOf(c, s) \in LockRecord
BY DEF LockOf, LockRecord

LEMMA ReceiptTyped ==
  ASSUME NEW c \in Claims \cup {NoClaim}, NEW st \in States,
         NEW s \in Sessions \cup {NoSession}, NEW cl \in Cleanups
  PROVE  /\ ReceiptOf(c, st, s, cl) \in Receipt
         /\ \A b \in BOOLEAN : [ReceiptOf(c, st, s, cl) EXCEPT !.rollback = b] \in Receipt
BY DEF ReceiptOf, Receipt

LEMMA ReceiptFields ==
  ASSUME NEW x \in Receipt
  PROVE /\ x.claim \in Claims \cup {NoClaim} /\ x.state \in States
        /\ x.session \in Sessions \cup {NoSession} /\ x.cleanup \in Cleanups
        /\ x.rollback \in BOOLEAN
        /\ \A st \in States : [x EXCEPT !.state = st] \in Receipt
        /\ \A st \in States : [x EXCEPT !.state = st, !.rollback = FALSE] \in Receipt
BY DEF Receipt

LEMMA DirFields ==
  ASSUME NEW x \in Dir
  PROVE /\ \A c \in Claims \cup {NoClaim} : [x EXCEPT !.staging = c] \in Dir
        /\ \A b \in BOOLEAN : [x EXCEPT !.request = b] \in Dir
        /\ \A v \in {"absent", "empty", "stripped", "published"} : [x EXCEPT !.root = v] \in Dir
BY DEF Dir

LEMMA CommandFields ==
  ASSUME TypeOK
  PROVE /\ cmd.pc \in CmdPcs /\ cmd.claim \in Claims \cup {NoClaim}
        /\ cmd.state \in States /\ cmd.session \in Sessions \cup {NoSession}
BY DEF TypeOK, Command

LEMMA TaskFields ==
  ASSUME TypeOK
  PROVE /\ task.pc \in TaskPcs /\ task.claim \in Claims \cup {NoClaim}
        /\ task.failed \in BOOLEAN /\ task.session \in Sessions \cup {NoSession}
BY DEF TypeOK, Task

LEMMA GotoTyped ==
  ASSUME TypeOK, NEW pc \in CmdPcs, Goto(pc)
  PROVE /\ cmd' \in Command
        /\ cmd'.pc = pc /\ cmd'.claim = cmd.claim
        /\ cmd'.session = cmd.session /\ cmd'.state = cmd.state
BY DEF TypeOK, Command, Goto

LEMMA BeginTyped ==
  ASSUME NEW pc \in CmdPcs, NEW c \in Claims, NEW st \in States,
         NEW s \in Sessions \cup {NoSession}, Begin(c, pc, st, s)
  PROVE /\ cmd' \in Command
        /\ cmd'.pc = pc /\ cmd'.claim = c /\ cmd'.session = s /\ cmd'.state = st
BY DEF Command, Begin

LEMMA ExitTyped ==
  ASSUME Exit
  PROVE /\ cmd' \in Command
        /\ cmd'.pc = "idle" /\ cmd'.claim = NoClaim /\ cmd'.session = NoSession
BY DEF Command, Exit, IdleCmd, CmdPcs, States

LEMMA TaskGotoTyped ==
  ASSUME TypeOK, NEW pc \in TaskPcs, TaskGoto(pc)
  PROVE /\ task' \in Task
        /\ task'.pc = pc /\ task'.claim = task.claim
        /\ task'.session = task.session /\ task'.failed = task.failed
BY DEF TypeOK, Task, TaskGoto

LEMMA IdleTyped ==
  /\ IdleTask \in Task /\ IdleTask.pc = "idle" /\ IdleTask.claim = NoClaim
  /\ IdleTask.session = NoSession
BY DEF Task, IdleTask, TaskPcs

LEMMA StatusTyped ==
  ASSUME TypeOK, NEW r \in Runs
  PROVE Status(r) \in Receipt
BY NullsAssumption, ReceiptTyped DEF TypeOK, Status, LockRecord, States, Cleanups, Terminal

\* What settle and a replayed start read has the type of what they write.
LEMMA StoredTyped ==
  ASSUME TypeOK, NEW c \in Claims
  PROVE /\ Status(RunOf[c]).state \in States
        /\ Status(RunOf[c]).session \in Sessions \cup {NoSession}
        /\ Status(RunOf[c]).cleanup \in Cleanups
        /\ lock.session \in Sessions \cup {NoSession}
        /\ StoredSession(c) \in Sessions \cup {NoSession}
        /\ Recovered(RunOf[c]) \in Sessions \cup {NoSession}
<1>1. Status(RunOf[c]) \in Receipt
  BY RunOfClaim, StatusTyped
<1>2. lock.session \in Sessions \cup {NoSession}
  BY DEF TypeOK, LockRecord
<1> QED
  BY <1>1, <1>2, ReceiptFields, RunOfClaim DEF TypeOK, StoredSession, Recovered

LEMMA FailTyped ==
  ASSUME TypeOK, NEW c, NEW st \in States, FailReceipt(c, st)
  PROVE receipt' \in [Runs -> Receipt]
<1>1. \A r \in Runs : [receipt[r] EXCEPT !.state = st, !.rollback = FALSE] \in Receipt
  BY ReceiptFields DEF TypeOK
<1> QED
  BY <1>1 DEF FailReceipt, TypeOK

LEMMA StagingTyped ==
  ASSUME TypeOK, NEW r, dir' = dir \/ dir' = [dir EXCEPT ![r].staging = NoClaim]
  PROVE dir' \in [Runs -> Dir]
<1>1. \A q \in Runs : [dir[q] EXCEPT !.staging = NoClaim] \in Dir
  BY DirFields DEF TypeOK
<1> QED
  BY <1>1 DEF TypeOK

LEMMA StrippedTyped ==
  ASSUME TypeOK, NEW r, dir' = dir \/ dir' = [dir EXCEPT ![r].root = "stripped"]
  PROVE dir' \in [Runs -> Dir]
<1>1. \A q \in Runs : [dir[q] EXCEPT !.root = "stripped"] \in Dir
  BY DirFields DEF TypeOK
<1> QED
  BY <1>1 DEF TypeOK

-----------------------------------------------------------------------------
(* Types *)

\* A process under way works for a claim.
Claimed ==
  /\ cmd.pc # "idle" => cmd.claim \in Claims
  /\ task.pc # "idle" => task.claim \in Claims

Typed == TypeOK /\ Claimed

LEMMA ArrivalTyped ==
  ASSUME Typed, NEW c \in Claims, Arrival(c)
  PROVE Typed'
<1> USE DEF Typed, TypeOK, Claimed, CmdPcs, ReadOnly, durable, world
<1>1. CASE AcquireBegin(c)
  BY <1>1, BeginTyped DEF AcquireBegin, States
<1>2. CASE StageBegin(c)
  <2>1. dir' \in [Runs -> Dir]
    <3>1. [dir[RunOf[c]] EXCEPT !.staging = c] \in Dir
      BY DirFields, RunOfClaim
    <3> QED
      BY <1>2, <3>1, RunOfClaim DEF StageBegin
  <2>2. cmd' \in Command /\ (cmd'.pc # "idle" => cmd'.claim \in Claims)
    <3>1. Begin(c, "rename", "none", NoSession)
      BY <1>2 DEF StageBegin
    <3> QED
      BY <3>1, BeginTyped, SMTT(30) DEF States
  <2> QED
    BY <1>2, <2>1, <2>2 DEF StageBegin
<1>3. CASE StartBegin(c)
  BY <1>3, BeginTyped DEF StartBegin, States
<1>4. CASE StartReplay(c)
  <2>1. trigger' \in BOOLEAN
    BY <1>4 DEF StartReplay, Launch
  <2>2. PICK st \in States, s \in Sessions \cup {NoSession} :
           Begin(c, "adopt", st, s) \/ UNCHANGED cmd
    BY <1>4, StoredTyped DEF StartReplay
  <2>3. cmd' \in Command /\ (cmd'.pc # "idle" => cmd'.claim \in Claims)
    BY <2>2, BeginTyped
  <2> QED
    BY <1>4, <2>1, <2>3 DEF StartReplay
<1>5. CASE SettleReleased(c)
  <2>1. PICK st \in States, s \in Sessions \cup {NoSession} : Begin(c, "close", st, s)
    BY <1>5, StoredTyped DEF SettleReleased
  <2> QED
    BY <1>5, <2>1, BeginTyped DEF SettleReleased
<1>6. CASE SettleBegin(c)
  <2>1. \E pc \in CmdPcs, st \in States, s \in Sessions \cup {NoSession} : Begin(c, pc, st, s)
    BY <1>6, StoredTyped DEF SettleBegin
  <2>2. cmd' \in Command /\ cmd'.claim = c
    BY <2>1, BeginTyped
  <2> QED
    BY <1>6, <2>2 DEF SettleBegin
<1> QED
  BY <1>1, <1>2, <1>3, <1>4, <1>5, <1>6 DEF Arrival

LEMMA CommandTyped ==
  ASSUME Typed, CommandStep \/ Abandon
  PROVE Typed'
<1> USE DEF Typed, TypeOK, Claimed, CmdPcs, durable, world
<1> DEFINE r == RunOf[cmd.claim]
<1>1. CASE LockCreate
  BY <1>1, GotoTyped, LockTyped DEF LockCreate
<1>2. CASE LockFill
  BY <1>2, GotoTyped, LockTyped, CommandFields DEF LockFill
<1>3. CASE AcceptWrite
  BY <1>3, ExitTyped, ReceiptTyped, CommandFields DEF AcceptWrite, States, Cleanups
<1>4. CASE StageRename
  <2>1. CASE dir' = [dir EXCEPT ![r] = [root |-> "published", owner |-> cmd.claim,
                                        request |-> FALSE, staging |-> NoClaim]]
             /\ Goto("staged")
    <3>1. [root |-> "published", owner |-> cmd.claim, request |-> FALSE,
           staging |-> NoClaim] \in Dir
      BY CommandFields DEF Dir
    <3> QED
      BY <1>4, <2>1, <3>1, GotoTyped DEF StageRename
  <2>2. CASE dir' = [dir EXCEPT ![r].staging = NoClaim] /\ Exit
    BY <1>4, <2>2, StagingTyped, ExitTyped DEF StageRename
  <2> QED
    BY <1>4, <2>1, <2>2 DEF StageRename
<1>5. CASE StagedWrite
  BY <1>5, ExitTyped, ReceiptTyped, CommandFields DEF StagedWrite, States, Cleanups
<1>6. CASE RequestWrite
  BY <1>6, GotoTyped, DirFields DEF RequestWrite
<1>7. CASE PendingWrite
  BY <1>7, GotoTyped, CommandFields DEF PendingWrite
<1>8. CASE StartingWrite
  BY <1>8, GotoTyped, ReceiptTyped, CommandFields DEF StartingWrite, States, Cleanups
<1>9. CASE TaskLaunch
  BY <1>9, ExitTyped DEF TaskLaunch, Launch
<1>10. CASE StartAdopt
  BY <1>10, ExitTyped, ReceiptTyped, CommandFields, StoredTyped
  DEF StartAdopt, States, Terminal
<1>11. CASE RepublishLock \/ AdoptLock
  BY <1>11, GotoTyped, LockTyped, CommandFields DEF RepublishLock, AdoptLock, PublishInLock
<1>12. CASE AdoptReceipt
  BY <1>12, ReceiptTyped, CommandFields DEF AdoptReceipt, Command, States, Terminal, Cleanups
<1>13. CASE LaunchProbe
  BY <1>13, ExitTyped, GotoTyped DEF LaunchProbe, ReadOnly
<1>14. CASE StopSession
  BY <1>14, ExitTyped, GotoTyped DEF StopSession
<1>15. CASE StoppedWrite
  <2>1. \A st \in States :
          [ReceiptOf(cmd.claim, st, cmd.session, "stopped")
             EXCEPT !.rollback = receipt[r].rollback] \in Receipt
    BY <1>15, ReceiptTyped, ReceiptFields, CommandFields, RunOfClaim
    DEF StoppedWrite, Cleanups
  <2>2. receipt' \in [Runs -> Receipt]
    BY <1>15, <2>1, CommandFields DEF StoppedWrite, States, Terminal
  <2>3. cmd' \in Command /\ (cmd'.pc # "idle" => cmd'.claim \in Claims)
    BY <1>15, GotoTyped, ExitTyped DEF StoppedWrite
  <2>4. faults' \in Nat
    BY <1>15 DEF StoppedWrite, Fault
  <2> QED
    BY <1>15, <2>2, <2>3, <2>4 DEF StoppedWrite
<1>16. CASE StripRoot
  <2>1. dir' \in [Runs -> Dir]
    BY <1>16, StrippedTyped DEF StripRoot
  <2>2. Exit \/ \E pc \in CmdPcs : Goto(pc)
    BY <1>16 DEF StripRoot
  <2>3. cmd' \in Command /\ (cmd'.pc # "idle" => cmd'.claim \in Claims)
    BY <1>16, <2>2, GotoTyped, ExitTyped DEF StripRoot
  <2> QED
    BY <1>16, <2>1, <2>3 DEF StripRoot
<1>17. CASE RemoveRequest
  <2>1. dir' \in [Runs -> Dir]
    BY <1>17, DirFields, RunOfClaim DEF RemoveRequest
  <2>2. cmd' \in Command /\ (cmd'.pc # "idle" => cmd'.claim \in Claims)
    BY <1>17, GotoTyped DEF RemoveRequest
  <2> QED
    BY <1>17, <2>1, <2>2 DEF RemoveRequest
<1>18. CASE RemoveOwnership
  <2>1. dir' \in [Runs -> Dir]
    <3>1. \A x \in Dir : [x EXCEPT !.root = "empty", !.owner = NoClaim] \in Dir
      BY DEF Dir
    <3> QED
      BY <1>18, <3>1, RunOfClaim DEF RemoveOwnership
  <2>2. cmd' \in Command /\ (cmd'.pc # "idle" => cmd'.claim \in Claims)
    BY <1>18, GotoTyped DEF RemoveOwnership
  <2> QED
    BY <1>18, <2>1, <2>2 DEF RemoveOwnership
<1>19. CASE RemoveRoot
  <2>1. dir' \in [Runs -> Dir]
    BY <1>19, DirFields, RunOfClaim DEF RemoveRoot
  <2>2. cmd' \in Command /\ (cmd'.pc # "idle" => cmd'.claim \in Claims)
    BY <1>19, GotoTyped DEF RemoveRoot
  <2> QED
    BY <1>19, <2>1, <2>2 DEF RemoveRoot
<1>20. CASE RemoveStaging
  <2>1. dir' \in [Runs -> Dir]
    BY <1>20, StagingTyped DEF RemoveStaging
  <2>2. cmd' \in Command /\ (cmd'.pc # "idle" => cmd'.claim \in Claims)
    BY <1>20, GotoTyped, ExitTyped DEF RemoveStaging
  <2> QED
    BY <1>20, <2>1, <2>2 DEF RemoveStaging
<1>21. CASE ReleaseLock
  BY <1>21, ExitTyped, GotoTyped, LockTyped DEF ReleaseLock, NoLock
<1>22. CASE CloseReceipt
  BY <1>22, GotoTyped, ReceiptTyped, ReceiptFields, CommandFields, RunOfClaim
  DEF CloseReceipt, Terminalized, States, Terminal, Cleanups
<1>23. CASE RemovePending
  BY <1>23, ExitTyped DEF RemovePending
<1>24. CASE Abandon
  <2>1. dir' \in [Runs -> Dir]
    BY <1>24, StagingTyped DEF Abandon
  <2>2. lock' \in LockRecord
    BY <1>24, LockTyped DEF Abandon, NoLock
  <2>3. faults' \in Nat
    BY <1>24 DEF Abandon, Fault
  <2> QED
    BY <1>24, <2>1, <2>2, <2>3, ExitTyped DEF Abandon
<1> QED
  BY <1>1, <1>2, <1>3, <1>4, <1>5, <1>6, <1>7, <1>8, <1>9, <1>10, <1>11, <1>12, <1>13,
     <1>14, <1>15, <1>16, <1>17, <1>18, <1>19, <1>20, <1>21, <1>22, <1>23, <1>24
  DEF CommandStep

LEMMA TaskTyped ==
  ASSUME Typed, TaskStep \/ TaskCrash
  PROVE Typed'
<1> USE DEF Typed, TypeOK, Claimed, durable, world
<1>1. CASE TaskStart
  BY <1>1, IdleTyped DEF TaskStart, Task, TaskPcs
<1>2. CASE TaskAdmit
  BY <1>2, TaskGotoTyped DEF TaskAdmit, TaskGoto, TaskPcs, LaunchPcs
<1>3. CASE TaskRefuse
  <2>1. receipt' \in [Runs -> Receipt]
    BY <1>3, FailTyped DEF TaskRefuse, States, Terminal
  <2> QED
    BY <1>3, <2>1, IdleTyped DEF TaskRefuse
<1>4. CASE TaskReject
  BY <1>4, IdleTyped DEF TaskReject
<1>5. ASSUME NEW s \in Sessions, DaemonRecord(s) PROVE Typed'
  BY <1>5 DEF DaemonRecord, Task, TaskPcs, LaunchPcs
<1>6. CASE DaemonReturn
  BY <1>6 DEF DaemonReturn, Task, TaskPcs, LaunchPcs
<1>7. CASE TaskReconcile
  <2>1. task.claim \in Claims
    BY <1>7 DEF TaskReconcile
  <2>2. receipt' \in [Runs -> Receipt]
    BY <1>7, FailTyped DEF TaskReconcile, States, Terminal
  <2>3. \/ task' = IdleTask
        \/ \E s \in Sessions \cup {NoSession} :
             task' = [task EXCEPT !.pc = "bind", !.session = s]
    BY <1>7, <2>1, StoredTyped, TaskFields DEF TaskReconcile
  <2>4. task' \in Task /\ (task'.pc # "idle" => task'.claim \in Claims)
    BY <2>1, <2>3, IdleTyped DEF Task, TaskPcs, HoldPcs
  <2>5. faults' \in Nat
    BY <1>7 DEF TaskReconcile, Fault
  <2> QED
    BY <1>7, <2>2, <2>4, <2>5 DEF TaskReconcile
<1>8. CASE BindLock
  BY <1>8, TaskGotoTyped, LockTyped, TaskFields DEF BindLock, Fault, TaskPcs, LaunchPcs
<1>9. CASE RollbackStop
  BY <1>9, TaskGotoTyped DEF RollbackStop, Fault, TaskPcs, LaunchPcs
<1>10. CASE RollbackWrite
  <2>1. CASE task.pc = "rolled" /\ FailReceipt(task.claim, "failed")
    <3>1. receipt' \in [Runs -> Receipt]
      BY <2>1, FailTyped DEF States, Terminal
    <3> QED
      BY <1>10, <3>1, IdleTyped DEF RollbackWrite
  <2>2. CASE task.pc = "stranded"
    <3>1. [ReceiptOf(task.claim, "cleanupfailed", task.session, "none")
             EXCEPT !.rollback = TRUE] \in Receipt
      BY TaskFields, ReceiptTyped DEF States, Terminal, Cleanups
    <3>2. receipt' \in [Runs -> Receipt]
      BY <1>10, <2>2, <3>1 DEF RollbackWrite
    <3> QED
      BY <1>10, <3>2, IdleTyped DEF RollbackWrite
  <2> QED
    BY <1>10, <2>1, <2>2 DEF RollbackWrite
<1>11. CASE BoundWrite
  BY <1>11, IdleTyped, TaskGotoTyped, ReceiptTyped, TaskFields
  DEF BoundWrite, Fault, TaskPcs, RunPcs, States, Terminal, Cleanups
<1>12. CASE TaskAdvance
  BY <1>12, TaskGotoTyped, ReceiptFields
  DEF TaskAdvance, Phase, Resumed, RunPcs, TaskPcs, HoldPcs, States, Terminal
<1>13. CASE TaskFail
  <2>1. receipt' \in [Runs -> Receipt]
    BY <1>13, FailTyped DEF TaskFail, States, Terminal
  <2> QED
    BY <1>13, <2>1, IdleTyped DEF TaskFail
<1>14. CASE TaskSuperseded \/ TaskFinish
  BY <1>14, IdleTyped DEF TaskSuperseded, TaskFinish
<1>15. CASE TaskCrash
  BY <1>15, IdleTyped DEF TaskCrash, Fault
<1> QED
  BY <1>1, <1>2, <1>3, <1>4, <1>5, <1>6, <1>7, <1>8, <1>9, <1>10, <1>11, <1>12, <1>13,
     <1>14, <1>15 DEF TaskStep

LEMMA TypedStep ==
  ASSUME Typed, [Next]_vars
  PROVE Typed'
<1>1. ASSUME NEW c \in Claims, Expire(c) PROVE Typed'
  BY <1>1 DEF Typed, TypeOK, Claimed, Expire, durable
<1>2. CASE PublishSetupClaim
  BY <1>2 DEF Typed, TypeOK, Claimed, PublishSetupClaim, world
<1>3. CASE ClearSetupClaim
  BY <1>3 DEF Typed, TypeOK, Claimed, ClearSetupClaim, world
<1>4. CASE UNCHANGED vars
  BY <1>4 DEF Typed, TypeOK, Claimed, vars
<1> QED
  BY <1>1, <1>2, <1>3, <1>4, ArrivalTyped, CommandTyped, TaskTyped DEF Next

LEMMA TypedInit == Init => Typed
<1>1. NoLock \in LockRecord
  BY LockTyped DEF NoLock
<1>2. NoReceipt \in Receipt
  BY ReceiptTyped DEF NoReceipt, States, Cleanups
<1>3. NoDir \in Dir
  BY DEF NoDir, Dir
<1>4. IdleCmd \in Command /\ IdleCmd.pc = "idle"
  BY DEF IdleCmd, Command, CmdPcs, States
<1> SUFFICES ASSUME Init PROVE Typed
  OBVIOUS
<1>5. receipt \in [Runs -> Receipt] /\ dir \in [Runs -> Dir]
  BY <1>2, <1>3 DEF Init
<1>6. /\ broker \in [Runs -> Sessions \cup {NoSession}]
      /\ issued \in [Sessions -> Claims \cup {NoClaim}]
  BY DEF Init
<1>7. lock \in LockRecord /\ cmd \in Command /\ task \in Task
  BY <1>1, <1>4, IdleTyped DEF Init
<1> QED
  BY <1>4, <1>5, <1>6, <1>7, IdleTyped DEF Init, Typed, TypeOK, Claimed

\* Every file, process and ghost of the model keeps its type, and every process under
\* way works for a claim, in every state of every instance.
THEOREM TypeCorrect == Spec => [](TypeOK /\ Claimed)
<1>1. Init => Typed
  BY TypedInit
<1>2. Typed /\ [Next]_vars => Typed'
  BY TypedStep
<1>3. Typed => TypeOK /\ Claimed
  BY DEF Typed
<1> QED
  BY <1>1, <1>2, <1>3, PTL DEF Spec

-----------------------------------------------------------------------------
(* The safety properties, from one inductive invariant.  The hypothesis    *)
(* NoRace leaves out the two faults of README.md that violate              *)
(* SessionUnderLock (run HostRun_probe_race shows one of them); every      *)
(* other fault may happen any number of times.                             *)

NoRace == "probecrash" \notin Faults /\ "relaunch" \notin Faults

-----------------------------------------------------------------------------
(* The inductive invariant *)

\* Steps of a stop from the broker's call up to the removal of the lock.
Removing == {"strip", "unrequest", "disown", "rmroot", "destage", "release"}
Stopping == {"stop", "stopped"} \cup Removing
\* Steps of a settle that has read the receipt.
Settling == {"republish", "probe", "adoptlock", "adoptreceipt", "close"} \cup Stopping
\* Steps that work without a Session, and those that work under the lock.
Unbound == {"create", "fill", "accept", "rename", "staged", "request", "pending",
            "starting", "launch", "probe"}
UnderLock == (Unbound \ {"create", "fill"}) \cup {"adopt"} \cup (Settling \ {"close"})

\* .operation.lock has one holder.
OneHolder == cmd.pc # "idle" => task.pc \notin HoldPcs

\* What a command read before its first write is still so: nobody else writes
\* the lock while it holds .operation.lock.
CommandAuthority ==
  /\ cmd.pc = "create" => lock = NoLock
  /\ cmd.pc = "fill" => lock = LockOf(Torn, NoSession)
  /\ cmd.pc \in UnderLock => lock.claim = cmd.claim
  /\ cmd.pc \in Unbound => lock.session = NoSession /\ cmd.session = NoSession
  /\ cmd.pc \in Settling => cmd.state # "none"
  /\ cmd.pc \in {"adopt", "adoptreceipt"} \cup Stopping => lock.session = cmd.session
  /\ cmd.pc \in {"republish", "adoptlock", "adopt", "adoptreceipt"} => cmd.session # NoSession
  /\ cmd.pc \in {"close", "unpend"} => lock.claim # cmd.claim

CommandReceipt ==
  LET r == RunOf[cmd.claim] IN
  /\ cmd.pc \in {"create", "fill", "accept"} => receipt[r].state = "none"
  /\ cmd.pc \in {"request", "pending", "starting"} => receipt[r].state # "starting"
  /\ cmd.pc = "staged" => receipt[r].state # "starting" \/ receipt[r].cleanup # "none"
  /\ cmd.pc \in Removing => receipt[r].cleanup # "none"
  /\ cmd.pc = "close" => receipt[r].state # "none" /\ receipt[r].claim = cmd.claim

CommandDir ==
  LET d == dir[RunOf[cmd.claim]] IN
  /\ cmd.pc = "rename" => d.staging = cmd.claim
  /\ cmd.pc \in {"request", "pending", "starting"} => d.root = "published"
  /\ cmd.pc \in {"pending", "starting"} => d.request
  /\ cmd.pc \in {"unrequest", "disown"} => d.root = "stripped"
  /\ cmd.pc \in {"disown", "rmroot"} => ~d.request
  /\ cmd.pc = "rmroot" => d.root = "empty"
  /\ cmd.pc \in {"destage", "release"} => d.root = "absent"
  /\ cmd.pc = "release" => d.staging = NoClaim

\* A Run that waits for its task has the request the task needs, and the request
\* file that settle goes by when it asks the broker.
StartingRun ==
  \A r \in Runs :
    /\ receipt[r].state = "starting" /\ receipt[r].cleanup = "none" =>
         dir[r].root = "published" /\ dir[r].request
    /\ dir[r].request => dir[r].root \in {"published", "stripped"}

\* A receipt belongs to its Run, and the one of the lock's Run to the lock's claim.
Receipts ==
  /\ \A r \in Runs :
       IF receipt[r].state = "none"
       THEN /\ receipt[r].claim = NoClaim /\ receipt[r].session = NoSession
            /\ receipt[r].cleanup = "none"
       ELSE receipt[r].claim \in Claims /\ RunOf[receipt[r].claim] = r
  /\ lock.claim \in Claims /\ receipt[RunOf[lock.claim]].state # "none" =>
       /\ receipt[RunOf[lock.claim]].claim = lock.claim
       /\ receipt[RunOf[lock.claim]].cleanup # "known"

\* Only the Run of the Host Lock has a directory.
DirOwned ==
  \A r \in Runs :
    /\ dir[r].root # "absent" \/ dir[r].staging # NoClaim =>
         lock.claim \in Claims /\ RunOf[lock.claim] = r
    /\ dir[r].root \in {"absent", "empty"} <=> dir[r].owner = NoClaim
    /\ dir[r].owner \in {NoClaim, lock.claim}
    /\ dir[r].staging \in {NoClaim, lock.claim}

Owns(c, s) == s # NoSession => c \in Claims /\ issued[s] = c

\* Every Session identity, wherever it is kept, was issued for the claim beside it.
Authentic ==
  /\ Owns(lock.claim, lock.session)
  /\ Owns(cmd.claim, cmd.session)
  /\ Owns(task.claim, task.session)
  /\ \A r \in Runs : Owns(receipt[r].claim, receipt[r].session)

\* The Session on record is the lock's; a settle that found none, or stopped the
\* one it found, is right until it releases the lock.
BrokerOwned ==
  \A r \in Runs : broker[r] # NoSession =>
    /\ lock.claim \in Claims /\ RunOf[lock.claim] = r /\ issued[broker[r]] = lock.claim
    /\ dir[r].request
    /\ cmd.pc \notin Stopping \ {"stop"}
    /\ cmd.pc = "stop" => cmd.session # NoSession
    /\ cmd.pc = "probe" => LaunchHeld

\* While the broker may still issue a Session, the authority it is issued under is
\* unsettled; once it is not, the launch has already issued its Session.
Launching ==
  task.pc = "launching" =>
    LET r == RunOf[task.claim] IN
    /\ lock.claim = task.claim \/ \E t \in Sessions : issued[t] = task.claim
    /\ lock = LockOf(task.claim, NoSession) =>
         /\ receipt[r].state = "starting" /\ receipt[r].cleanup = "none"
         /\ receipt[r].claim = task.claim /\ receipt[r].session = NoSession
         /\ cmd.pc \notin Stopping

TaskAuthority ==
  /\ task.pc \in HoldPcs \ {"completed"} => lock.claim = task.claim
  /\ task.pc \notin {"idle", "read"} => receipt[RunOf[task.claim]].state # "none"

Fenced ==
  fence =>
    /\ lock = NoLock
    /\ task.pc \notin LaunchPcs \cup HoldPcs
    /\ cmd.pc \in {"idle", "close", "unpend"}

Safe ==
  /\ OneHolder /\ CommandAuthority /\ CommandReceipt /\ CommandDir
  /\ StartingRun /\ Receipts /\ DirOwned
  /\ Authentic /\ BrokerOwned /\ Launching /\ TaskAuthority
  /\ Fenced

-----------------------------------------------------------------------------
(* What the steps preserve *)

LEMMA FailEffect ==
  ASSUME TypeOK, NEW c \in Claims, NEW st, FailReceipt(c, st)
  PROVE \A q \in Runs :
    /\ receipt'[q].claim = receipt[q].claim /\ receipt'[q].session = receipt[q].session
    /\ receipt'[q].cleanup = receipt[q].cleanup
    /\ receipt'[q].state = IF q = RunOf[c] THEN st ELSE receipt[q].state
BY RunOfClaim DEF TypeOK, Receipt, FailReceipt

LEMMA SettleBeginEffect ==
  ASSUME TypeOK, NEW c \in Claims, SettleBegin(c)
  PROVE \E pc \in {"republish", "stop", "adoptlock", "probe"},
           st \in States, s \in Sessions \cup {NoSession} :
    /\ OperationFree /\ Begin(c, pc, st, s) /\ ReadOnly
    /\ lock.claim = c /\ st # "none"
    /\ pc \in {"republish", "probe"} => lock.session = NoSession
    /\ pc = "republish" => s # NoSession
    /\ pc = "republish" => s \in {receipt[RunOf[c]].session, lock.session}
    /\ pc = "adoptlock" => s # NoSession /\ s = Recovered(RunOf[c])
    /\ pc = "probe" => s = NoSession /\ Recovered(RunOf[c]) = NoSession
    /\ pc = "stop" => lock.session = s
    /\ pc = "stop" /\ s = NoSession =>
         Recovered(RunOf[c]) = NoSession /\ receipt[RunOf[c]].state # "starting"
<1> DEFINE r == Status(RunOf[c])
<1>1. /\ r.claim = c /\ lock.claim = c /\ OperationFree
      /\ ReadOnly
  BY DEF SettleBegin, SettleAuthority
<1>2. r.state # "none"
  BY <1>1 DEF Status, ReceiptOf
<1>3. StoredSession(c) \in {receipt[RunOf[c]].session, lock.session}
  BY <1>1 DEF StoredSession, Status, ReceiptOf
<1>4. /\ r.state \in States
      /\ StoredSession(c) \in Sessions \cup {NoSession}
      /\ Recovered(RunOf[c]) \in Sessions \cup {NoSession}
  BY StoredTyped
<1>5. receipt[RunOf[c]].state = "starting" => r.state = "starting"
  BY DEF Status
<1> HIDE DEF r
<1> QED
  BY <1>1, <1>2, <1>3, <1>4, <1>5 DEF SettleBegin, r

LEMMA RefuseEffect ==
  ASSUME TypeOK, task.claim \in Claims, TaskRefuse
  PROVE \E st \in {"failed", "timedout"} :
    /\ task.pc = "read" /\ OperationFree /\ FailReceipt(task.claim, st)
    /\ receipt[RunOf[task.claim]].state # "none"
    /\ task' = IdleTask
    /\ UNCHANGED <<lock, dir, pending, fence, cmd, trigger, world>>
BY DEF TaskRefuse, ExactlyStarting, InterruptedUI, Status, ReceiptOf, LockOf

LEMMA DaemonReturnEffect ==
  ASSUME TypeOK, DaemonReturn
  PROVE /\ task.pc \in {"launching", "recorded"} /\ task'.pc = "returned"
        /\ task'.claim = task.claim /\ task'.session \in {task.session, NoSession}
        /\ UNCHANGED <<durable, cmd, trigger, world>>
<1>1. PICK b \in BOOLEAN, s \in {task.session, NoSession} :
         task' = [task EXCEPT !.pc = "returned", !.session = s, !.failed = b]
  BY DEF DaemonReturn, TypeOK, Task
<1> QED
  BY <1>1 DEF DaemonReturn, TypeOK, Task

LEMMA PhaseEffect ==
  ASSUME TypeOK, TaskAdvance
  PROVE \E st \in {"calling", "interacting", "collecting", "complete"},
           pc \in {"completed"} \cup RunPcs :
    /\ \A q \in Runs :
         /\ receipt'[q].claim = receipt[q].claim /\ receipt'[q].session = receipt[q].session
         /\ receipt'[q].cleanup = receipt[q].cleanup
         /\ q # RunOf[task.claim] => receipt'[q].state = receipt[q].state
         /\ q = RunOf[task.claim] => receipt'[q].state = st
    /\ task'.pc = pc /\ task'.claim = task.claim /\ task'.session = task.session
<1> DEFINE p == Phase(task.claim, task.pc)
<1>1. /\ p.state \in {"calling", "interacting", "collecting", "complete"}
      /\ p.next \in {"completed"} \cup RunPcs
  BY DEF TaskAdvance, Resumed, Phase, RunPcs
<1>2. \A q \in Runs :
        /\ receipt'[q].claim = receipt[q].claim /\ receipt'[q].session = receipt[q].session
        /\ receipt'[q].cleanup = receipt[q].cleanup
        /\ q # RunOf[task.claim] => receipt'[q].state = receipt[q].state
        /\ q = RunOf[task.claim] => receipt'[q].state = p.state
  BY DEF TaskAdvance, TypeOK, Receipt
<1>3. task'.pc = p.next /\ task'.claim = task.claim /\ task'.session = task.session
  BY DEF TaskAdvance, TaskGoto, TypeOK, Task
<1> HIDE DEF p
<1> QED
  BY <1>1, <1>2, <1>3

LEMMA FailSafe ==
  ASSUME Typed, Safe, NEW st \in {"failed", "timedout"},
         task.claim \in Claims, cmd.pc = "idle", FailReceipt(task.claim, st),
         receipt[RunOf[task.claim]].state # "none", task' = IdleTask,
         UNCHANGED <<lock, dir, pending, fence, cmd, broker, issued>>
  PROVE Safe'
<1> USE RunOfClaim, NullsAssumption
    DEF Typed, TypeOK, Claimed, Safe, OneHolder, CommandAuthority, CommandReceipt, CommandDir,
        StartingRun, Receipts, DirOwned, Authentic, Owns, BrokerOwned, Launching, TaskAuthority,
        Fenced, UnderLock, Unbound, Settling, Stopping, Removing, HoldPcs, LaunchPcs, RunPcs,
        LockRecord, Receipt, Dir, Command, Task, LockOf, NoLock, ReceiptOf, IdleCmd, IdleTask,
        Begin, Goto, Exit, ReadOnly, durable, world, OperationFree, LaunchHeld
<1>1. \A q \in Runs :
        /\ receipt'[q].claim = receipt[q].claim /\ receipt'[q].session = receipt[q].session
        /\ receipt'[q].cleanup = receipt[q].cleanup
        /\ receipt'[q].state \in {receipt[q].state, st}
  BY FailEffect
<1>2. \A q \in Runs : receipt'[q].state = "none" <=> receipt[q].state = "none"
  BY FailEffect
<1>3. Receipts'
  BY <1>1, <1>2
<1>4. StartingRun'
  BY <1>1, <1>2
<1>5. OneHolder' /\ CommandAuthority' /\ CommandReceipt' /\ CommandDir'
  OBVIOUS
<1>6. DirOwned' /\ Launching' /\ TaskAuthority' /\ Fenced'
  OBVIOUS
<1>7. Authentic' /\ BrokerOwned'
  BY <1>1
<1> QED
  BY <1>3, <1>4, <1>5, <1>6, <1>7

LEMMA ArrivalSafe ==
  ASSUME Typed, Safe, Typed', NEW c \in Claims, Arrival(c)
  PROVE Safe'
<1> USE RunOfClaim, NullsAssumption
    DEF Typed, TypeOK, Claimed, Safe, OneHolder, CommandAuthority, CommandReceipt, CommandDir,
        StartingRun, Receipts, DirOwned, Authentic, Owns, BrokerOwned, Launching, TaskAuthority,
        Fenced, UnderLock, Unbound, Settling, Stopping, Removing, HoldPcs, LaunchPcs, RunPcs,
        LockRecord, Receipt, Dir, Command, Task, LockOf, NoLock, ReceiptOf, IdleCmd, IdleTask,
        Begin, Goto, Exit, ReadOnly, durable, world, OperationFree, LaunchHeld
<1>1. CASE AcquireBegin(c)
  BY <1>1, SMTT(60) DEF AcquireBegin
<1>2. CASE StageBegin(c)
  BY <1>2, SMTT(60) DEF StageBegin
<1>3. CASE StartBegin(c)
  BY <1>3, SMTT(60) DEF StartBegin, StartAdmitted, FirstStart, Status
<1>4. CASE StartReplay(c)
  BY <1>4, SMTT(60) DEF StartReplay, StartAdmitted, FirstStart, Launch, Status
<1>5. CASE SettleReleased(c)
  BY <1>5, SMTT(60) DEF SettleReleased, Released, Status
<1>6. CASE SettleBegin(c)
  <2> PICK pc \in {"republish", "stop", "adoptlock", "probe"},
           st \in States, s \in Sessions \cup {NoSession} :
         /\ OperationFree /\ Begin(c, pc, st, s) /\ ReadOnly
         /\ lock.claim = c /\ st # "none"
         /\ pc \in {"republish", "probe"} => lock.session = NoSession
         /\ pc = "republish" => s # NoSession
         /\ pc = "republish" => s \in {receipt[RunOf[c]].session, lock.session}
         /\ pc = "adoptlock" => s # NoSession /\ s = Recovered(RunOf[c])
         /\ pc = "probe" => s = NoSession /\ Recovered(RunOf[c]) = NoSession
         /\ pc = "stop" => lock.session = s
         /\ pc = "stop" /\ s = NoSession =>
              Recovered(RunOf[c]) = NoSession /\ receipt[RunOf[c]].state # "starting"
    BY <1>6, SettleBeginEffect
  <2>1. OneHolder' /\ CommandAuthority' /\ CommandReceipt' /\ CommandDir'
    OBVIOUS
  <2>2. StartingRun' /\ DirOwned' /\ Receipts' /\ TaskAuthority' /\ Fenced'
    OBVIOUS
  <2>3. Authentic'
    BY DEF Recovered
  <2>4. BrokerOwned'
    BY DEF Recovered
  <2>5. Launching'
    BY DEF Recovered
  <2> QED
    BY <2>1, <2>2, <2>3, <2>4, <2>5
<1> QED
  BY <1>1, <1>2, <1>3, <1>4, <1>5, <1>6 DEF Arrival

LEMMA CommandSafe ==
  ASSUME Typed, Safe, Typed', CommandStep \/ Abandon
  PROVE Safe'
<1> USE RunOfClaim, NullsAssumption
    DEF Typed, TypeOK, Claimed, Safe, OneHolder, CommandAuthority, CommandReceipt, CommandDir,
        StartingRun, Receipts, DirOwned, Authentic, Owns, BrokerOwned, Launching, TaskAuthority,
        Fenced, UnderLock, Unbound, Settling, Stopping, Removing, HoldPcs, LaunchPcs, RunPcs,
        LockRecord, Receipt, Dir, Command, Task, LockOf, NoLock, ReceiptOf, IdleCmd, IdleTask,
        Begin, Goto, Exit, ReadOnly, durable, world, OperationFree, LaunchHeld
<1>1. CASE LockCreate
  BY <1>1, SMTT(60) DEF LockCreate
<1>2. CASE LockFill
  BY <1>2, SMTT(60) DEF LockFill
<1>3. CASE AcceptWrite
  BY <1>3, SMTT(60) DEF AcceptWrite
<1>4. CASE StageRename
  BY <1>4, SMTT(60) DEF StageRename
<1>5. CASE StagedWrite
  BY <1>5, SMTT(60) DEF StagedWrite
<1>6. CASE RequestWrite
  <2>1. OneHolder' /\ CommandAuthority' /\ CommandReceipt' /\ CommandDir'
    BY <1>6, SMTT(60) DEF RequestWrite
  <2>2. StartingRun'
    BY <1>6, SMTT(60) DEF RequestWrite
  <2>7. DirOwned'
    BY <1>6, SMTT(60) DEF RequestWrite
  <2>3. Receipts'
    BY <1>6, SMTT(60) DEF RequestWrite
  <2>4. Authentic' /\ TaskAuthority' /\ Fenced'
    BY <1>6, SMTT(60) DEF RequestWrite
  <2>5. BrokerOwned'
    BY <1>6, SMTT(60) DEF RequestWrite
  <2>6. Launching'
    BY <1>6, SMTT(60) DEF RequestWrite
  <2> QED
    BY <2>1, <2>2, <2>3, <2>4, <2>5, <2>6, <2>7
<1>7. CASE PendingWrite
  BY <1>7, SMTT(60) DEF PendingWrite
<1>8. CASE StartingWrite
  BY <1>8, SMTT(60) DEF StartingWrite
<1>9. CASE TaskLaunch
  BY <1>9, SMTT(60) DEF TaskLaunch, Launch
<1>10. CASE StartAdopt
  <2>1. OneHolder' /\ CommandAuthority' /\ CommandReceipt' /\ CommandDir'
    BY <1>10, SMTT(60) DEF StartAdopt, Status
  <2>2. StartingRun'
    BY <1>10, SMTT(60) DEF StartAdopt, Status
  <2>3. DirOwned' /\ Receipts'
    BY <1>10, SMTT(60) DEF StartAdopt, Status
  <2>4. Authentic' /\ TaskAuthority' /\ Fenced'
    BY <1>10, SMTT(60) DEF StartAdopt, Status
  <2>5. BrokerOwned' /\ Launching'
    BY <1>10, SMTT(60) DEF StartAdopt, Status
  <2> QED
    BY <2>1, <2>2, <2>3, <2>4, <2>5
<1>11. CASE RepublishLock
  BY <1>11, SMTT(60) DEF RepublishLock, PublishInLock
<1>12. CASE AdoptLock
  BY <1>12, SMTT(60) DEF AdoptLock, PublishInLock
<1>13. CASE AdoptReceipt
  BY <1>13, SMTT(60) DEF AdoptReceipt
<1>14. CASE LaunchProbe
  BY <1>14, SMTT(60) DEF LaunchProbe
<1>15. CASE StopSession
  BY <1>15, SMTT(60) DEF StopSession
<1>16. CASE StoppedWrite
  <2>1. \A q \in Runs :
          /\ q # RunOf[cmd.claim] => receipt'[q] = receipt[q]
          /\ q = RunOf[cmd.claim] =>
               /\ receipt'[q].claim = cmd.claim /\ receipt'[q].session = cmd.session
               /\ receipt'[q].cleanup = "stopped"
               /\ receipt'[q].state \in {cmd.state, "failed"}
    BY <1>16 DEF StoppedWrite
  <2>2. Exit \/ Goto("strip")
    BY <1>16 DEF StoppedWrite
  <2>3. /\ cmd.pc = "stopped"
        /\ UNCHANGED <<lock, dir, pending, fence, task, trigger, broker, issued>>
    BY <1>16 DEF StoppedWrite
  <2>4. StartingRun' /\ DirOwned'
    BY <2>1, <2>2, <2>3
  <2>7. Receipts'
    BY <2>1, <2>3
  <2>5. OneHolder' /\ CommandAuthority' /\ CommandReceipt' /\ CommandDir'
    <3>1. OneHolder' /\ CommandAuthority'
      BY <2>1, <2>2, <2>3, SMTT(60)
    <3>2. CommandReceipt'
      BY <2>1, <2>2, <2>3, SMTT(60)
    <3>3. CommandDir'
      BY <2>1, <2>2, <2>3, SMTT(60)
    <3> QED
      BY <3>1, <3>2, <3>3
  <2>6. Authentic' /\ BrokerOwned' /\ Launching' /\ TaskAuthority' /\ Fenced'
    <3>1. Authentic' /\ BrokerOwned'
      BY <2>1, <2>2, <2>3, SMTT(60)
    <3>2. Launching'
      BY <2>1, <2>2, <2>3, SMTT(60)
    <3>3. TaskAuthority' /\ Fenced'
      BY <2>1, <2>2, <2>3, SMTT(60)
    <3> QED
      BY <3>1, <3>2, <3>3
  <2> QED
    BY <2>4, <2>5, <2>6, <2>7 DEF Safe
<1>17. CASE StripRoot
  BY <1>17, SMTT(60) DEF StripRoot
<1>18. CASE RemoveRequest
  <2>1. OneHolder' /\ CommandAuthority' /\ CommandReceipt' /\ CommandDir'
    BY <1>18, SMTT(60) DEF RemoveRequest
  <2>2. StartingRun'
    BY <1>18, SMTT(60) DEF RemoveRequest
  <2>3. DirOwned' /\ Receipts'
    BY <1>18, SMTT(60) DEF RemoveRequest
  <2>4. Authentic' /\ TaskAuthority' /\ Fenced'
    BY <1>18, SMTT(60) DEF RemoveRequest
  <2>5. BrokerOwned' /\ Launching'
    BY <1>18, SMTT(60) DEF RemoveRequest
  <2> QED
    BY <2>1, <2>2, <2>3, <2>4, <2>5
<1>19. CASE RemoveOwnership
  <2>1. OneHolder' /\ CommandAuthority' /\ CommandReceipt' /\ CommandDir'
    BY <1>19, SMTT(60) DEF RemoveOwnership
  <2>2. StartingRun'
    BY <1>19, SMTT(60) DEF RemoveOwnership
  <2>7. DirOwned'
    BY <1>19, SMTT(60) DEF RemoveOwnership
  <2>3. Receipts'
    BY <1>19, SMTT(60) DEF RemoveOwnership
  <2>4. Authentic' /\ TaskAuthority' /\ Fenced'
    BY <1>19, SMTT(60) DEF RemoveOwnership
  <2>5. BrokerOwned'
    BY <1>19, SMTT(60) DEF RemoveOwnership
  <2>6. Launching'
    BY <1>19, SMTT(60) DEF RemoveOwnership
  <2> QED
    BY <2>1, <2>2, <2>3, <2>4, <2>5, <2>6, <2>7
<1>20. CASE RemoveRoot
  <2>1. OneHolder' /\ CommandAuthority' /\ CommandReceipt' /\ CommandDir'
    BY <1>20, SMTT(60) DEF RemoveRoot
  <2>2. StartingRun'
    BY <1>20, SMTT(60) DEF RemoveRoot
  <2>3. DirOwned' /\ Receipts'
    BY <1>20, SMTT(60) DEF RemoveRoot
  <2>4. Authentic' /\ TaskAuthority' /\ Fenced'
    BY <1>20, SMTT(60) DEF RemoveRoot
  <2>5. BrokerOwned' /\ Launching'
    BY <1>20, SMTT(60) DEF RemoveRoot
  <2> QED
    BY <2>1, <2>2, <2>3, <2>4, <2>5
<1>21. CASE RemoveStaging
  <2>1. CASE Exit /\ UNCHANGED dir
    BY <1>21, <2>1 DEF RemoveStaging
  <2>2. CASE Goto("release") /\ dir' = [dir EXCEPT ![RunOf[cmd.claim]].staging = NoClaim]
    <3>1. OneHolder' /\ CommandAuthority' /\ CommandReceipt' /\ CommandDir'
      BY <1>21, <2>2 DEF RemoveStaging
    <3>2. StartingRun'
      BY <1>21, <2>2, SMTT(60) DEF RemoveStaging
    <3>7. DirOwned'
      BY <1>21, <2>2, SMTT(60) DEF RemoveStaging
    <3>3. Receipts'
      BY <1>21, <2>2 DEF RemoveStaging
    <3>4. Authentic' /\ TaskAuthority' /\ Fenced'
      BY <1>21, <2>2 DEF RemoveStaging
    <3>5. BrokerOwned'
      BY <1>21, <2>2 DEF RemoveStaging
    <3>6. Launching'
      BY <1>21, <2>2 DEF RemoveStaging
    <3> QED
      BY <3>1, <3>2, <3>3, <3>4, <3>5, <3>6, <3>7
  <2> QED
    BY <1>21, <2>1, <2>2 DEF RemoveStaging
<1>22. CASE ReleaseLock
  BY <1>22, SMTT(60) DEF ReleaseLock
<1>23. CASE CloseReceipt
  <2>1. OneHolder' /\ CommandAuthority' /\ CommandReceipt' /\ CommandDir'
    BY <1>23, SMTT(60) DEF CloseReceipt, Terminalized, Terminal
  <2>2. StartingRun' /\ DirOwned'
    BY <1>23, SMTT(60) DEF CloseReceipt, Terminalized, Terminal
  <2>3. Receipts'
    BY <1>23, SMTT(60) DEF CloseReceipt, Terminalized, Terminal
  <2>4. Authentic' /\ TaskAuthority' /\ Fenced'
    BY <1>23, SMTT(60) DEF CloseReceipt, Terminalized, Terminal
  <2>5. BrokerOwned'
    BY <1>23, SMTT(60) DEF CloseReceipt, Terminalized, Terminal
  <2>6. Launching'
    BY <1>23, SMTT(60) DEF CloseReceipt, Terminalized, Terminal
  <2> QED
    BY <2>1, <2>2, <2>3, <2>4, <2>5, <2>6
<1>24. CASE RemovePending
  BY <1>24, SMTT(60) DEF RemovePending
<1>25. CASE Abandon
  <2>1. OneHolder' /\ CommandAuthority' /\ CommandReceipt' /\ CommandDir'
    BY <1>25, SMTT(60) DEF Abandon
  <2>2. StartingRun' /\ DirOwned'
    BY <1>25, SMTT(60) DEF Abandon
  <2>3. Receipts'
    BY <1>25, SMTT(60) DEF Abandon
  <2>4. Authentic' /\ TaskAuthority' /\ Fenced'
    BY <1>25, SMTT(60) DEF Abandon
  <2>5. BrokerOwned'
    BY <1>25, SMTT(60) DEF Abandon
  <2>6. Launching'
    BY <1>25, SMTT(60) DEF Abandon
  <2> QED
    BY <2>1, <2>2, <2>3, <2>4, <2>5, <2>6
<1> QED
  BY <1>1, <1>2, <1>3, <1>4, <1>5, <1>6, <1>7, <1>8, <1>9, <1>10, <1>11, <1>12, <1>13, <1>14,
     <1>15, <1>16, <1>17, <1>18, <1>19, <1>20, <1>21, <1>22, <1>23, <1>24, <1>25, Zenon
  DEF CommandStep

LEMMA TaskSafe ==
  ASSUME Typed, Safe, Typed', NoRace, TaskStep \/ TaskCrash
  PROVE Safe'
<1>3. CASE TaskRefuse
  <2>1. task.pc = "read" /\ task.claim \in Claims
    BY <1>3 DEF TaskRefuse, Typed, Claimed
  <2>2. PICK st \in {"failed", "timedout"} :
          /\ OperationFree /\ FailReceipt(task.claim, st)
          /\ receipt[RunOf[task.claim]].state # "none"
          /\ task' = IdleTask
          /\ UNCHANGED <<lock, dir, pending, fence, cmd, trigger, world>>
    BY <1>3, <2>1, RefuseEffect DEF Typed
  <2> QED
    BY <2>1, <2>2, FailSafe DEF OperationFree, world
<1>13. CASE TaskFail
  <2>1. PICK st \in {"failed", "timedout"} : FailReceipt(task.claim, st)
    BY <1>13 DEF TaskFail
  <2>2. /\ task.pc \in RunPcs /\ cmd.pc = "idle" /\ task' = IdleTask
        /\ UNCHANGED <<lock, dir, pending, fence, cmd, broker, issued>>
    BY <1>13 DEF TaskFail, Resumed, OperationFree, world
  <2>3. task.claim \in Claims /\ receipt[RunOf[task.claim]].state # "none"
    BY <2>2 DEF Typed, Claimed, Safe, TaskAuthority, RunPcs
  <2> QED
    BY <2>1, <2>2, <2>3, FailSafe
<1>17. ASSUME TaskReconcile, task' = IdleTask,
              \E st \in {"failed", "timedout"} : FailReceipt(task.claim, st)
       PROVE Safe'
  <2>1. /\ task.pc = "returned" /\ cmd.pc = "idle"
        /\ UNCHANGED <<lock, dir, pending, fence, cmd, broker, issued>>
    BY <1>17 DEF TaskReconcile, OperationFree
  <2>2. task.claim \in Claims /\ receipt[RunOf[task.claim]].state # "none"
    BY <2>1 DEF Typed, Claimed, Safe, TaskAuthority
  <2> QED
    BY <1>17, <2>1, <2>2, FailSafe
<1>18. ASSUME RollbackWrite, task.pc = "rolled" PROVE Safe'
  <2>1. /\ cmd.pc = "idle" /\ task' = IdleTask /\ FailReceipt(task.claim, "failed")
        /\ UNCHANGED <<lock, dir, pending, fence, cmd, broker, issued>>
    BY <1>18 DEF RollbackWrite, Safe, OneHolder, HoldPcs, world
  <2>2. task.claim \in Claims /\ receipt[RunOf[task.claim]].state # "none"
    BY <1>18 DEF Typed, Claimed, Safe, TaskAuthority
  <2> QED
    BY <2>1, <2>2, FailSafe
<1>20. ASSUME TaskAdvance
       PROVE /\ \E st \in {"calling", "interacting", "collecting", "complete"} :
                 \A q \in Runs :
                   /\ receipt'[q].claim = receipt[q].claim
                   /\ receipt'[q].session = receipt[q].session
                   /\ receipt'[q].cleanup = receipt[q].cleanup
                   /\ q # RunOf[task.claim] => receipt'[q].state = receipt[q].state
                   /\ q = RunOf[task.claim] => receipt'[q].state = st
             /\ task'.pc \in {"completed"} \cup RunPcs
             /\ task'.claim = task.claim /\ task'.session = task.session
  BY <1>20, PhaseEffect DEF Typed
<1> USE RunOfClaim, NullsAssumption
    DEF Typed, TypeOK, Claimed, Safe, OneHolder, CommandAuthority, CommandReceipt, CommandDir,
        StartingRun, Receipts, DirOwned, Authentic, Owns, BrokerOwned, Launching, TaskAuthority,
        Fenced, UnderLock, Unbound, Settling, Stopping, Removing, HoldPcs, LaunchPcs, RunPcs,
        LockRecord, Receipt, Dir, Command, Task, LockOf, NoLock, ReceiptOf, IdleCmd, IdleTask,
        Begin, Goto, Exit, ReadOnly, durable, world, OperationFree, LaunchHeld
<1>1. CASE TaskStart
  BY <1>1, SMTT(60) DEF TaskStart
<1>2. CASE TaskAdmit
  BY <1>2, SMTT(60) DEF TaskAdmit, TaskGoto, ExactlyStarting, Status
<1>4. CASE TaskReject
  BY <1>4, SMTT(60) DEF TaskReject
<1>5. ASSUME NEW s \in Sessions, DaemonRecord(s) PROVE Safe'
  BY <1>5, SMTT(60) DEF DaemonRecord, NoRace
<1>6. CASE DaemonReturn
  BY <1>6, DaemonReturnEffect
<1>7. CASE TaskReconcile
  <2>1. CASE task' = IdleTask /\ UNCHANGED receipt
    BY <1>7, <2>1 DEF TaskReconcile
  <2>2. CASE /\ Active(task.claim, NoSession) /\ UNCHANGED receipt
             /\ \E s \in {task.session, Recovered(RunOf[task.claim])} :
                  task' = [task EXCEPT !.pc = "bind", !.session = s]
    <3>1. lock.claim = task.claim
      BY <2>2 DEF Active
    <3>2. /\ task'.pc = "bind" /\ task'.claim = task.claim
          /\ Owns(task.claim, task'.session)
      BY <1>7, <2>2, <3>1 DEF Recovered, TaskReconcile
    <3> QED
      BY <1>7, <2>2, <3>1, <3>2 DEF TaskReconcile
  <2>3. CASE /\ task' = IdleTask
             /\ \E st \in {"failed", "timedout"} : FailReceipt(task.claim, st)
    BY <1>7, <1>17, <2>3
  <2> QED
    BY <1>7, <2>1, <2>2, <2>3 DEF TaskReconcile
<1>8. CASE BindLock
  BY <1>8, SMTT(60) DEF BindLock, TaskGoto
<1>9. CASE RollbackStop
  BY <1>9, SMTT(60) DEF RollbackStop, TaskGoto
<1>10. CASE RollbackWrite
  <2>1. CASE task.pc = "rolled"
    BY <1>10, <1>18, <2>1
  <2>2. CASE task.pc = "stranded"
    <3>1. /\ task.pc = "stranded" /\ cmd.pc = "idle" /\ task' = IdleTask
          /\ UNCHANGED <<lock, dir, pending, fence, cmd, broker, issued>>
      BY <1>10, <2>2 DEF RollbackWrite
    <3>2. \A q \in Runs :
            /\ q # RunOf[task.claim] => receipt'[q] = receipt[q]
            /\ q = RunOf[task.claim] =>
                 /\ receipt'[q].claim = task.claim /\ receipt'[q].session = task.session
                 /\ receipt'[q].cleanup = "none" /\ receipt'[q].state = "cleanupfailed"
      BY <1>10, <2>2 DEF RollbackWrite
    <3>4. OneHolder' /\ CommandAuthority' /\ CommandReceipt' /\ CommandDir'
      BY <3>1, <3>2, SMTT(60)
    <3>5. StartingRun' /\ DirOwned'
      BY <3>1, <3>2, SMTT(60)
    <3>6. Receipts'
      BY <3>1, <3>2, SMTT(60)
    <3>7. Authentic' /\ TaskAuthority' /\ Fenced'
      BY <3>1, <3>2, SMTT(60)
    <3>8. BrokerOwned'
      BY <3>1, <3>2, SMTT(60)
    <3>9. Launching'
      BY <3>1, <3>2, SMTT(60)
    <3> QED
      BY <3>4, <3>5, <3>6, <3>7, <3>8, <3>9
  <2> QED
    BY <1>10, <2>1, <2>2 DEF RollbackWrite
<1>11. CASE BoundWrite
  <2>1. /\ task.pc = "bound" /\ cmd.pc = "idle"
        /\ UNCHANGED <<lock, dir, pending, fence, cmd, broker, issued>>
        /\ task' = IdleTask \/ TaskGoto("ready")
    BY <1>11 DEF BoundWrite
  <2>2. PICK st \in {"running", "failed", "cleanupfailed"} : \A q \in Runs :
          /\ q # RunOf[task.claim] => receipt'[q] = receipt[q]
          /\ q = RunOf[task.claim] =>
               /\ receipt'[q].claim = task.claim /\ receipt'[q].session = task.session
               /\ receipt'[q].cleanup = "none" /\ receipt'[q].state = st
    BY <1>11 DEF BoundWrite
  <2>4. OneHolder' /\ CommandAuthority' /\ CommandReceipt' /\ CommandDir'
    BY <2>1, <2>2, SMTT(60) DEF TaskGoto
  <2>5. StartingRun' /\ DirOwned'
    BY <2>1, <2>2, SMTT(60) DEF TaskGoto
  <2>6. Receipts'
    BY <2>1, <2>2, SMTT(60) DEF TaskGoto
  <2>7. Authentic' /\ TaskAuthority' /\ Fenced'
    BY <2>1, <2>2, SMTT(60) DEF TaskGoto
  <2>8. BrokerOwned'
    BY <2>1, <2>2, SMTT(60) DEF TaskGoto
  <2>9. Launching'
    BY <2>1, <2>2, SMTT(60) DEF TaskGoto
  <2> QED
    BY <2>4, <2>5, <2>6, <2>7, <2>8, <2>9
<1>12. CASE TaskAdvance
  <2>1. /\ task.pc \in RunPcs /\ OperationFree /\ lock.claim = task.claim
        /\ UNCHANGED <<lock, dir, pending, fence, cmd, trigger, world>>
    BY <1>12 DEF TaskAdvance, Resumed, Active
  <2>2. PICK st \in {"calling", "interacting", "collecting", "complete"} :
          \A q \in Runs :
            /\ receipt'[q].claim = receipt[q].claim /\ receipt'[q].session = receipt[q].session
            /\ receipt'[q].cleanup = receipt[q].cleanup
            /\ q # RunOf[task.claim] => receipt'[q].state = receipt[q].state
            /\ q = RunOf[task.claim] => receipt'[q].state = st
    BY <1>12, <1>20
  <2>3. /\ task'.pc \in {"completed"} \cup RunPcs
        /\ task'.claim = task.claim /\ task'.session = task.session
    BY <1>12, <1>20
  <2>4. OneHolder' /\ CommandAuthority' /\ CommandReceipt' /\ CommandDir'
    BY <2>1, <2>2, <2>3
  <2>5. StartingRun' /\ DirOwned'
    BY <2>1, <2>2, <2>3
  <2>6. Receipts'
    BY <2>1, <2>2, <2>3
  <2>7. Authentic' /\ TaskAuthority' /\ Fenced'
    BY <2>1, <2>2, <2>3
  <2>8. BrokerOwned' /\ Launching'
    BY <2>1, <2>2, <2>3
  <2> QED
    BY <2>4, <2>5, <2>6, <2>7, <2>8
<1>14. CASE TaskSuperseded
  BY <1>14, SMTT(60) DEF TaskSuperseded, Resumed
<1>15. CASE TaskFinish
  BY <1>15, SMTT(60) DEF TaskFinish
<1>16. CASE TaskCrash
  BY <1>16, SMTT(60) DEF TaskCrash, NoRace
<1> QED
  BY <1>1, <1>2, <1>3, <1>4, <1>5, <1>6, <1>7, <1>8, <1>9, <1>10, <1>11, <1>12, <1>13, <1>14,
     <1>15, <1>16, Zenon
  DEF TaskStep

LEMMA SetupSafe ==
  ASSUME Typed, Safe, Typed',
         PublishSetupClaim \/ ClearSetupClaim \/ (\E c \in Claims : Expire(c)) \/ UNCHANGED vars
  PROVE Safe'
<1> USE RunOfClaim, NullsAssumption
    DEF Typed, TypeOK, Claimed, Safe, OneHolder, CommandAuthority, CommandReceipt, CommandDir,
        StartingRun, Receipts, DirOwned, Authentic, Owns, BrokerOwned, Launching, TaskAuthority,
        Fenced, UnderLock, Unbound, Settling, Stopping, Removing, HoldPcs, LaunchPcs, RunPcs,
        LockRecord, Receipt, Dir, Command, Task, LockOf, NoLock, ReceiptOf, IdleCmd, IdleTask,
        Begin, Goto, Exit, ReadOnly, durable, world, OperationFree, LaunchHeld
<1>1. CASE PublishSetupClaim
  BY <1>1, SMTT(60) DEF PublishSetupClaim, Quiescent
<1>2. CASE ClearSetupClaim
  BY <1>2, SMTT(60) DEF ClearSetupClaim
<1>3. CASE \E c \in Claims : Expire(c)
  BY <1>3, SMTT(60) DEF Expire
<1>4. CASE UNCHANGED vars
  BY <1>4, SMTT(60) DEF vars
<1> QED
  BY <1>1, <1>2, <1>3, <1>4
LEMMA SafeStep ==
  ASSUME NoRace, Typed, Safe, [Next]_vars
  PROVE Safe'
<1>1. Typed'
  BY TypedStep
<1> QED
  BY <1>1, ArrivalSafe, CommandSafe, TaskSafe, SetupSafe DEF Next

LEMMA SafeInit == Init => Safe
BY ClaimsAssumption, NullsAssumption
DEF Init, Safe, OneHolder, CommandAuthority, CommandReceipt, CommandDir, StartingRun, Receipts,
    DirOwned, Authentic, Owns, BrokerOwned, Launching, TaskAuthority, Fenced, UnderLock,
    Unbound, Settling, Stopping, Removing, HoldPcs, LaunchPcs, NoLock, LockOf, NoReceipt,
    ReceiptOf, NoDir, IdleCmd, IdleTask

-----------------------------------------------------------------------------
(* What follows from it *)

LEMMA DirGone ==
  ASSUME Typed, Safe, NEW r \in Runs,
         ~ (lock.claim \in Claims /\ RunOf[lock.claim] = r)
  PROVE dir[r] = NoDir /\ broker[r] = NoSession
<1>1. dir[r] \in Dir
  BY DEF Typed, TypeOK
<1>2. dir[r].root = "absent" /\ dir[r].staging = NoClaim /\ dir[r].owner = NoClaim
  BY DEF Safe, DirOwned
<1>3. ~dir[r].request
  BY <1>2 DEF Safe, StartingRun
<1> QED
  BY <1>1, <1>2, <1>3 DEF NoDir, Dir, Safe, BrokerOwned

LEMMA SafeImplies ==
  ASSUME Typed, Safe
  PROVE SessionUnderLock /\ CleanupIsTrue /\ SetupExclusive /\ SessionAuthentic
<1>1. SessionUnderLock
  BY DEF Safe, BrokerOwned, SessionUnderLock
<1>2. ASSUME NEW r \in Runs, receipt[r].cleanup = "known"
      PROVE /\ lock.claim # receipt[r].claim
            /\ ~ (lock.claim \in Claims /\ RunOf[lock.claim] = r)
  <2>1. receipt[r].state # "none" /\ receipt[r].claim \in Claims /\ RunOf[receipt[r].claim] = r
    BY <1>2 DEF Safe, Receipts
  <2> QED
    BY <1>2, <2>1 DEF Safe, Receipts
<1>3. CleanupIsTrue
  BY <1>2, DirGone DEF CleanupIsTrue
<1>4. SetupExclusive
  BY DirGone, NullsAssumption DEF SetupExclusive, Safe, Fenced, NoLock, LockOf
<1>5. SessionAuthentic
  BY DEF SessionAuthentic, Safe, Authentic, Owns
<1> QED
  BY <1>1, <1>3, <1>4, <1>5

\* The invariant holds in every state of a host on which no task dies within settle's
\* probe and no second start is under way while the first one's Session is stopped.
THEOREM SafeInvariant == ASSUME NoRace PROVE Spec => [](Typed /\ Safe)
<1>1. Init => Typed /\ Safe
  BY TypedInit, SafeInit
<1>2. Typed /\ Safe /\ [Next]_vars => Typed' /\ Safe'
  BY NoRace, TypedStep, SafeStep
<1> QED
  BY <1>1, <1>2, PTL DEF Spec

\* Settle never gives up the Host Lock while the broker has a Session of the Run on
\* record: for any claims, Runs, Sessions and faults but those two.
THEOREM SessionsUnderLock == ASSUME NoRace PROVE Spec => []SessionUnderLock
BY SafeInvariant, SafeImplies, PTL

\* A receipt with complete cleanup is true for ever: settle's shortcuts, the task's
\* late writes and the next Run included.
THEOREM CleanupsTrue == ASSUME NoRace PROVE Spec => []CleanupIsTrue
BY SafeInvariant, SafeImplies, PTL

\* A published setup claim finds, and keeps, the host without a Run.
THEOREM SetupsExclusive == ASSUME NoRace PROVE Spec => []SetupExclusive
BY SafeInvariant, SafeImplies, PTL

\* No path of publication, rollback or recovery names a Session that was issued for
\* another claim.
THEOREM SessionsAuthentic == ASSUME NoRace PROVE Spec => []SessionAuthentic
BY SafeInvariant, SafeImplies, PTL

-----------------------------------------------------------------------------
(* Who publishes a Session, and which *)

\* Whoever publishes a Session in the Host Lock finds none there; the task works for no
\* other Session than the one its Run has on record.
Binding ==
  /\ task.pc = "bind" \/ cmd.pc \in {"republish", "adoptlock"} => lock.session = NoSession
  /\ task.pc = "rollback" => lock.session \in {NoSession, task.session}
  /\ task.pc \in {"idle", "read", "launching"} => task.session = NoSession
  /\ task.session # NoSession => broker[RunOf[task.claim]] \in {task.session, NoSession}

\* What the steps leave of what Binding speaks of.
LEMMA BindingCommand ==
  ASSUME Typed, Safe, Binding,
         (\E c \in Claims : Arrival(c)) \/ CommandStep \/ Abandon
  PROVE Binding'
<1> USE NullsAssumption, RunOfClaim
    DEF Typed, TypeOK, Claimed, Safe, OneHolder, CommandAuthority, Binding, HoldPcs, LockRecord,
        Command, Task, LockOf, NoLock, IdleCmd, Begin, Goto, Exit, ReadOnly, durable, world,
        OperationFree, Unbound, Stopping, Removing
<1>1. CASE \E c \in Claims : Arrival(c)
  <2>1. UNCHANGED <<lock, task, broker>>
    BY <1>1 DEF Arrival, AcquireBegin, StageBegin, StartBegin, StartReplay, SettleReleased,
                SettleBegin
  <2>2. cmd'.pc \in {"republish", "adoptlock"} => lock.session = NoSession
    BY <1>1, <2>1 DEF Arrival, AcquireBegin, StageBegin, StartBegin, StartReplay,
                      SettleReleased, SettleBegin
  <2> QED
    BY <2>1, <2>2
<1>2. CASE CommandStep \/ Abandon
  <2>1. task' = task /\ cmd.pc # "idle"
    BY <1>2
    DEF CommandStep, LockCreate, LockFill, AcceptWrite, StageRename, StagedWrite, RequestWrite,
        PendingWrite, StartingWrite, TaskLaunch, StartAdopt, RepublishLock, AdoptLock,
        PublishInLock, AdoptReceipt, LaunchProbe, StopSession, StoppedWrite, StripRoot,
        RemoveRequest, RemoveOwnership, RemoveRoot, RemoveStaging, ReleaseLock, CloseReceipt,
        RemovePending, Abandon
  <2>2. task.pc \notin HoldPcs
    BY <2>1
  <2>3. cmd'.pc \notin {"republish", "adoptlock"}
    <3>1. CASE LockCreate \/ LockFill \/ AcceptWrite \/ StageRename \/ StagedWrite
      BY <3>1 DEF LockCreate, LockFill, AcceptWrite, StageRename, StagedWrite
    <3>2. CASE RequestWrite \/ PendingWrite \/ StartingWrite \/ TaskLaunch \/ StartAdopt
      BY <3>2 DEF RequestWrite, PendingWrite, StartingWrite, TaskLaunch, StartAdopt
    <3>3. CASE RepublishLock \/ AdoptLock \/ LaunchProbe
      BY <3>3 DEF RepublishLock, AdoptLock, PublishInLock, LaunchProbe
    <3>6. CASE AdoptReceipt
      BY <3>6 DEF AdoptReceipt
    <3>7. CASE StopSession
      BY <3>7 DEF StopSession
    <3>4. CASE StoppedWrite \/ StripRoot \/ RemoveRequest \/ RemoveOwnership
      BY <3>4 DEF StoppedWrite, StripRoot, RemoveRequest, RemoveOwnership
    <3>5. CASE RemoveRoot \/ RemoveStaging \/ ReleaseLock \/ CloseReceipt
               \/ RemovePending \/ Abandon
      BY <3>5 DEF RemoveRoot, RemoveStaging, ReleaseLock, CloseReceipt, RemovePending, Abandon
    <3> QED
      BY <1>2, <3>1, <3>2, <3>3, <3>4, <3>5, <3>6, <3>7 DEF CommandStep
  <2>4. \A r \in Runs : broker'[r] \in {broker[r], NoSession}
    <3>1. CASE StopSession
      BY <3>1 DEF StopSession
    <3>2. CASE UNCHANGED broker
      BY <3>2
    <3> QED
      BY <1>2, <3>1, <3>2
      DEF CommandStep, LockCreate, LockFill, AcceptWrite, StageRename, StagedWrite,
          RequestWrite, PendingWrite, StartingWrite, TaskLaunch, StartAdopt, RepublishLock,
          AdoptLock, PublishInLock, AdoptReceipt, LaunchProbe, StoppedWrite, StripRoot,
          RemoveRequest, RemoveOwnership, RemoveRoot, RemoveStaging, ReleaseLock,
          CloseReceipt, RemovePending, Abandon
  <2> QED
    BY <2>1, <2>2, <2>3, <2>4
<1> QED
  BY <1>1, <1>2

LEMMA BindingTask ==
  ASSUME Typed, Safe, Binding, TaskStep \/ TaskCrash PROVE Binding'
<1> USE NullsAssumption, RunOfClaim
    DEF Typed, TypeOK, Claimed, Safe, OneHolder, Binding, HoldPcs, RunPcs, LockRecord,
        Command, Task, LockOf, IdleTask, TaskGoto, durable, world, OperationFree
<1>1. CASE TaskStart \/ TaskAdmit \/ TaskReject \/ TaskFinish \/ TaskCrash
  BY <1>1 DEF TaskStart, TaskAdmit, TaskReject, TaskFinish, TaskCrash
<1>2. CASE TaskRefuse \/ TaskFail \/ TaskSuperseded \/ RollbackWrite
  BY <1>2 DEF TaskRefuse, TaskFail, TaskSuperseded, RollbackWrite
<1>3. CASE \E s \in Sessions : DaemonRecord(s)
  BY <1>3 DEF DaemonRecord
<1>4. CASE DaemonReturn
  <2>1. /\ task'.pc = "returned" /\ task'.claim = task.claim /\ task.pc \notin HoldPcs
        /\ task'.session \in {task.session, NoSession} /\ UNCHANGED <<lock, cmd, broker>>
    BY <1>4, DaemonReturnEffect
  <2> QED
    BY <2>1
<1>5. CASE TaskReconcile
  <2>1. CASE task' = IdleTask
    BY <1>5, <2>1 DEF TaskReconcile
  <2>2. CASE /\ Active(task.claim, NoSession)
             /\ \E s \in {task.session, Recovered(RunOf[task.claim])} :
                  task' = [task EXCEPT !.pc = "bind", !.session = s]
    <3>1. lock.session = NoSession /\ UNCHANGED <<lock, cmd, broker>>
      BY <1>5, <2>2 DEF TaskReconcile, Active
    <3>2. /\ task'.pc = "bind" /\ task'.claim = task.claim
          /\ \/ task'.session = task.session
             \/ task'.session \in {broker[RunOf[task.claim]], NoSession}
      BY <2>2 DEF Recovered
    <3> QED
      BY <1>5, <3>1, <3>2 DEF TaskReconcile
  <2> QED
    BY <1>5, <2>1, <2>2 DEF TaskReconcile
<1>6. CASE BindLock \/ BoundWrite
  BY <1>6 DEF BindLock, BoundWrite
<1>7. CASE RollbackStop
  BY <1>7 DEF RollbackStop
<1>8. CASE TaskAdvance
  <2>1. /\ task'.pc \in {"completed"} \cup RunPcs
        /\ task'.claim = task.claim /\ task'.session = task.session
    BY <1>8, PhaseEffect
  <2> QED
    BY <1>8, <2>1 DEF TaskAdvance
<1> QED
  BY <1>1, <1>2, <1>3, <1>4, <1>5, <1>6, <1>7, <1>8 DEF TaskStep

LEMMA BindingStep ==
  ASSUME Typed, Safe, Binding, [Next]_vars PROVE Binding'
<1>1. CASE (\E c \in Claims : Arrival(c)) \/ CommandStep \/ Abandon
  BY <1>1, BindingCommand
<1>2. CASE TaskStep \/ TaskCrash
  BY <1>2, BindingTask
<1>3. CASE (\E c \in Claims : Expire(c)) \/ PublishSetupClaim \/ ClearSetupClaim
           \/ UNCHANGED vars
  BY <1>3 DEF Binding, Expire, PublishSetupClaim, ClearSetupClaim, vars, durable, world
<1> QED
  BY <1>1, <1>2, <1>3 DEF Next

LEMMA BindingInit == Init => Binding
BY DEF Init, Binding, IdleTask, IdleCmd, NoLock, LockOf

-----------------------------------------------------------------------------
(* Each step of the host is a step of its lease, or none *)

\* The Session the lease knows of is the one the lock's Run has on record.
LEMMA RunningIs ==
  ASSUME Typed, Safe
  PROVE Running = IF lock.claim \in Claims THEN broker[RunOf[lock.claim]] ELSE NoSession
<1>1. broker \in [Runs -> Sessions \cup {NoSession}]
  BY DEF Typed, TypeOK
<1>2. \A r \in Runs : broker[r] # NoSession => lock.claim \in Claims /\ RunOf[lock.claim] = r
  BY DEF Safe, BrokerOwned
<1>3. CASE lock.claim \in Claims /\ broker[RunOf[lock.claim]] # NoSession
  <2>1. OnRecord = {broker[RunOf[lock.claim]]}
    BY <1>1, <1>2, <1>3, RunOfClaim DEF OnRecord
  <2> QED
    BY <1>3, <2>1 DEF Running
<1>4. CASE ~ (lock.claim \in Claims /\ broker[RunOf[lock.claim]] # NoSession)
  <2>1. OnRecord = {}
    BY <1>1, <1>2, <1>4 DEF OnRecord
  <2> QED
    BY <1>4, <2>1 DEF Running
<1> QED
  BY <1>3, <1>4

LEMMA OwnerIs ==
  ASSUME Typed
  PROVE /\ Owner \in Claims \cup {NoClaim}
        /\ Owner # NoClaim => lock.claim = Owner
        /\ Owner = NoClaim <=> lock.claim \notin Claims
BY NullsAssumption DEF Owner, Typed, TypeOK, LockRecord

\* The steps of the lease, as far as HostRun's variables are concerned.
LEMMA LeaseKept ==
  ASSUME UNCHANGED <<lock, broker, issued>>,
         \A r \in Runs : receipt'[r].state = "none" <=> receipt[r].state = "none"
  PROVE UNCHANGED Lease!leaseVars
<1>1. Owner' = Owner /\ Running' = Running /\ Reserved' = Reserved /\ lock' = lock
      /\ issued' = issued
  BY DEF Owner, Running, OnRecord, Reserved
<1> QED
  BY <1>1 DEF Lease!leaseVars

LEMMA LeaseReserve ==
  ASSUME Typed, UNCHANGED <<lock, broker, issued>>, lock.claim \in Claims,
         \A r \in Runs : r # RunOf[lock.claim] =>
           (receipt'[r].state = "none" <=> receipt[r].state = "none"),
         receipt'[RunOf[lock.claim]].state # "none"
  PROVE Lease!Reserve
<1>1. Owner' = Owner /\ Running' = Running /\ lock' = lock /\ issued' = issued
      /\ Owner = lock.claim /\ Owner # NoClaim
  BY NullsAssumption DEF Owner, Running, OnRecord
<1>2. Reserved' = Reserved \cup {RunOf[Owner]}
  BY <1>1, RunOfClaim DEF Reserved
<1> QED
  BY <1>1, <1>2 DEF Lease!Reserve

LEMMA LeaseInit == Init => Lease!Init
<1> SUFFICES ASSUME Init PROVE Lease!Init
  OBVIOUS
<1>1. Owner = NoClaim /\ lock.session = NoSession
  BY NullsAssumption DEF Init, NoLock, LockOf, Owner
<1>2. Running = NoSession /\ Reserved = {}
  BY DEF Init, Running, OnRecord, Reserved, NoReceipt, ReceiptOf
<1> QED
  BY <1>1, <1>2 DEF Init, Lease!Init

\* Most steps write neither the lock nor a receipt, nor do they ask the broker.
LEMMA LeaseStill ==
  ASSUME UNCHANGED <<lock, receipt, broker, issued>> PROVE UNCHANGED Lease!leaseVars
BY LeaseKept

\* A receipt that is written under the lock reserves the Run ID.
LEMMA LeaseWrite ==
  ASSUME Typed, Safe,
         AcceptWrite \/ StagedWrite \/ StartingWrite \/ StartAdopt \/ AdoptReceipt
           \/ StoppedWrite
  PROVE Lease!Reserve
<1>1. /\ cmd.pc \in {"accept", "staged", "starting", "adopt", "adoptreceipt", "stopped"}
      /\ UNCHANGED <<lock, broker, issued>>
  BY DEF AcceptWrite, StagedWrite, StartingWrite, StartAdopt, AdoptReceipt, StoppedWrite,
         world
<1>2. cmd.claim \in Claims /\ lock.claim = cmd.claim
  BY <1>1 DEF Typed, Claimed, Safe, CommandAuthority, UnderLock, Unbound, Settling, Stopping,
              Removing
<1>3. receipt \in [Runs -> Receipt] /\ RunOf[cmd.claim] \in Runs
  BY <1>1, <1>2, RunOfClaim DEF Typed, TypeOK, Claimed
<1>4. /\ \A r \in Runs : r # RunOf[cmd.claim] => receipt'[r] = receipt[r]
      /\ receipt'[RunOf[cmd.claim]].state # "none"
  <2>1. CASE AcceptWrite \/ StagedWrite \/ StartingWrite
    BY <1>3, <2>1 DEF AcceptWrite, StagedWrite, StartingWrite, ReceiptOf
  <2>2. CASE StartAdopt \/ AdoptReceipt
    BY <1>3, <2>2 DEF StartAdopt, AdoptReceipt, ReceiptOf
  <2>3. CASE StoppedWrite
    BY <1>2, <1>3, <2>3, <1>1 DEF StoppedWrite, ReceiptOf, Safe, CommandAuthority, Settling,
                                  Stopping
  <2> QED
    BY <2>1, <2>2, <2>3
<1> QED
  BY <1>1, <1>2, <1>4, LeaseReserve DEF Typed, Claimed

\* The receipts that the task writes, and the last one of settle, exist already.
LEMMA LeaseRewrite ==
  ASSUME Typed, Safe,
         CloseReceipt \/ TaskRefuse \/ TaskReconcile \/ RollbackWrite \/ BoundWrite
           \/ TaskAdvance \/ TaskFail
  PROVE UNCHANGED Lease!leaseVars
<1>1. UNCHANGED <<lock, broker, issued>>
  BY DEF CloseReceipt, TaskRefuse, TaskReconcile, RollbackWrite, BoundWrite, TaskAdvance,
         TaskFail, world
<1>2. TypeOK /\ receipt \in [Runs -> Receipt]
  BY DEF Typed, TypeOK
<1>3. CASE CloseReceipt
  <2>1. /\ cmd.claim \in Claims /\ RunOf[cmd.claim] \in Runs
        /\ receipt[RunOf[cmd.claim]].state # "none"
        /\ cmd.state # "none"
    BY <1>3, RunOfClaim
    DEF CloseReceipt, Typed, Claimed, Safe, CommandReceipt, CommandAuthority, Settling
  <2> QED
    BY <1>1, <1>2, <1>3, <2>1, LeaseKept DEF CloseReceipt, Terminalized, Terminal, ReceiptOf
<1>4. ASSUME task.claim \in Claims, receipt[RunOf[task.claim]].state # "none",
             NEW st \in {"failed", "timedout"}, FailReceipt(task.claim, st)
      PROVE UNCHANGED Lease!leaseVars
  BY <1>1, <1>2, <1>4, FailEffect, LeaseKept
<1>5. CASE TaskRefuse
  <2>1. task.claim \in Claims
    BY <1>5 DEF TaskRefuse, Typed, Claimed
  <2> QED
    BY <1>2, <1>4, <1>5, <2>1, RefuseEffect
<1>6. ASSUME task.pc \notin {"idle", "read"}
      PROVE task.claim \in Claims /\ RunOf[task.claim] \in Runs
            /\ receipt[RunOf[task.claim]].state # "none"
  BY <1>6, RunOfClaim DEF Typed, Claimed, Safe, TaskAuthority
<1>7. CASE TaskReconcile
  <2>1. \/ receipt' = receipt
        \/ \E st \in {"failed", "timedout"} : FailReceipt(task.claim, st)
    BY <1>7 DEF TaskReconcile
  <2>2. task.pc = "returned"
    BY <1>7 DEF TaskReconcile
  <2> QED
    BY <1>1, <1>4, <1>6, <2>1, <2>2, LeaseStill
<1>8. CASE RollbackWrite
  <2>1. task.pc \in {"rolled", "stranded"}
    BY <1>8 DEF RollbackWrite
  <2>2. CASE FailReceipt(task.claim, "failed")
    BY <1>4, <1>6, <2>1, <2>2
  <2>3. CASE task.pc = "stranded"
    <3>1. \A r \in Runs : receipt'[r].state = IF r = RunOf[task.claim] THEN "cleanupfailed"
                                              ELSE receipt[r].state
      BY <1>2, <1>6, <1>8, <2>3 DEF RollbackWrite, ReceiptOf
    <3> QED
      BY <1>1, <1>6, <2>1, <3>1, LeaseKept
  <2> QED
    BY <1>8, <2>2, <2>3 DEF RollbackWrite
<1>9. CASE BoundWrite
  <2>1. task.pc = "bound"
    BY <1>9 DEF BoundWrite
  <2>2. \E st \in {"failed", "running", "cleanupfailed"} : \A r \in Runs :
          receipt'[r].state = IF r = RunOf[task.claim] THEN st ELSE receipt[r].state
    BY <1>2, <1>6, <1>9, <2>1 DEF BoundWrite, ReceiptOf
  <2> QED
    BY <1>1, <1>6, <2>1, <2>2, LeaseKept
<1>10. CASE TaskAdvance
  <2>1. task.pc \in RunPcs
    BY <1>10 DEF TaskAdvance, Resumed
  <2>2. \E st \in {"calling", "interacting", "collecting", "complete"} : \A r \in Runs :
          receipt'[r].state = IF r = RunOf[task.claim] THEN st ELSE receipt[r].state
    BY <1>2, <1>10, PhaseEffect
  <2> QED
    BY <1>1, <1>6, <2>1, <2>2, LeaseKept DEF RunPcs
<1>11. CASE TaskFail
  BY <1>4, <1>6, <1>11 DEF TaskFail, Resumed, RunPcs
<1> QED
  BY <1>3, <1>5, <1>7, <1>8, <1>9, <1>10, <1>11

\* The lock file is created, filled, or removed again before it was filled.
LEMMA LeaseGrant ==
  ASSUME Typed, Safe, LockCreate \/ LockFill \/ (Abandon /\ lock' # lock)
  PROVE [Lease!Next]_(Lease!leaseVars)
<1>1. UNCHANGED <<receipt, broker, issued>>
  BY DEF LockCreate, LockFill, Abandon, world
<1>2. Running' = Running /\ Reserved' = Reserved
  BY <1>1 DEF Running, OnRecord, Reserved
<1>3. CASE LockCreate \/ Abandon
  <2>1. /\ Owner = NoClaim /\ Owner' = NoClaim /\ lock.session = NoSession
        /\ lock'.session = NoSession
    BY <1>3, NullsAssumption
    DEF LockCreate, LockFill, Abandon, Owner, Safe, CommandAuthority, NoLock, LockOf
  <2> QED
    BY <1>1, <1>2, <2>1 DEF Lease!leaseVars
<1>4. CASE LockFill
  <2>1. /\ cmd.claim \in Claims /\ RunOf[cmd.claim] \in Runs
        /\ lock = LockOf(Torn, NoSession) /\ lock' = LockOf(cmd.claim, NoSession)
        /\ receipt[RunOf[cmd.claim]].state = "none"
    BY <1>4, RunOfClaim DEF LockFill, Typed, Claimed, Safe, CommandAuthority, CommandReceipt
  <2>2. /\ Owner = NoClaim /\ Owner' = cmd.claim /\ lock'.session = lock.session
        /\ RunOf[cmd.claim] \notin Reserved
    BY <2>1, NullsAssumption DEF Owner, LockOf, Reserved
  <2>3. Lease!Grant(cmd.claim)
    BY <1>1, <1>2, <2>2 DEF Lease!Grant
  <2> QED
    BY <2>1, <2>3 DEF Lease!Next
<1> QED
  BY <1>3, <1>4

\* A Session is issued under the exact claim, named in the lock, and stopped.
LEMMA LeaseIssue ==
  ASSUME NoRace, Typed, Safe, Safe', Typed', NEW s \in Sessions, DaemonRecord(s)
  PROVE Lease!Issue(s)
<1>1. /\ task.claim \in Claims /\ RunOf[task.claim] \in Runs
      /\ task.pc = "launching" /\ lock' = lock /\ receipt' = receipt
      /\ broker[RunOf[task.claim]] = NoSession /\ issued[s] = NoClaim
      /\ broker' = [broker EXCEPT ![RunOf[task.claim]] = s]
      /\ issued' = [issued EXCEPT ![s] = task.claim]
  BY RunOfClaim DEF DaemonRecord, Typed, Claimed, durable
<1>2. lock.claim = task.claim
  BY DEF DaemonRecord, NoRace, Safe, Launching, LockOf
<1>3. Owner = task.claim /\ Owner' = Owner /\ Owner # NoClaim
  BY <1>1, <1>2, NullsAssumption DEF Owner
<1>4. RunOf[Owner] \in Reserved /\ Reserved' = Reserved
  BY <1>1, <1>3 DEF Safe, TaskAuthority, Reserved
<1>5. Running = NoSession
  BY <1>1, <1>2, RunningIs
<1>6. Running' = s
  <2>1. broker \in [Runs -> Sessions \cup {NoSession}]
    BY DEF Typed, TypeOK
  <2>2. OnRecord' = {s}
    <3>1. \A r \in Runs : broker'[r] # NoSession => r = RunOf[task.claim]
      BY <1>1, <1>2, <2>1 DEF Safe, BrokerOwned
    <3> QED
      BY <1>1, <2>1, <3>1, NullsAssumption DEF OnRecord
  <2> QED
    BY <2>2, NullsAssumption DEF Running
<1> QED
  BY <1>1, <1>3, <1>4, <1>5, <1>6 DEF Lease!Issue

LEMMA LeaseBind ==
  ASSUME Typed, Safe, Binding, BindLock \/ RepublishLock \/ AdoptLock
  PROVE [Lease!Next]_(Lease!leaseVars)
<1>1. UNCHANGED <<receipt, broker, issued>>
  BY DEF BindLock, RepublishLock, AdoptLock, PublishInLock, world
<1>2. Running' = Running /\ Reserved' = Reserved
  BY <1>1 DEF Running, OnRecord, Reserved
<1>3. CASE lock' = lock
  BY <1>1, <1>3, LeaseStill
<1>4. ASSUME NEW c, NEW s \in Sessions \cup {NoSession}, lock' = LockOf(c, s),
             lock.claim = c, lock.session = NoSession, c \in Claims, Owns(c, s)
      PROVE [Lease!Next]_(Lease!leaseVars)
  <2>1. Owner = c /\ Owner' = c /\ lock'.session = s
    BY <1>4, NullsAssumption DEF Owner, LockOf
  <2>2. CASE s = NoSession
    BY <1>1, <1>2, <1>4, <2>1, <2>2 DEF Lease!leaseVars
  <2>3. CASE s # NoSession
    <3>1. s \in Sessions /\ issued[s] = Owner
      BY <1>4, <2>1, <2>3 DEF Owns
    <3>2. Lease!Bind(s)
      BY <1>1, <1>2, <1>4, <2>1, <3>1 DEF Lease!Bind
    <3> QED
      BY <3>1, <3>2 DEF Lease!Next
  <2> QED
    BY <2>2, <2>3
<1>5. CASE BindLock
  <2>1. /\ task.pc = "bind" /\ task.claim \in Claims /\ lock.claim = task.claim
        /\ lock.session = NoSession /\ Owns(task.claim, task.session)
        /\ task.session \in Sessions \cup {NoSession}
    BY <1>5, TaskFields
    DEF BindLock, Typed, Claimed, Safe, TaskAuthority, Authentic, Binding, HoldPcs
  <2> QED
    BY <1>3, <1>4, <1>5, <2>1 DEF BindLock
<1>6. CASE RepublishLock \/ AdoptLock
  <2>1. cmd.pc \in {"republish", "adoptlock"} /\ lock' = LockOf(cmd.claim, cmd.session)
    BY <1>6 DEF RepublishLock, AdoptLock, PublishInLock
  <2>2. /\ cmd.claim \in Claims /\ lock.claim = cmd.claim
        /\ lock.session = NoSession /\ Owns(cmd.claim, cmd.session)
        /\ cmd.session \in Sessions \cup {NoSession}
    BY <2>1, CommandFields
    DEF Typed, Claimed, Safe, CommandAuthority, UnderLock, Settling, Authentic, Binding
  <2> QED
    BY <1>4, <2>1, <2>2
<1> QED
  BY <1>5, <1>6

LEMMA LeaseStop ==
  ASSUME Typed, Safe, Binding, Typed', Safe', StopSession \/ RollbackStop
  PROVE [Lease!Next]_(Lease!leaseVars)
<1>1. UNCHANGED <<lock, receipt, issued>>
  BY DEF StopSession, RollbackStop, durable
<1>2. Owner' = Owner /\ Reserved' = Reserved
  BY <1>1 DEF Owner, Reserved
<1>3. broker \in [Runs -> Sessions \cup {NoSession}]
  BY DEF Typed, TypeOK
<1>4. CASE broker' = broker
  BY <1>1, <1>4, LeaseStill
<1>5. ASSUME NEW c \in Claims, lock.claim = c,
             broker' = [broker EXCEPT ![RunOf[c]] = NoSession],
             broker[RunOf[c]] # NoSession, lock.session \in {broker[RunOf[c]], NoSession}
      PROVE Lease!Stop
  <2>1. Running = broker[RunOf[c]]
    BY <1>5, RunningIs
  <2>2. Running' = NoSession
    <3>1. \A r \in Runs : broker'[r] = NoSession
      BY <1>3, <1>5, RunOfClaim DEF Safe, BrokerOwned
    <3> QED
      BY <3>1 DEF Running, OnRecord
  <2> QED
    BY <1>1, <1>2, <1>5, <2>1, <2>2 DEF Lease!Stop
<1>6. CASE StopSession
  <2>1. /\ cmd.pc = "stop" /\ cmd.claim \in Claims /\ lock.claim = cmd.claim
        /\ lock.session = cmd.session /\ RunOf[cmd.claim] \in Runs
    BY <1>6, RunOfClaim
    DEF StopSession, Typed, Claimed, Safe, CommandAuthority, UnderLock, Settling, Stopping
  <2>2. \/ broker' = broker
        \/ /\ broker' = [broker EXCEPT ![RunOf[cmd.claim]] = NoSession]
           /\ broker[RunOf[cmd.claim]] \in {cmd.session, NoSession}
    BY <1>3, <1>6, <2>1 DEF StopSession
  <2> QED
    BY <1>3, <1>4, <1>5, <2>1, <2>2 DEF Lease!Next
<1>7. CASE RollbackStop
  <2>1. /\ task.pc = "rollback" /\ task.claim \in Claims /\ lock.claim = task.claim
        /\ lock.session \in {NoSession, task.session} /\ RunOf[task.claim] \in Runs
        /\ task.session # NoSession => broker[RunOf[task.claim]] \in {task.session, NoSession}
    BY <1>7, RunOfClaim
    DEF RollbackStop, Typed, Claimed, Safe, TaskAuthority, HoldPcs, Binding
  <2>2. broker' \in {broker, [broker EXCEPT ![RunOf[task.claim]] = NoSession]}
    BY <1>7 DEF RollbackStop
  <2> QED
    BY <1>3, <1>4, <1>5, <2>1, <2>2 DEF Lease!Next
<1> QED
  BY <1>6, <1>7

LEMMA LeaseRelease ==
  ASSUME Typed, Safe, ReleaseLock PROVE [Lease!Next]_(Lease!leaseVars)
<1>1. UNCHANGED <<receipt, broker, issued>>
  BY DEF ReleaseLock, world
<1>2. Running' = Running /\ Reserved' = Reserved
  BY <1>1 DEF Running, OnRecord, Reserved
<1>3. CASE lock' = lock
  BY <1>1, <1>3, LeaseStill
<1>4. CASE lock = LockOf(cmd.claim, cmd.session) /\ lock' = NoLock
  <2>1. cmd.pc = "release" /\ cmd.claim \in Claims /\ RunOf[cmd.claim] \in Runs
    BY RunOfClaim DEF ReleaseLock, Typed, Claimed
  <2>2. /\ Owner = cmd.claim /\ Owner' = NoClaim /\ Owner # NoClaim
        /\ lock'.session = NoSession /\ lock.claim = cmd.claim
    BY <1>4, <2>1, NullsAssumption DEF Owner, LockOf, NoLock
  <2>3. RunOf[Owner] \in Reserved
    BY <2>1, <2>2 DEF Safe, CommandReceipt, Removing, Receipts, Reserved
  <2>4. Running = NoSession
    BY <2>1, <2>2, RunningIs DEF Safe, BrokerOwned, Stopping, Removing
  <2>5. Lease!Release
    BY <1>1, <1>2, <2>2, <2>3, <2>4 DEF Lease!Release
  <2> QED
    BY <2>5 DEF Lease!Next
<1> QED
  BY <1>3, <1>4 DEF ReleaseLock

LEMMA LeaseStep ==
  ASSUME NoRace, Typed, Safe, Binding, [Next]_vars
  PROVE [Lease!Next]_(Lease!leaseVars)
<1>1. Typed' /\ Safe'
  BY TypedStep, SafeStep
<1>2. CASE UNCHANGED <<lock, receipt, broker, issued>>
  BY <1>2, LeaseStill
<1>3. CASE (\E c \in Claims : Arrival(c) \/ Expire(c)) \/ PublishSetupClaim
           \/ ClearSetupClaim \/ TaskCrash \/ UNCHANGED vars
  BY <1>2, <1>3
  DEF Arrival, AcquireBegin, StageBegin, StartBegin, StartReplay, SettleReleased, SettleBegin,
      Expire, PublishSetupClaim, ClearSetupClaim, TaskCrash, ReadOnly, durable, world, vars
<1>4. CASE CommandStep \/ Abandon
  <2>1. CASE StageRename \/ RequestWrite \/ PendingWrite \/ TaskLaunch \/ LaunchProbe
             \/ StripRoot \/ RemoveRequest \/ RemoveOwnership \/ RemoveRoot \/ RemoveStaging
             \/ RemovePending
    BY <1>2, <2>1
    DEF StageRename, RequestWrite, PendingWrite, TaskLaunch, LaunchProbe, StripRoot,
        RemoveRequest, RemoveOwnership, RemoveRoot, RemoveStaging, RemovePending, ReadOnly,
        durable, world
  <2>2. CASE Abandon /\ lock' = lock
    BY <1>2, <2>2 DEF Abandon
  <2> QED
    BY <1>1, <1>4, <2>1, <2>2, LeaseGrant, LeaseWrite, LeaseRewrite, LeaseBind, LeaseStop,
       LeaseRelease
    DEF CommandStep, Lease!Next
<1>5. CASE TaskStep
  <2>1. CASE TaskStart \/ TaskAdmit \/ TaskReject \/ DaemonReturn \/ TaskSuperseded
             \/ TaskFinish
    BY <1>2, <2>1
    DEF TaskStart, TaskAdmit, TaskReject, DaemonReturn, TaskSuperseded, TaskFinish, durable,
        world
  <2>2. CASE \E s \in Sessions : DaemonRecord(s)
    BY <1>1, <2>2, LeaseIssue DEF Lease!Next
  <2> QED
    BY <1>1, <1>5, <2>1, <2>2, LeaseRewrite, LeaseBind, LeaseStop DEF TaskStep
<1> QED
  BY <1>3, <1>4, <1>5 DEF Next

\* What the host promises about its lock, whatever is interrupted: for any claims, Runs,
\* Sessions and faults but the two of NoRace.
THEOREM LeaseImplemented == ASSUME NoRace PROVE Spec => ImplementsLease
<1>1. Init => Binding
  BY BindingInit
<1>2. Typed /\ Safe /\ Binding /\ [Next]_vars => Binding'
  BY BindingStep
<1>3. Typed /\ Safe /\ Binding /\ [Next]_vars => [Lease!Next]_(Lease!leaseVars)
  BY NoRace, LeaseStep
<1> QED
  BY <1>1, <1>2, <1>3, NoRace, LeaseInit, SafeInvariant, PTL DEF Spec, ImplementsLease, Lease!Spec

-----------------------------------------------------------------------------
(* Receipts only go forward: the invariant *)

\* States of a Run that has not been started.
Early == {"none", "accepted", "staged"}

\* What the receipts, the lock, the broker and the Run roots say of one another.
Recorded ==
  /\ \A r \in Runs :
       /\ receipt[r].state \in Early => receipt[r].session = NoSession
       /\ receipt[r].cleanup = "known" => receipt[r].state \in Terminal
       /\ receipt[r].state \notin Early /\ receipt[r].cleanup = "none" =>
            dir[r].root = "published"
       /\ broker[r] # NoSession =>
            receipt[r].state \notin Early /\ receipt[r].cleanup = "none"
  /\ lock.claim \in Claims /\ lock.session # NoSession =>
       receipt[RunOf[lock.claim]].state \notin Early

\* A command still has before it the receipt it has read.
ReceiptRead ==
  LET r == receipt[RunOf[cmd.claim]] IN
  /\ cmd.pc \in {"rename", "staged"} => r.cleanup = "none"
  /\ cmd.pc \in {"staged", "request", "pending", "starting"} => r.state \in Early
  /\ cmd.pc = "adopt" => r.session = NoSession
  /\ cmd.pc = "republish" => r.state \notin Early
  /\ cmd.pc \in {"adoptlock", "adoptreceipt"} =>
       r.session = NoSession /\ r.state \notin Early /\ r.cleanup = "none"
  /\ cmd.pc \in Settling =>
       r.state \in {"none", cmd.state} /\ r.session \in {NoSession, cmd.session}
  /\ cmd.pc \in Removing \cup {"close"} => r.state = cmd.state /\ r.session = cmd.session

\* The state in which a task that is past its launch has left its Run.
Reached(pc) ==
  CASE pc = "ready" -> "running" [] pc = "ui" -> "interacting"
    [] pc = "collect" -> "collecting" [] OTHER -> "calling"

\* The task publishes a Session for a Run that is starting, and takes only the step that
\* comes next.
TaskRun ==
  LET r == receipt[RunOf[task.claim]] IN
  /\ task.pc \in (HoldPcs \ {"completed"}) \cup RunPcs => task.session # NoSession
  /\ \/ task.pc \in HoldPcs \ {"completed"}
     \/ task.pc \in LaunchPcs \ HoldPcs /\ lock = LockOf(task.claim, NoSession)
     => /\ r.claim = task.claim /\ r.state = "starting" /\ r.cleanup = "none"
        /\ r.session = NoSession /\ cmd.pc \notin Stopping
  /\ task.pc \in RunPcs =>
       /\ r.claim = task.claim /\ r.session = task.session
       /\ lock.claim = task.claim /\ r.cleanup # "known" => r.state = Reached(task.pc)
  /\ task.pc \in {"bound"} \cup RunPcs /\ lock.claim = task.claim =>
       lock.session = task.session

Forward == Recorded /\ ReceiptRead /\ TaskRun

\* No stage arrives after an interrupted settle, and no settle fails to publish a journal.
Orderly == "restage" \notin Faults /\ "uijournal" \notin Faults

\* ownership.json is the claim's alone to remove.
LEMMA DisownEffect ==
  ASSUME Typed, RemoveOwnership
  PROVE \A q \in Runs : q # RunOf[cmd.claim] => dir'[q] = dir[q]
BY DEF RemoveOwnership, Typed, TypeOK

\* The steps of a command keep what it, and the task, have read.
LEMMA ForwardCommand ==
  ASSUME Orderly, Typed, Safe, Forward, Typed', Safe', CommandStep \/ Abandon
  PROVE Forward'
<1> USE RunOfClaim, NullsAssumption
    DEF Typed, TypeOK, Claimed, Safe, OneHolder, CommandAuthority, CommandReceipt, CommandDir,
        StartingRun, Receipts, Authentic, Owns, BrokerOwned, TaskAuthority, Forward, Recorded,
        ReceiptRead, TaskRun, Early, UnderLock, Unbound, Settling, Stopping, Removing, HoldPcs,
        LaunchPcs, RunPcs, LockRecord, Receipt, Dir, Command, Task, LockOf, NoLock, ReceiptOf,
        IdleCmd, IdleTask, Begin, Goto, Exit, ReadOnly, durable, world, OperationFree,
        LaunchHeld, Orderly
<1>1. CASE LockCreate
  <2>1. Recorded'
    BY <1>1, SMTT(30) DEF LockCreate
  <2>2. ReceiptRead'
    BY <1>1, SMTT(30) DEF LockCreate
  <2>3. TaskRun'
    BY <1>1, SMTT(30) DEF LockCreate
  <2> QED
    BY <2>1, <2>2, <2>3
<1>2. CASE LockFill
  <2>1. Recorded'
    BY <1>2, SMTT(30) DEF LockFill
  <2>2. ReceiptRead'
    BY <1>2, SMTT(30) DEF LockFill
  <2>3. TaskRun'
    BY <1>2, SMTT(30) DEF LockFill
  <2> QED
    BY <2>1, <2>2, <2>3
<1>3. CASE AcceptWrite
  <2>1. Recorded'
    BY <1>3, SMTT(30) DEF AcceptWrite
  <2>2. ReceiptRead'
    BY <1>3, SMTT(30) DEF AcceptWrite
  <2>3. TaskRun'
    BY <1>3, SMTT(30) DEF AcceptWrite
  <2> QED
    BY <2>1, <2>2, <2>3
<1>4. CASE StageRename
  <2>1. Recorded'
    BY <1>4, SMTT(30) DEF StageRename
  <2>2. ReceiptRead'
    BY <1>4, SMTT(30) DEF StageRename
  <2>3. TaskRun'
    BY <1>4, SMTT(30) DEF StageRename
  <2> QED
    BY <2>1, <2>2, <2>3
<1>5. CASE StagedWrite
  <2>1. Recorded'
    BY <1>5, SMTT(30) DEF StagedWrite
  <2>2. ReceiptRead'
    BY <1>5, SMTT(30) DEF StagedWrite
  <2>3. TaskRun'
    BY <1>5, SMTT(30) DEF StagedWrite
  <2> QED
    BY <2>1, <2>2, <2>3
<1>6. CASE RequestWrite
  <2>1. Recorded'
    BY <1>6, SMTT(30) DEF RequestWrite
  <2>2. ReceiptRead'
    BY <1>6, SMTT(30) DEF RequestWrite
  <2>3. TaskRun'
    BY <1>6, SMTT(30) DEF RequestWrite
  <2> QED
    BY <2>1, <2>2, <2>3
<1>7. CASE PendingWrite
  <2>1. Recorded'
    BY <1>7, SMTT(30) DEF PendingWrite
  <2>2. ReceiptRead'
    BY <1>7, SMTT(30) DEF PendingWrite
  <2>3. TaskRun'
    BY <1>7, SMTT(30) DEF PendingWrite
  <2> QED
    BY <2>1, <2>2, <2>3
<1>8. CASE StartingWrite
  <2>1. Recorded'
    BY <1>8, SMTT(30) DEF StartingWrite
  <2>2. ReceiptRead'
    BY <1>8, SMTT(30) DEF StartingWrite
  <2>3. TaskRun'
    BY <1>8, SMTT(30) DEF StartingWrite
  <2> QED
    BY <2>1, <2>2, <2>3
<1>9. CASE TaskLaunch
  <2>1. Recorded'
    BY <1>9, SMTT(30) DEF TaskLaunch, Launch
  <2>2. ReceiptRead'
    BY <1>9, SMTT(30) DEF TaskLaunch, Launch
  <2>3. TaskRun'
    BY <1>9, SMTT(30) DEF TaskLaunch, Launch
  <2> QED
    BY <2>1, <2>2, <2>3
<1>10. CASE StartAdopt
  <2>0. /\ UNCHANGED <<lock, dir, task, broker, issued>> /\ cmd.pc = "adopt"
        /\ cmd'.pc = "idle" /\ cmd'.claim = NoClaim
        /\ receipt[RunOf[cmd.claim]].state \notin Early
        /\ \A q \in Runs : q # RunOf[cmd.claim] => receipt'[q] = receipt[q]
        /\ receipt'[RunOf[cmd.claim]].claim = cmd.claim
        /\ receipt'[RunOf[cmd.claim]].session = cmd.session
        /\ receipt'[RunOf[cmd.claim]].cleanup = receipt[RunOf[cmd.claim]].cleanup
        /\ receipt'[RunOf[cmd.claim]].state = "cleanupfailed"
    BY <1>10 DEF StartAdopt, Status
  <2>1. Recorded'
    BY <2>0 DEF Terminal
  <2>2. ReceiptRead'
    BY <2>0 DEF Terminal
  <2>4. lock.session # NoSession /\ task.pc \notin HoldPcs
        /\ (task.pc \in RunPcs => RunOf[task.claim] # RunOf[cmd.claim])
    BY <2>0
  <2>3. TaskRun'
    BY <2>0, <2>4
  <2> QED
    BY <2>1, <2>2, <2>3
<1>11. CASE RepublishLock
  <2>1. Recorded'
    BY <1>11, SMTT(30) DEF RepublishLock, PublishInLock
  <2>2. ReceiptRead'
    BY <1>11, SMTT(30) DEF RepublishLock, PublishInLock
  <2>3. TaskRun'
    BY <1>11, SMTT(30) DEF RepublishLock, PublishInLock
  <2> QED
    BY <2>1, <2>2, <2>3
<1>12. CASE AdoptLock
  <2>1. Recorded'
    BY <1>12, SMTT(30) DEF AdoptLock, PublishInLock
  <2>2. ReceiptRead'
    BY <1>12, SMTT(30) DEF AdoptLock, PublishInLock
  <2>3. TaskRun'
    BY <1>12, SMTT(30) DEF AdoptLock, PublishInLock
  <2> QED
    BY <2>1, <2>2, <2>3
<1>13. CASE AdoptReceipt
  <2>1. Recorded'
    BY <1>13, SMTT(30) DEF AdoptReceipt, Terminal
  <2>2. ReceiptRead'
    BY <1>13, SMTT(30) DEF AdoptReceipt, Terminal
  <2>3. TaskRun'
    BY <1>13, SMTT(30) DEF AdoptReceipt, Terminal
  <2> QED
    BY <2>1, <2>2, <2>3
<1>14. CASE LaunchProbe
  <2>1. Recorded'
    BY <1>14, SMTT(30) DEF LaunchProbe
  <2>2. ReceiptRead'
    BY <1>14, SMTT(30) DEF LaunchProbe
  <2>3. TaskRun'
    BY <1>14, SMTT(30) DEF LaunchProbe
  <2> QED
    BY <2>1, <2>2, <2>3
<1>15. CASE StopSession
  <2>1. Recorded'
    BY <1>15, SMTT(30) DEF StopSession
  <2>2. ReceiptRead'
    BY <1>15, SMTT(30) DEF StopSession
  <2>3. TaskRun'
    BY <1>15, SMTT(30) DEF StopSession
  <2> QED
    BY <2>1, <2>2, <2>3
<1>16. CASE StoppedWrite
  <2>0. /\ UNCHANGED <<lock, dir, task, broker, issued>> /\ cmd.pc = "stopped"
        /\ cmd'.pc = "strip" /\ cmd'.claim = cmd.claim /\ cmd'.state = cmd.state
        /\ cmd'.session = cmd.session
        /\ \A q \in Runs : q # RunOf[cmd.claim] => receipt'[q] = receipt[q]
        /\ receipt'[RunOf[cmd.claim]].claim = cmd.claim
        /\ receipt'[RunOf[cmd.claim]].session = cmd.session
        /\ receipt'[RunOf[cmd.claim]].cleanup = "stopped"
        /\ receipt'[RunOf[cmd.claim]].state = cmd.state
    BY <1>16 DEF StoppedWrite, Fault
  <2>1. Recorded'
    BY <2>0
  <2>2. ReceiptRead'
    BY <2>0
  <2>4. /\ task.pc \notin HoldPcs /\ broker[RunOf[cmd.claim]] = NoSession
        /\ lock.claim = cmd.claim /\ lock.session = cmd.session
    BY <2>0
  <2>5. ~ (task.pc \in LaunchPcs \ HoldPcs /\ lock = LockOf(task.claim, NoSession))
    BY <2>0
  <2>6. task.pc \in RunPcs /\ RunOf[task.claim] = RunOf[cmd.claim] =>
          /\ task.claim = cmd.claim /\ task.session = cmd.session
          /\ receipt[RunOf[cmd.claim]].state = cmd.state
          /\ receipt[RunOf[cmd.claim]].cleanup # "known"
    BY <2>0, <2>4 DEF Reached
  <2>7. task.pc \in RunPcs => RunOf[task.claim] \in Runs
    BY <2>0
  <2>8. task.pc \in {"bound"} \cup RunPcs /\ lock.claim = task.claim =>
          lock.session = task.session
    BY <2>0
  <2>9. task.pc \in RunPcs =>
          LET r == receipt[RunOf[task.claim]] IN
          /\ task.session # NoSession /\ r.claim = task.claim /\ r.session = task.session
          /\ lock.claim = task.claim /\ r.cleanup # "known" => r.state = Reached(task.pc)
    BY <2>0
  <2>3. TaskRun'
    <3> HIDE DEF Typed, Safe, Forward, Recorded, ReceiptRead, Receipts, BrokerOwned, Authentic,
                 CommandAuthority, CommandReceipt, CommandDir, StartingRun
    <3>1. CASE task.pc \in RunPcs /\ RunOf[task.claim] = RunOf[cmd.claim]
      BY <2>0, <2>4, <2>5, <2>6, <2>8, <2>9, <3>1
    <3>2. CASE ~ (task.pc \in RunPcs /\ RunOf[task.claim] = RunOf[cmd.claim])
      BY <2>0, <2>4, <2>5, <2>7, <2>8, <2>9, <3>2
    <3> QED
      BY <3>1, <3>2
  <2> QED
    BY <2>1, <2>2, <2>3
<1>17. CASE StripRoot
  <2>1. Recorded'
    BY <1>17, SMTT(30) DEF StripRoot
  <2>2. ReceiptRead'
    BY <1>17, SMTT(30) DEF StripRoot
  <2>3. TaskRun'
    BY <1>17, SMTT(30) DEF StripRoot
  <2> QED
    BY <2>1, <2>2, <2>3
<1>18. CASE RemoveRequest
  <2>1. Recorded'
    BY <1>18, SMTT(30) DEF RemoveRequest
  <2>2. ReceiptRead'
    BY <1>18, SMTT(30) DEF RemoveRequest
  <2>3. TaskRun'
    BY <1>18, SMTT(30) DEF RemoveRequest
  <2> QED
    BY <2>1, <2>2, <2>3
<1>19. CASE RemoveOwnership
  <2>1. /\ UNCHANGED <<lock, receipt, task, broker, issued>> /\ cmd.pc = "disown"
        /\ Goto("rmroot")
    BY <1>19 DEF RemoveOwnership
  <2>2. \A q \in Runs : q # RunOf[cmd.claim] => dir'[q] = dir[q]
    BY <1>19, DisownEffect
  <2>5. receipt[RunOf[cmd.claim]].cleanup # "none"
    BY <2>1
  <2>3. Recorded'
    <3>1. ASSUME NEW q \in Runs, receipt[q].state \notin Early, receipt[q].cleanup = "none"
          PROVE dir'[q].root = "published"
      <4>1. q # RunOf[cmd.claim]
        BY <2>5, <3>1
      <4> QED
        BY <2>2, <3>1, <4>1
    <3> QED
      BY <2>1, <3>1
  <2>4. ReceiptRead' /\ TaskRun'
    BY <2>1
  <2> QED
    BY <2>3, <2>4
<1>20. CASE RemoveRoot
  <2>1. Recorded'
    BY <1>20, SMTT(30) DEF RemoveRoot
  <2>2. ReceiptRead'
    BY <1>20, SMTT(30) DEF RemoveRoot
  <2>3. TaskRun'
    BY <1>20, SMTT(30) DEF RemoveRoot
  <2> QED
    BY <2>1, <2>2, <2>3
<1>21. CASE RemoveStaging
  <2>1. Recorded'
    BY <1>21, SMTT(30) DEF RemoveStaging
  <2>2. ReceiptRead'
    BY <1>21, SMTT(30) DEF RemoveStaging
  <2>3. TaskRun'
    BY <1>21, SMTT(30) DEF RemoveStaging
  <2> QED
    BY <2>1, <2>2, <2>3
<1>22. CASE ReleaseLock
  <2>1. Recorded'
    BY <1>22, SMTT(30) DEF ReleaseLock
  <2>2. ReceiptRead'
    BY <1>22, SMTT(30) DEF ReleaseLock
  <2>3. TaskRun'
    BY <1>22, SMTT(30) DEF ReleaseLock
  <2> QED
    BY <2>1, <2>2, <2>3
<1>23. CASE CloseReceipt
  <2>0. /\ UNCHANGED <<lock, dir, task, broker, issued>> /\ cmd.pc = "close"
        /\ cmd'.pc = "unpend" /\ cmd'.claim = cmd.claim
        /\ \A q \in Runs : q # RunOf[cmd.claim] => receipt'[q] = receipt[q]
        /\ receipt'[RunOf[cmd.claim]].claim = cmd.claim
        /\ receipt'[RunOf[cmd.claim]].session = cmd.session
        /\ receipt'[RunOf[cmd.claim]].cleanup = "known"
        /\ receipt'[RunOf[cmd.claim]].state \in Terminal
    BY <1>23 DEF CloseReceipt, Terminalized, Terminal
  <2>4. lock.claim \in Claims => RunOf[lock.claim] # RunOf[cmd.claim]
    BY <2>0
  <2>1. Recorded'
    <3>1. RunOf[cmd.claim] \in Runs /\ Terminal \cap Early = {}
      BY <2>0 DEF Terminal
    <3>2. broker[RunOf[cmd.claim]] = NoSession
      BY <2>4, <3>1
    <3>3. lock'.claim \in Claims /\ lock'.session # NoSession =>
            receipt'[RunOf[lock'.claim]].state \notin Early
      BY <2>0, <2>4
    <3>4. ASSUME NEW q \in Runs
          PROVE /\ receipt'[q].state \in Early => receipt'[q].session = NoSession
                /\ receipt'[q].cleanup = "known" => receipt'[q].state \in Terminal
                /\ receipt'[q].state \notin Early /\ receipt'[q].cleanup = "none" =>
                     dir'[q].root = "published"
                /\ broker'[q] # NoSession =>
                     receipt'[q].state \notin Early /\ receipt'[q].cleanup = "none"
      <4>1. CASE q = RunOf[cmd.claim]
        BY <2>0, <3>1, <3>2, <4>1
      <4>2. CASE q # RunOf[cmd.claim]
        BY <2>0, <4>2
      <4> QED
        BY <4>1, <4>2
    <3> QED
      BY <3>3, <3>4
  <2>2. ReceiptRead'
    BY <2>0
  <2>3. TaskRun'
    <3>1. task.pc \in RunPcs => task.claim \in Claims
      OBVIOUS
    <3>2. CASE task.pc \in RunPcs /\ RunOf[task.claim] = RunOf[cmd.claim]
      BY <2>0, <2>4, <3>1, <3>2
    <3>3. CASE ~ (task.pc \in RunPcs /\ RunOf[task.claim] = RunOf[cmd.claim])
      BY <2>0, <2>4, <3>3
    <3> QED
      BY <3>2, <3>3
  <2> QED
    BY <2>1, <2>2, <2>3
<1>24. CASE RemovePending
  <2>1. Recorded'
    BY <1>24, SMTT(30) DEF RemovePending
  <2>2. ReceiptRead'
    BY <1>24, SMTT(30) DEF RemovePending
  <2>3. TaskRun'
    BY <1>24, SMTT(30) DEF RemovePending
  <2> QED
    BY <2>1, <2>2, <2>3
<1>25. CASE Abandon
  <2>1. Recorded'
    BY <1>25, SMTT(30) DEF Abandon
  <2>2. ReceiptRead'
    BY <1>25, SMTT(30) DEF Abandon
  <2>3. TaskRun'
    BY <1>25, SMTT(30) DEF Abandon
  <2> QED
    BY <2>1, <2>2, <2>3
<1> QED
  BY <1>1, <1>2, <1>3, <1>4, <1>5, <1>6, <1>7, <1>8, <1>9, <1>10, <1>11, <1>12, <1>13, <1>14,
     <1>15, <1>16, <1>17, <1>18, <1>19, <1>20, <1>21, <1>22, <1>23, <1>24, <1>25, Zenon
  DEF CommandStep

\* What a settle has read of its receipt.
LEMMA SettleBeginReads ==
  ASSUME Typed, Safe, Recorded, NEW c \in Claims, SettleBegin(c)
  PROVE \E pc \in {"republish", "stop", "adoptlock", "probe"},
           st \in States, s \in Sessions \cup {NoSession} :
    LET r == receipt[RunOf[c]] IN
    /\ Begin(c, pc, st, s) /\ lock.claim = c /\ OperationFree /\ ReadOnly
    /\ r.state \in {"none", st} /\ r.session \in {NoSession, s}
    /\ pc = "republish" => r.state \notin Early
    /\ pc = "adoptlock" => r.session = NoSession /\ r.state \notin Early /\ r.cleanup = "none"
    /\ pc = "stop" => lock.session = s
    /\ pc = "stop" /\ s = NoSession => r.state # "starting"
<1> DEFINE q == Status(RunOf[c])
           r == receipt[RunOf[c]]
<1>1. /\ q.claim = c /\ lock.claim = c /\ OperationFree /\ ReadOnly
  BY DEF SettleBegin, SettleAuthority
<1>2. RunOf[c] \in Runs
  BY RunOfClaim
<1>3. /\ r.state \in {"none", q.state}
      /\ r.state = "none" => r.session = NoSession
      /\ r.state # "none" => q = r
      /\ StoredSession(c) \in {r.session, lock.session}
      /\ r.session \in {NoSession, StoredSession(c)}
  BY <1>1, <1>2 DEF Status, ReceiptOf, StoredSession, Safe, Receipts
<1>4. /\ q.state \in States
      /\ StoredSession(c) \in Sessions \cup {NoSession}
      /\ Recovered(RunOf[c]) \in Sessions \cup {NoSession}
  BY StoredTyped DEF Typed
<1>5. Recovered(RunOf[c]) # NoSession => r.state \notin Early /\ r.cleanup = "none"
  BY <1>2 DEF Recovered, Recorded
<1>6. r.session # NoSession => r.state \notin Early
  BY <1>2 DEF Recorded
<1>7. r.state = "starting" => q.state = "starting"
  BY DEF Status
<1> HIDE DEF q, r
<1> QED
  BY <1>1, <1>3, <1>4, <1>5, <1>6, <1>7 DEF SettleBegin, q, r

\* The next state of a Run whose task has kept its authority.
LEMMA AdvanceEffect ==
  ASSUME Typed, Safe, Forward, TaskAdvance
  PROVE LET r == receipt[RunOf[task.claim]]
            n == Phase(task.claim, task.pc)
        IN
        /\ task.claim \in Claims /\ task.pc \in RunPcs /\ cmd.pc = "idle"
        /\ lock.claim = task.claim /\ r.cleanup # "known" /\ r.state = Reached(task.pc)
        /\ n.next \in RunPcs => n.state = Reached(n.next)
        /\ n.state \in {"calling", "interacting", "collecting", "complete"}
        /\ n.next \in {"completed"} \cup RunPcs
        /\ \A q \in Runs :
             /\ receipt'[q].claim = receipt[q].claim /\ receipt'[q].session = receipt[q].session
             /\ receipt'[q].cleanup = receipt[q].cleanup
             /\ q # RunOf[task.claim] => receipt'[q] = receipt[q]
             /\ q = RunOf[task.claim] => receipt'[q].state = n.state
        /\ task'.pc = n.next /\ task'.claim = task.claim /\ task'.session = task.session
        /\ UNCHANGED <<lock, dir, cmd, broker>>
<1> DEFINE n == Phase(task.claim, task.pc)
<1>1. /\ task.pc \in RunPcs /\ task.claim \in Claims /\ cmd.pc = "idle"
      /\ UNCHANGED <<lock, dir, cmd, broker>>
  BY DEF TaskAdvance, Resumed, RunPcs, Typed, Claimed, OperationFree, world
<1>2. receipt[RunOf[task.claim]].state # "none"
  BY <1>1 DEF Safe, TaskAuthority, RunPcs
<1>3. /\ lock.claim = task.claim /\ receipt[RunOf[task.claim]].cleanup # "known"
  BY <1>2 DEF TaskAdvance, Active, Status, LockOf
<1>4. receipt[RunOf[task.claim]].state = Reached(task.pc)
  BY <1>1, <1>3 DEF Forward, TaskRun
<1>5. /\ n.state \in {"calling", "interacting", "collecting", "complete"}
      /\ n.next \in {"completed"} \cup RunPcs
      /\ n.next \in RunPcs => n.state = Reached(n.next)
  BY <1>1 DEF Phase, RunPcs, Reached
<1>6. /\ task' = [task EXCEPT !.pc = n.next]
      /\ receipt' = [receipt EXCEPT ![RunOf[task.claim]].state = n.state]
  BY DEF TaskAdvance, TaskGoto
<1>7. receipt \in [Runs -> Receipt] /\ task \in Task
  BY DEF Typed, TypeOK
<1> HIDE DEF n
<1>8. task'.pc = n.next /\ task'.claim = task.claim /\ task'.session = task.session
  BY <1>6, <1>7 DEF Task
<1>9. \A q \in Runs :
        /\ receipt'[q].claim = receipt[q].claim /\ receipt'[q].session = receipt[q].session
        /\ receipt'[q].cleanup = receipt[q].cleanup
        /\ q # RunOf[task.claim] => receipt'[q] = receipt[q]
        /\ q = RunOf[task.claim] => receipt'[q].state = n.state
  BY <1>6, <1>7 DEF Receipt
<1> QED
  BY <1>1, <1>3, <1>4, <1>5, <1>8, <1>9 DEF n

\* A Run that has been started fails; its task ends.
LEMMA ForwardFail ==
  ASSUME Typed, Safe, Forward, NEW st \in {"failed", "timedout"},
         task.claim \in Claims, cmd.pc = "idle", FailReceipt(task.claim, st),
         receipt[RunOf[task.claim]].state \notin Early, task' = IdleTask,
         UNCHANGED <<lock, dir, cmd, broker>>
  PROVE Forward'
<1>1. \A q \in Runs :
        /\ receipt'[q].claim = receipt[q].claim /\ receipt'[q].session = receipt[q].session
        /\ receipt'[q].cleanup = receipt[q].cleanup
        /\ receipt'[q].state = IF q = RunOf[task.claim] THEN st ELSE receipt[q].state
  BY FailEffect DEF Typed
<1>2. st \in Terminal /\ st \notin Early
  BY DEF Terminal, Early
<1>3. Recorded'
  BY <1>1, <1>2, RunOfClaim DEF Forward, Recorded
<1>4. ReceiptRead'
  BY DEF ReceiptRead, Settling, Stopping, Removing
<1>5. TaskRun'
  BY DEF TaskRun, IdleTask, HoldPcs, LaunchPcs, RunPcs
<1> QED
  BY <1>3, <1>4, <1>5 DEF Forward

\* The task gives its Run up as failed only after the Run was started.
LEMMA Fails ==
  ASSUME Typed, Safe, Forward,
         TaskRefuse \/ TaskFail \/ (TaskReconcile /\ receipt' # receipt)
           \/ (RollbackWrite /\ task.pc = "rolled")
  PROVE \E st \in {"failed", "timedout"} :
          /\ task.claim \in Claims /\ cmd.pc = "idle" /\ FailReceipt(task.claim, st)
          /\ receipt[RunOf[task.claim]].state \notin Early
          /\ receipt[RunOf[task.claim]].cleanup # "known"
          /\ task' = IdleTask /\ UNCHANGED <<lock, dir, cmd, broker>>
<1>1. task.claim \in Claims
  BY DEF TaskRefuse, TaskFail, TaskReconcile, RollbackWrite, Resumed, RunPcs, Typed, Claimed
<1> DEFINE r == receipt[RunOf[task.claim]]
<1>2. CASE TaskRefuse
  <2>1. r.state \notin Early /\ r.cleanup # "known"
    BY <1>1, <1>2 DEF TaskRefuse, ExactlyStarting, InterruptedUI, Status, ReceiptOf, LockOf,
                      Early, Safe, Receipts
  <2> QED
    BY <1>1, <1>2, <2>1 DEF TaskRefuse, OperationFree, world
<1>3. CASE TaskFail
  <2>1. task.pc \in RunPcs /\ r.state # "none"
    BY <1>3 DEF TaskFail, Resumed, Safe, TaskAuthority, RunPcs
  <2>2. lock.claim = task.claim /\ r.cleanup # "known"
    BY <1>3, <2>1 DEF TaskFail, Active, Status, LockOf
  <2>3. r.state \notin Early
    BY <2>1, <2>2 DEF Forward, TaskRun, Reached, Early
  <2> QED
    BY <1>1, <1>3, <2>2, <2>3 DEF TaskFail, Resumed, OperationFree, world
<1>4. CASE TaskReconcile /\ receipt' # receipt
  <2>1. task.pc = "returned" /\ Active(task.claim, NoSession)
    BY <1>4 DEF TaskReconcile
  <2>2. lock = LockOf(task.claim, NoSession)
    BY <2>1 DEF Active
  <2>3. r.state = "starting" /\ r.cleanup = "none"
    BY <2>1, <2>2 DEF Forward, TaskRun, LaunchPcs, HoldPcs
  <2> QED
    BY <1>1, <1>4, <2>3 DEF TaskReconcile, OperationFree, Early
<1>5. CASE RollbackWrite /\ task.pc = "rolled"
  <2>1. r.state = "starting" /\ r.cleanup = "none" /\ cmd.pc = "idle"
    BY <1>5 DEF Forward, TaskRun, HoldPcs, Safe, OneHolder
  <2> QED
    BY <1>1, <1>5, <2>1 DEF RollbackWrite, Early, world
<1> QED
  BY <1>2, <1>3, <1>4, <1>5

LEMMA ForwardArrival ==
  ASSUME Orderly, Typed, Safe, Forward, Typed', Safe', NEW c \in Claims, Arrival(c)
  PROVE Forward'
<1> USE RunOfClaim, NullsAssumption
    DEF Typed, TypeOK, Claimed, Safe, OneHolder, CommandAuthority, CommandReceipt, CommandDir,
        StartingRun, Receipts, Authentic, Owns, BrokerOwned, TaskAuthority, Forward, Recorded,
        ReceiptRead, TaskRun, Early, UnderLock, Unbound, Settling, Stopping, Removing, HoldPcs,
        LaunchPcs, RunPcs, LockRecord, Receipt, Dir, Command, Task, LockOf, NoLock, ReceiptOf,
        IdleCmd, IdleTask, Begin, Goto, Exit, ReadOnly, durable, world, OperationFree,
        LaunchHeld, Orderly
<1>1. CASE AcquireBegin(c)
  <2>1. Recorded'
    BY <1>1, SMTT(30) DEF AcquireBegin
  <2>2. ReceiptRead'
    BY <1>1, SMTT(30) DEF AcquireBegin
  <2>3. TaskRun'
    BY <1>1, SMTT(30) DEF AcquireBegin
  <2> QED
    BY <2>1, <2>2, <2>3
<1>2. CASE StageBegin(c)
  <2>1. Recorded'
    BY <1>2, SMTT(30) DEF StageBegin
  <2>2. ReceiptRead'
    BY <1>2, SMTT(30) DEF StageBegin
  <2>3. TaskRun'
    BY <1>2, SMTT(30) DEF StageBegin
  <2> QED
    BY <2>1, <2>2, <2>3
<1>3. CASE StartBegin(c)
  <2>1. Recorded'
    BY <1>3, SMTT(30) DEF StartBegin, StartAdmitted, FirstStart, Status
  <2>2. ReceiptRead'
    BY <1>3, SMTT(30) DEF StartBegin, StartAdmitted, FirstStart, Status
  <2>3. TaskRun'
    BY <1>3, SMTT(30) DEF StartBegin, StartAdmitted, FirstStart, Status
  <2> QED
    BY <2>1, <2>2, <2>3
<1>4. CASE StartReplay(c)
  <2>1. Recorded'
    BY <1>4, SMTT(30) DEF StartReplay, StartAdmitted, FirstStart, Launch, Status
  <2>2. ReceiptRead'
    BY <1>4, SMTT(30) DEF StartReplay, StartAdmitted, FirstStart, Launch, Status
  <2>3. TaskRun'
    BY <1>4, SMTT(30) DEF StartReplay, StartAdmitted, FirstStart, Launch, Status
  <2> QED
    BY <2>1, <2>2, <2>3
<1>5. CASE SettleReleased(c)
  <2>1. Recorded'
    BY <1>5, SMTT(30) DEF SettleReleased, Released, Status
  <2>2. ReceiptRead'
    BY <1>5, SMTT(30) DEF SettleReleased, Released, Status
  <2>3. TaskRun'
    BY <1>5, SMTT(30) DEF SettleReleased, Released, Status
  <2> QED
    BY <2>1, <2>2, <2>3
<1>6. CASE SettleBegin(c)
  <2>0. PICK pc \in {"republish", "stop", "adoptlock", "probe"},
             st \in States, s \in Sessions \cup {NoSession} :
          LET r == receipt[RunOf[c]] IN
          /\ Begin(c, pc, st, s) /\ lock.claim = c /\ OperationFree /\ ReadOnly
          /\ r.state \in {"none", st} /\ r.session \in {NoSession, s}
          /\ pc = "republish" => r.state \notin Early
          /\ pc = "adoptlock" =>
               r.session = NoSession /\ r.state \notin Early /\ r.cleanup = "none"
          /\ pc = "stop" => lock.session = s
          /\ pc = "stop" /\ s = NoSession => r.state # "starting"
    BY <1>6, SettleBeginReads
  <2>1. Recorded'
    BY <2>0
  <2>2. ReceiptRead'
    BY <2>0
  <2>3. TaskRun'
    BY <2>0
  <2> QED
    BY <2>1, <2>2, <2>3
<1> QED
  BY <1>1, <1>2, <1>3, <1>4, <1>5, <1>6 DEF Arrival

LEMMA ForwardTask ==
  ASSUME NoRace, Orderly, Typed, Safe, Forward, Typed', Safe', TaskStep \/ TaskCrash
  PROVE Forward'
<1>14. CASE \/ TaskRefuse \/ TaskFail \/ (TaskReconcile /\ receipt' # receipt)
            \/ (RollbackWrite /\ task.pc = "rolled")
  BY <1>14, Fails, ForwardFail
<1>20. ASSUME TaskAdvance
       PROVE \E st \in {"calling", "interacting", "collecting", "complete"},
                pc \in {"completed"} \cup RunPcs :
          /\ task.claim \in Claims /\ cmd.pc = "idle" /\ task.pc \in RunPcs
          /\ receipt[RunOf[task.claim]].state = Reached(task.pc)
          /\ receipt[RunOf[task.claim]].cleanup # "known"
          /\ pc \in RunPcs => st = Reached(pc)
          /\ \A q \in Runs :
               /\ receipt'[q].claim = receipt[q].claim
               /\ receipt'[q].session = receipt[q].session
               /\ receipt'[q].cleanup = receipt[q].cleanup
               /\ q # RunOf[task.claim] => receipt'[q] = receipt[q]
               /\ q = RunOf[task.claim] => receipt'[q].state = st
          /\ task'.pc = pc /\ task'.claim = task.claim /\ task'.session = task.session
          /\ UNCHANGED <<lock, dir, cmd, broker>>
  <2> DEFINE n == Phase(task.claim, task.pc)
  <2>1. /\ task.claim \in Claims /\ cmd.pc = "idle" /\ task.pc \in RunPcs
        /\ receipt[RunOf[task.claim]].state = Reached(task.pc)
        /\ receipt[RunOf[task.claim]].cleanup # "known"
        /\ n.next \in RunPcs => n.state = Reached(n.next)
        /\ n.state \in {"calling", "interacting", "collecting", "complete"}
        /\ n.next \in {"completed"} \cup RunPcs
        /\ \A q \in Runs :
             /\ receipt'[q].claim = receipt[q].claim
             /\ receipt'[q].session = receipt[q].session
             /\ receipt'[q].cleanup = receipt[q].cleanup
             /\ q # RunOf[task.claim] => receipt'[q] = receipt[q]
             /\ q = RunOf[task.claim] => receipt'[q].state = n.state
        /\ task'.pc = n.next /\ task'.claim = task.claim /\ task'.session = task.session
        /\ UNCHANGED <<lock, dir, cmd, broker>>
    BY <1>20, AdvanceEffect
  <2> HIDE DEF n
  <2> QED
    BY <2>1
<1>21. task.pc \in HoldPcs \ {"completed"} =>
         /\ task.claim \in Claims /\ RunOf[task.claim] \in Runs /\ lock.claim = task.claim
         /\ task.session # NoSession
         /\ receipt[RunOf[task.claim]].state = "starting"
         /\ receipt[RunOf[task.claim]].cleanup = "none"
         /\ dir[RunOf[task.claim]].root = "published"
  <2>1. task.pc \in HoldPcs => task.claim \in Claims /\ RunOf[task.claim] \in Runs
    BY RunOfClaim DEF HoldPcs, Typed, Claimed
  <2>2. task.pc \in HoldPcs \ {"completed"} =>
         /\ lock.claim = task.claim /\ task.session # NoSession
         /\ receipt[RunOf[task.claim]].state = "starting"
         /\ receipt[RunOf[task.claim]].cleanup = "none"
    BY DEF Forward, TaskRun, Safe, TaskAuthority
  <2> QED
    BY <2>1, <2>2 DEF Forward, Recorded, Early
<1>23. task.pc \in RunPcs =>
         /\ task.session # NoSession
         /\ receipt[RunOf[task.claim]].claim = task.claim
         /\ receipt[RunOf[task.claim]].session = task.session
         /\ lock.claim = task.claim => lock.session = task.session
  BY DEF Forward, TaskRun
<1>24. \A q \in Runs :
         /\ receipt[q].state \in Early => receipt[q].session = NoSession
         /\ receipt[q].cleanup = "known" => receipt[q].state \in Terminal
         /\ receipt[q].state \notin Early /\ receipt[q].cleanup = "none" =>
              dir[q].root = "published"
         /\ broker[q] # NoSession =>
              receipt[q].state \notin Early /\ receipt[q].cleanup = "none"
  BY DEF Forward, Recorded
<1>26. task.pc = "bound" => lock.session = task.session
  BY DEF Forward, TaskRun, Safe, TaskAuthority, HoldPcs
<1>22. ASSUME TaskReconcile, task' # IdleTask
       PROVE /\ lock = LockOf(task.claim, NoSession) /\ task.pc = "returned"
             /\ task'.pc = "bind" /\ task'.claim = task.claim /\ task'.session # NoSession
  <2>1. PICK s : s # NoSession /\ task' = [task EXCEPT !.pc = "bind", !.session = s]
    BY <1>22 DEF TaskReconcile
  <2>2. task'.pc = "bind" /\ task'.claim = task.claim /\ task'.session = s
    BY <2>1 DEF Typed, TypeOK, Task
  <2> QED
    BY <1>22, <2>1, <2>2 DEF TaskReconcile, Active
<1> USE RunOfClaim, NullsAssumption
    DEF Typed, TypeOK, Claimed, Safe, OneHolder, CommandAuthority, CommandReceipt, CommandDir,
        StartingRun, Receipts, Authentic, Owns, BrokerOwned, TaskAuthority, Forward, Recorded,
        ReceiptRead, TaskRun, Early, UnderLock, Unbound, Settling, Stopping, Removing, HoldPcs,
        LaunchPcs, RunPcs, LockRecord, Receipt, Dir, Command, Task, LockOf, NoLock, ReceiptOf,
        IdleCmd, IdleTask, Begin, Goto, Exit, ReadOnly, durable, world, OperationFree,
        LaunchHeld, Orderly
<1>1. CASE TaskStart
  <2>1. Recorded'
    BY <1>1, SMTT(30) DEF TaskStart
  <2>2. ReceiptRead'
    BY <1>1, SMTT(30) DEF TaskStart
  <2>3. TaskRun'
    BY <1>1, SMTT(30) DEF TaskStart
  <2> QED
    BY <2>1, <2>2, <2>3
<1>2. CASE TaskAdmit
  <2>1. Recorded'
    BY <1>2, SMTT(30) DEF TaskAdmit, ExactlyStarting, Status
  <2>2. ReceiptRead'
    BY <1>2, SMTT(30) DEF TaskAdmit, ExactlyStarting, Status
  <2>3. TaskRun'
    BY <1>2, SMTT(30) DEF TaskAdmit, ExactlyStarting, Status
  <2> QED
    BY <2>1, <2>2, <2>3
<1>3. CASE TaskReject
  <2>1. Recorded'
    BY <1>3, SMTT(30) DEF TaskReject
  <2>2. ReceiptRead'
    BY <1>3, SMTT(30) DEF TaskReject
  <2>3. TaskRun'
    BY <1>3, SMTT(30) DEF TaskReject
  <2> QED
    BY <2>1, <2>2, <2>3
<1>4. CASE DaemonReturn
  <2>0. /\ task.pc \in {"launching", "recorded"} /\ task'.pc = "returned"
        /\ task'.claim = task.claim /\ UNCHANGED <<durable, cmd, trigger, world>>
    BY <1>4, DaemonReturnEffect
  <2>1. Recorded'
    BY <2>0
  <2>2. ReceiptRead'
    BY <2>0
  <2>3. TaskRun'
    BY <2>0
  <2> QED
    BY <2>1, <2>2, <2>3
<1>5. CASE BindLock
  <2>1. Recorded'
    BY <1>5, SMTT(30) DEF BindLock, TaskGoto
  <2>2. ReceiptRead'
    BY <1>5, SMTT(30) DEF BindLock, TaskGoto
  <2>3. TaskRun'
    BY <1>5, SMTT(30) DEF BindLock, TaskGoto
  <2> QED
    BY <2>1, <2>2, <2>3
<1>6. CASE RollbackStop
  <2>1. Recorded'
    BY <1>6, SMTT(30) DEF RollbackStop, TaskGoto
  <2>2. ReceiptRead'
    BY <1>6, SMTT(30) DEF RollbackStop, TaskGoto
  <2>3. TaskRun'
    BY <1>6, SMTT(30) DEF RollbackStop, TaskGoto
  <2> QED
    BY <2>1, <2>2, <2>3
<1>7. CASE TaskSuperseded
  <2>1. Recorded'
    BY <1>7, SMTT(30) DEF TaskSuperseded
  <2>2. ReceiptRead'
    BY <1>7, SMTT(30) DEF TaskSuperseded
  <2>3. TaskRun'
    BY <1>7, SMTT(30) DEF TaskSuperseded
  <2> QED
    BY <2>1, <2>2, <2>3
<1>8. CASE TaskFinish
  <2>1. Recorded'
    BY <1>8, SMTT(30) DEF TaskFinish
  <2>2. ReceiptRead'
    BY <1>8, SMTT(30) DEF TaskFinish
  <2>3. TaskRun'
    BY <1>8, SMTT(30) DEF TaskFinish
  <2> QED
    BY <2>1, <2>2, <2>3
<1>9. CASE TaskCrash
  <2>1. Recorded'
    BY <1>9, SMTT(30) DEF TaskCrash
  <2>2. ReceiptRead'
    BY <1>9, SMTT(30) DEF TaskCrash
  <2>3. TaskRun'
    BY <1>9, SMTT(30) DEF TaskCrash
  <2> QED
    BY <2>1, <2>2, <2>3
<1>10. CASE BoundWrite
  <2>0. /\ task.pc = "bound" /\ cmd.pc = "idle"
        /\ UNCHANGED <<lock, dir, cmd, broker, issued>>
    BY <1>10 DEF BoundWrite
  <2>4. PICK st \in {"running", "failed", "cleanupfailed"} :
          /\ \A q \in Runs :
               /\ q # RunOf[task.claim] => receipt'[q] = receipt[q]
               /\ q = RunOf[task.claim] =>
                    /\ receipt'[q].claim = task.claim /\ receipt'[q].session = task.session
                    /\ receipt'[q].cleanup = "none" /\ receipt'[q].state = st
          /\ \/ task' = IdleTask
             \/ /\ st = "running" /\ task'.pc = "ready"
                /\ task'.claim = task.claim /\ task'.session = task.session
    BY <1>10, TaskGotoTyped DEF BoundWrite, TaskGoto
  <2>1. Recorded'
    BY <2>0, <2>4 DEF Terminal
  <2>2. ReceiptRead'
    BY <2>0
  <2>3. TaskRun'
    <3>1. CASE task' = IdleTask
      BY <3>1
    <3>2. CASE task' # IdleTask
      <4>1. /\ task.claim \in Claims /\ RunOf[task.claim] \in Runs
            /\ task.session # NoSession /\ lock.claim = task.claim
        BY <1>21, <2>0
      <4>2. lock'.session = task.session
        BY <1>26, <2>0
      <4>3. receipt'[RunOf[task.claim]].state = Reached("ready")
        BY <2>4, <3>2, <4>1 DEF Reached
      <4> HIDE DEF Forward, Recorded, ReceiptRead, Safe, CommandAuthority, CommandReceipt,
                   CommandDir, StartingRun, Receipts, Authentic, BrokerOwned
      <4> QED
        BY <2>0, <2>4, <3>2, <4>1, <4>2, <4>3
    <3> QED
      BY <3>1, <3>2
  <2> QED
    BY <2>1, <2>2, <2>3
<1>11. CASE TaskAdvance
  <2>0. PICK st \in {"calling", "interacting", "collecting", "complete"},
             pc \in {"completed"} \cup RunPcs :
          /\ task.claim \in Claims /\ cmd.pc = "idle" /\ task.pc \in RunPcs
          /\ receipt[RunOf[task.claim]].state = Reached(task.pc)
          /\ receipt[RunOf[task.claim]].cleanup # "known"
          /\ pc \in RunPcs => st = Reached(pc)
          /\ \A q \in Runs :
               /\ receipt'[q].claim = receipt[q].claim
               /\ receipt'[q].session = receipt[q].session
               /\ receipt'[q].cleanup = receipt[q].cleanup
               /\ q # RunOf[task.claim] => receipt'[q] = receipt[q]
               /\ q = RunOf[task.claim] => receipt'[q].state = st
          /\ task'.pc = pc /\ task'.claim = task.claim /\ task'.session = task.session
          /\ UNCHANGED <<lock, dir, cmd, broker>>
    BY <1>11, <1>20
  <2>4. Reached(task.pc) \notin Early
    BY <2>0 DEF Reached
  <2>1. Recorded'
    <3>1. ASSUME NEW q \in Runs
          PROVE /\ receipt'[q].state \in Early => receipt'[q].session = NoSession
                /\ receipt'[q].cleanup = "known" => receipt'[q].state \in Terminal
                /\ receipt'[q].state \notin Early /\ receipt'[q].cleanup = "none" =>
                     dir'[q].root = "published"
                /\ broker'[q] # NoSession =>
                     receipt'[q].state \notin Early /\ receipt'[q].cleanup = "none"
      <4> HIDE DEF Typed, Forward, Recorded, ReceiptRead, TaskRun, Safe
      <4>1. CASE q = RunOf[task.claim]
        BY <1>24, <2>0, <2>4, <4>1
      <4>2. CASE q # RunOf[task.claim]
        BY <1>24, <2>0, <4>2
      <4> QED
        BY <4>1, <4>2
    <3>2. lock'.claim \in Claims /\ lock'.session # NoSession =>
            receipt'[RunOf[lock'.claim]].state \notin Early
      <4>1. lock.claim \in Claims => RunOf[lock.claim] \in Runs
        BY RunOfClaim
      <4>2. lock.claim \in Claims /\ lock.session # NoSession =>
              receipt[RunOf[lock.claim]].state \notin Early
        OBVIOUS
      <4> HIDE DEF Typed, Forward, Recorded, ReceiptRead, TaskRun, Safe
      <4> QED
        BY <2>0, <4>1, <4>2
    <3> QED
      BY <3>1, <3>2
  <2>2. ReceiptRead'
    BY <2>0
  <2>3. TaskRun'
    <3>1. CASE pc = "completed"
      BY <2>0, <3>1
    <3>2. CASE pc \in RunPcs
      <4>1. /\ task.session # NoSession
            /\ receipt[RunOf[task.claim]].claim = task.claim
            /\ receipt[RunOf[task.claim]].session = task.session
            /\ lock.claim = task.claim => lock.session = task.session
        BY <1>23, <2>0
      <4>2. RunOf[task.claim] \in Runs
        <5> HIDE DEF Typed, Forward, Recorded, ReceiptRead, TaskRun, Safe
        <5> QED
          BY <2>0
      <4> HIDE DEF Forward, Recorded, ReceiptRead, Safe, CommandAuthority, CommandReceipt,
                   CommandDir, StartingRun, Receipts, Authentic, BrokerOwned
      <4> QED
        BY <2>0, <3>2, <4>1, <4>2
    <3> QED
      BY <2>0, <3>1, <3>2
  <2> QED
    BY <2>1, <2>2, <2>3
<1>12. CASE RollbackWrite /\ task.pc = "stranded"
  <2>0. /\ cmd.pc = "idle" /\ task' = IdleTask
        /\ UNCHANGED <<lock, dir, cmd, broker, issued>>
    BY <1>12 DEF RollbackWrite
  <2>4. \A q \in Runs :
          /\ q # RunOf[task.claim] => receipt'[q] = receipt[q]
          /\ q = RunOf[task.claim] =>
               /\ receipt'[q].claim = task.claim /\ receipt'[q].session = task.session
               /\ receipt'[q].cleanup = "none" /\ receipt'[q].state = "cleanupfailed"
    BY <1>12 DEF RollbackWrite
  <2>1. Recorded'
    <3>1. task.pc \in HoldPcs \ {"completed"}
      BY <1>12
    <3>2. ASSUME NEW q \in Runs
          PROVE /\ receipt'[q].state \in Early => receipt'[q].session = NoSession
                /\ receipt'[q].cleanup = "known" => receipt'[q].state \in Terminal
                /\ receipt'[q].state \notin Early /\ receipt'[q].cleanup = "none" =>
                     dir'[q].root = "published"
                /\ broker'[q] # NoSession =>
                     receipt'[q].state \notin Early /\ receipt'[q].cleanup = "none"
      <4>1. CASE q = RunOf[task.claim]
        BY <1>21, <2>0, <2>4, <3>1, <4>1
      <4>2. CASE q # RunOf[task.claim]
        <5>1. receipt'[q] = receipt[q] /\ dir' = dir /\ broker' = broker
          BY <2>0, <2>4, <4>2
        <5> HIDE DEF Typed, Forward, Recorded, Safe
        <5> QED
          BY <1>24, <5>1
      <4> QED
        BY <4>1, <4>2
    <3>3. lock'.claim \in Claims => receipt'[RunOf[lock'.claim]].state \notin Early
      BY <1>21, <2>0, <2>4, <3>1
    <3> QED
      BY <3>2, <3>3
  <2>2. ReceiptRead'
    BY <2>0
  <2>3. TaskRun'
    BY <2>0
  <2> QED
    BY <2>1, <2>2, <2>3
<1>13. CASE TaskReconcile /\ receipt' = receipt
  <2>0. /\ task.pc = "returned" /\ cmd.pc = "idle"
        /\ UNCHANGED <<lock, dir, cmd, broker, issued>>
    BY <1>13 DEF TaskReconcile
  <2>1. Recorded' /\ ReceiptRead'
    BY <1>13, <2>0
  <2>2. CASE task' = IdleTask
    BY <1>13, <2>0, <2>2
  <2>3. CASE task' # IdleTask
    <3>1. /\ lock = LockOf(task.claim, NoSession)
          /\ task'.pc = "bind" /\ task'.claim = task.claim /\ task'.session # NoSession
      BY <1>13, <1>22, <2>3
    <3>2. TaskRun'
      BY <1>13, <2>0, <3>1
    <3> QED
      BY <2>1, <3>2
  <2> QED
    BY <2>2, <2>3
<1>16. ASSUME NEW s \in Sessions, DaemonRecord(s) PROVE Forward'
  <2>1. Recorded'
    BY <1>16, SMTT(30) DEF DaemonRecord, NoRace
  <2>2. ReceiptRead'
    BY <1>16, SMTT(30) DEF DaemonRecord, NoRace
  <2>3. TaskRun'
    BY <1>16, SMTT(30) DEF DaemonRecord, NoRace
  <2> QED
    BY <2>1, <2>2, <2>3
<1> QED
  BY <1>1, <1>2, <1>3, <1>4, <1>5, <1>6, <1>7, <1>8, <1>9, <1>10, <1>11, <1>12, <1>13, <1>14,
     <1>16, Zenon
  DEF TaskStep, RollbackWrite

LEMMA ForwardElse ==
  ASSUME Typed, Forward, (\E c \in Claims : Expire(c)) \/ PublishSetupClaim \/ ClearSetupClaim
                          \/ UNCHANGED vars
  PROVE Forward'
BY DEF Forward, Recorded, ReceiptRead, TaskRun, Expire, PublishSetupClaim, ClearSetupClaim,
       vars, durable, world

LEMMA ForwardInit == Init => Forward
BY ClaimsAssumption, NullsAssumption
DEF Init, Forward, Recorded, ReceiptRead, TaskRun, Early, NoLock, LockOf, NoReceipt, ReceiptOf,
    IdleCmd, IdleTask, Settling, Stopping, Removing, HoldPcs, LaunchPcs, RunPcs

LEMMA ForwardStep ==
  ASSUME NoRace, Orderly, Typed, Safe, Forward, [Next]_vars
  PROVE Forward'
<1>1. Typed' /\ Safe'
  BY TypedStep, SafeStep
<1> QED
  BY <1>1, ForwardArrival, ForwardCommand, ForwardTask, ForwardElse DEF Next

-----------------------------------------------------------------------------
(* Receipts only go forward: the steps *)

\* The order of the states.
LEMMA RankOrder ==
  ASSUME NEW a \in States, NEW b \in States,
         \/ a = b \/ a = "none" \/ b \in Terminal
         \/ a \in Early /\ b = "staged"
         \/ a \in Early /\ b = "starting"
         \/ a = "starting" /\ b = "running"
  PROVE Rank(a) <= Rank(b)
BY DEF Rank, States, Terminal, Early

\* What a step may make of one receipt.
Progressed(r) ==
  /\ Rank(receipt[r].state) <= Rank(receipt'[r].state)
  /\ receipt[r].claim # NoClaim => receipt'[r].claim = receipt[r].claim
  /\ receipt[r].session # NoSession => receipt'[r].session = receipt[r].session
  /\ receipt[r].cleanup = "known" => receipt'[r] = receipt[r]

LEMMA Unwritten ==
  ASSUME Typed, NEW r \in Runs, receipt'[r] = receipt[r]
  PROVE Progressed(r)
<1>1. receipt[r].state \in States
  BY DEF Typed, TypeOK, Receipt
<1>2. Rank(receipt[r].state) <= Rank(receipt[r].state)
  BY <1>1, RankOrder
<1> QED
  BY <1>2 DEF Progressed

LEMMA Written ==
  ASSUME Typed, NEW r \in Runs, NEW x, receipt' = [receipt EXCEPT ![r] = x], Progressed(r)
  PROVE \A q \in Runs : Progressed(q)
<1>1. ASSUME NEW q \in Runs, q # r PROVE receipt'[q] = receipt[q]
  BY <1>1 DEF Typed, TypeOK
<1> QED
  BY <1>1, Unwritten

\* The receipt that a command finds under its lock.
LEMMA FoundReceipt ==
  ASSUME Typed, Safe, cmd.pc \in UnderLock
  PROVE LET r == receipt[RunOf[cmd.claim]] IN
        /\ cmd.claim \in Claims /\ RunOf[cmd.claim] \in Runs
        /\ r.claim \in {NoClaim, cmd.claim} /\ r.cleanup # "known"
        /\ r.state \in States
<1>1. cmd.claim \in Claims /\ lock.claim = cmd.claim
  BY DEF Typed, Claimed, Safe, CommandAuthority, UnderLock, Unbound, Settling, Stopping, Removing
<1>2. RunOf[cmd.claim] \in Runs
  BY <1>1, RunOfClaim
<1>3. receipt[RunOf[cmd.claim]].state \in States
  BY <1>2 DEF Typed, TypeOK, Receipt
<1> QED
  BY <1>1, <1>2, <1>3 DEF Safe, Receipts

\* The receipts that commands write.
LEMMA CommandProgress ==
  ASSUME Orderly, Typed, Safe, Forward, CommandStep \/ Abandon
  PROVE \A q \in Runs : Progressed(q)
<1> DEFINE r == RunOf[cmd.claim]
<1>1. CASE AcceptWrite
  <2>1. cmd.pc = "accept" /\ cmd.pc \in UnderLock /\ receipt[r].state = "none"
    BY <1>1 DEF AcceptWrite, UnderLock, Unbound, Safe, CommandReceipt
  <2>2. r \in Runs
    BY <2>1, FoundReceipt
  <2>3. receipt' = [receipt EXCEPT ![r] = ReceiptOf(cmd.claim, "accepted", NoSession, "none")]
    BY <1>1 DEF AcceptWrite
  <2>4. receipt[r].claim = NoClaim /\ receipt[r].session = NoSession
        /\ receipt[r].cleanup = "none"
    BY <2>1, <2>2 DEF Safe, Receipts
  <2>5. receipt'[r].state = "accepted"
    BY <2>2, <2>3 DEF ReceiptOf, Typed, TypeOK
  <2>6. Progressed(r)
    BY <2>1, <2>4, <2>5, RankOrder DEF Progressed, States
  <2> QED
    BY <2>2, <2>3, <2>6, Written
<1>2. CASE StagedWrite
  <2>1. cmd.pc = "staged" /\ cmd.pc \in UnderLock /\ receipt[r].state \in Early
    BY <1>2 DEF StagedWrite, UnderLock, Unbound, Forward, ReceiptRead
  <2>2. r \in Runs /\ receipt[r].claim \in {NoClaim, cmd.claim}
        /\ receipt[r].cleanup # "known" /\ receipt[r].state \in States
    BY <2>1, FoundReceipt
  <2>3. receipt' = [receipt EXCEPT ![r] = ReceiptOf(cmd.claim, "staged", NoSession, "none")]
    BY <1>2 DEF StagedWrite
  <2>4. receipt[r].session = NoSession
    BY <2>1, <2>2 DEF Forward, Recorded
  <2>5. receipt'[r].state = "staged" /\ receipt'[r].claim = cmd.claim
    BY <2>2, <2>3 DEF ReceiptOf, Typed, TypeOK
  <2>6. Progressed(r)
    BY <2>1, <2>2, <2>4, <2>5, RankOrder DEF Progressed, States
  <2> QED
    BY <2>2, <2>3, <2>6, Written
<1>3. CASE StartingWrite
  <2>1. cmd.pc = "starting" /\ cmd.pc \in UnderLock /\ receipt[r].state \in Early
    BY <1>3 DEF StartingWrite, UnderLock, Unbound, Forward, ReceiptRead
  <2>2. r \in Runs /\ receipt[r].claim \in {NoClaim, cmd.claim}
        /\ receipt[r].cleanup # "known" /\ receipt[r].state \in States
    BY <2>1, FoundReceipt
  <2>3. receipt' = [receipt EXCEPT ![r] = ReceiptOf(cmd.claim, "starting", NoSession, "none")]
    BY <1>3 DEF StartingWrite
  <2>4. receipt[r].session = NoSession
    BY <2>1, <2>2 DEF Forward, Recorded
  <2>5. receipt'[r].state = "starting" /\ receipt'[r].claim = cmd.claim
    BY <2>2, <2>3 DEF ReceiptOf, Typed, TypeOK
  <2>6. Progressed(r)
    BY <2>1, <2>2, <2>4, <2>5, RankOrder DEF Progressed, States
  <2> QED
    BY <2>2, <2>3, <2>6, Written
<1>4. CASE StartAdopt \/ AdoptReceipt
  <2>1. cmd.pc \in UnderLock /\ receipt[r].session = NoSession
    BY <1>4 DEF StartAdopt, AdoptReceipt, UnderLock, Settling, Forward, ReceiptRead
  <2>2. r \in Runs /\ receipt[r].claim \in {NoClaim, cmd.claim}
        /\ receipt[r].cleanup # "known" /\ receipt[r].state \in States
    BY <2>1, FoundReceipt
  <2>3. PICK cl : receipt' = [receipt EXCEPT ![r] =
                                ReceiptOf(cmd.claim, "cleanupfailed", cmd.session, cl)]
    BY <1>4 DEF StartAdopt, AdoptReceipt
  <2>5. receipt'[r].state = "cleanupfailed" /\ receipt'[r].claim = cmd.claim
    BY <2>2, <2>3 DEF ReceiptOf, Typed, TypeOK
  <2>6. Progressed(r)
    BY <2>1, <2>2, <2>5, RankOrder DEF Progressed, States, Terminal
  <2> QED
    BY <2>2, <2>3, <2>6, Written
<1>5. CASE StoppedWrite
  <2>1. /\ cmd.pc \in UnderLock /\ cmd.state \in States
        /\ receipt[r].state \in {"none", cmd.state}
        /\ receipt[r].session \in {NoSession, cmd.session}
    BY <1>5 DEF StoppedWrite, UnderLock, Settling, Stopping, Forward, ReceiptRead, Typed, TypeOK,
                Command
  <2>2. r \in Runs /\ receipt[r].claim \in {NoClaim, cmd.claim}
        /\ receipt[r].cleanup # "known"
    BY <2>1, FoundReceipt
  <2>3. receipt' = [receipt EXCEPT ![r] =
                      [ReceiptOf(cmd.claim, cmd.state, cmd.session, "stopped")
                         EXCEPT !.rollback = receipt[r].rollback]]
    BY <1>5 DEF StoppedWrite, Fault, Orderly
  <2>5. /\ receipt'[r].state = cmd.state /\ receipt'[r].claim = cmd.claim
        /\ receipt'[r].session = cmd.session
    BY <2>2, <2>3 DEF ReceiptOf, Typed, TypeOK
  <2>7. Rank(receipt[r].state) <= Rank(cmd.state)
    BY <2>1, RankOrder DEF States
  <2>6. Progressed(r)
    BY <2>1, <2>2, <2>5, <2>7 DEF Progressed
  <2> QED
    BY <2>2, <2>3, <2>6, Written
<1>6. CASE CloseReceipt
  <2>1. /\ cmd.claim \in Claims /\ r \in Runs /\ cmd.state \in States
        /\ receipt[r].state = cmd.state /\ receipt[r].session = cmd.session
        /\ receipt[r].claim = cmd.claim
    BY <1>6, RunOfClaim
    DEF CloseReceipt, Forward, ReceiptRead, Safe, CommandReceipt, Typed, TypeOK, Claimed, Command
  <2>3. receipt' = [receipt EXCEPT ![r] =
                      [ReceiptOf(cmd.claim, Terminalized(cmd.state), cmd.session, "known")
                         EXCEPT !.rollback = receipt[r].rollback]]
    BY <1>6 DEF CloseReceipt
  <2>4. /\ receipt[r] \in Receipt
        /\ receipt'[r] = [claim |-> cmd.claim, state |-> Terminalized(cmd.state),
                          session |-> cmd.session, cleanup |-> "known",
                          rollback |-> receipt[r].rollback]
    BY <2>1, <2>3 DEF ReceiptOf, Typed, TypeOK
  <2>5. /\ receipt'[r].state = Terminalized(cmd.state) /\ receipt'[r].claim = cmd.claim
        /\ receipt'[r].session = cmd.session
    BY <2>4
  <2>7. Rank(receipt[r].state) <= Rank(Terminalized(cmd.state))
    BY <2>1, RankOrder DEF States, Terminalized, Terminal
  <2>8. receipt[r].cleanup = "known" => receipt'[r] = receipt[r]
    <3> SUFFICES ASSUME receipt[r].cleanup = "known" PROVE receipt'[r] = receipt[r]
      OBVIOUS
    <3>1. Terminalized(cmd.state) = receipt[r].state
      BY <2>1 DEF Forward, Recorded, Terminalized
    <3>2. receipt[r] = [claim |-> receipt[r].claim, state |-> receipt[r].state,
                        session |-> receipt[r].session, cleanup |-> receipt[r].cleanup,
                        rollback |-> receipt[r].rollback]
      BY <2>4 DEF Receipt
    <3> QED
      BY <2>1, <2>4, <3>1, <3>2
  <2>6. Progressed(r)
    BY <2>1, <2>5, <2>7, <2>8 DEF Progressed
  <2> QED
    BY <2>1, <2>3, <2>6, Written
<1>7. CASE receipt' = receipt
  BY <1>7, Unwritten
<1> HIDE DEF r
<1> QED
  BY <1>1, <1>2, <1>3, <1>4, <1>5, <1>6, <1>7
  DEF CommandStep, LockCreate, LockFill, StageRename, RequestWrite, PendingWrite, TaskLaunch,
      RepublishLock, AdoptLock, PublishInLock, LaunchProbe, StopSession, StripRoot,
      RemoveRequest, RemoveOwnership, RemoveRoot, RemoveStaging, ReleaseLock, RemovePending,
      Abandon, ReadOnly, durable

\* The receipts that the task writes.
LEMMA TaskProgress ==
  ASSUME Typed, Safe, Forward, TaskStep \/ TaskCrash
  PROVE \A q \in Runs : Progressed(q)
<1> DEFINE r == RunOf[task.claim]
<1>1. CASE \/ TaskRefuse \/ TaskFail \/ (TaskReconcile /\ receipt' # receipt)
           \/ (RollbackWrite /\ task.pc = "rolled")
  <2>1. PICK st \in {"failed", "timedout"} :
          /\ task.claim \in Claims /\ FailReceipt(task.claim, st)
          /\ receipt[r].cleanup # "known"
    BY <1>1, Fails
  <2>2. \A q \in Runs :
          /\ receipt'[q].claim = receipt[q].claim /\ receipt'[q].session = receipt[q].session
          /\ receipt'[q].state = IF q = r THEN st ELSE receipt[q].state
    BY <2>1, FailEffect DEF Typed
  <2>3. r \in Runs /\ receipt[r].state \in States
    BY <2>1, RunOfClaim DEF Typed, TypeOK, Receipt
  <2>4. Rank(receipt[r].state) <= Rank(st)
    BY <2>3, RankOrder DEF States, Terminal
  <2>5. Progressed(r)
    BY <2>1, <2>2, <2>3, <2>4 DEF Progressed
  <2>6. receipt' = [receipt EXCEPT ![r] = receipt'[r]]
    BY <2>1, <2>3 DEF FailReceipt, Typed, TypeOK
  <2> QED
    BY <2>3, <2>5, <2>6, Written
<1>2. CASE BoundWrite \/ (RollbackWrite /\ task.pc = "stranded")
  <2>1. task.pc \in HoldPcs \ {"completed"}
    BY <1>2 DEF BoundWrite, HoldPcs
  <2>2. /\ r \in Runs /\ receipt[r].claim = task.claim /\ receipt[r].state = "starting"
        /\ receipt[r].cleanup = "none" /\ receipt[r].session = NoSession
    BY <2>1, RunOfClaim DEF Forward, TaskRun, Typed, Claimed, HoldPcs
  <2>3. PICK x : /\ receipt' = [receipt EXCEPT ![r] = x] /\ x.claim = task.claim
                 /\ x.state \in {"running", "failed", "cleanupfailed"}
    BY <1>2 DEF BoundWrite, RollbackWrite, ReceiptOf
  <2>4. receipt'[r].state = x.state /\ receipt'[r].claim = task.claim
    BY <2>2, <2>3 DEF Typed, TypeOK
  <2>5. Rank("starting") <= Rank(x.state)
    BY <2>3, RankOrder DEF States, Terminal
  <2>6. Progressed(r)
    BY <2>2, <2>4, <2>5 DEF Progressed
  <2> QED
    BY <2>2, <2>3, <2>6, Written
<1>3. CASE TaskAdvance
  <2> DEFINE n == Phase(task.claim, task.pc)
  <2>1. /\ task.pc \in RunPcs /\ receipt[r].cleanup # "known"
        /\ receipt[r].state = Reached(task.pc)
        /\ \A q \in Runs :
             /\ receipt'[q].claim = receipt[q].claim
             /\ receipt'[q].session = receipt[q].session
             /\ q # r => receipt'[q] = receipt[q]
             /\ q = r => receipt'[q].state = n.state
    BY <1>3, AdvanceEffect
  <2>2. Rank(Reached(task.pc)) <= Rank(n.state)
    BY <2>1 DEF RunPcs, Reached, Phase, Rank, Terminal
  <2> HIDE DEF n
  <2>3. ASSUME NEW q \in Runs, q = r PROVE Progressed(q)
    BY <2>1, <2>2, <2>3 DEF Progressed
  <2> QED
    BY <2>1, <2>3, Unwritten
<1>4. CASE receipt' = receipt
  BY <1>4, Unwritten
<1> HIDE DEF r
<1> QED
  BY <1>1, <1>2, <1>3, <1>4
  DEF TaskStep, TaskStart, TaskAdmit, TaskReject, DaemonRecord, DaemonReturn, TaskReconcile,
      BindLock, RollbackStop, RollbackWrite, TaskSuperseded, TaskFinish, TaskCrash, durable

LEMMA ProgressStep ==
  ASSUME Orderly, Typed, Safe, Forward, [Next]_vars
  PROVE \A q \in Runs : Progressed(q)
<1>1. CASE CommandStep \/ Abandon \/ TaskStep \/ TaskCrash
  BY <1>1, CommandProgress, TaskProgress
<1>2. CASE \/ \E c \in Claims : Arrival(c) \/ Expire(c)
           \/ PublishSetupClaim \/ ClearSetupClaim \/ UNCHANGED vars
  <2>1. receipt' = receipt
    BY <1>2
    DEF Arrival, AcquireBegin, StageBegin, StartBegin, StartReplay, SettleReleased, SettleBegin,
        Expire, PublishSetupClaim, ClearSetupClaim, ReadOnly, durable, vars
  <2> QED
    BY <2>1, Unwritten
<1> QED
  BY <1>1, <1>2 DEF Next

\* What the client demands of successive receipts, and more, whatever crashes, is abandoned
\* or comes late: a receipt never goes back, keeps the claim and the Session it has named,
\* and is not written again once its cleanup is known.
THEOREM ReceiptsProgress == ASSUME NoRace, Orderly PROVE Spec => ReceiptProgress
<1>1. Init => Forward
  BY ForwardInit
<1>2. Typed /\ Safe /\ Forward /\ [Next]_vars => Forward'
  BY NoRace, Orderly, ForwardStep
<1>3. Typed /\ Safe /\ Forward /\ [Next]_vars =>
        [\A r \in Runs :
           /\ Rank(receipt[r].state) <= Rank(receipt'[r].state)
           /\ receipt[r].claim # NoClaim => receipt'[r].claim = receipt[r].claim
           /\ receipt[r].session # NoSession => receipt'[r].session = receipt[r].session
           /\ receipt[r].cleanup = "known" => receipt'[r] = receipt[r]]_vars
  BY Orderly, ProgressStep DEF Progressed
<1> QED
  BY <1>1, <1>2, <1>3, NoRace, SafeInvariant, PTL DEF Spec, ReceiptProgress

=============================================================================
