------------------------------- MODULE HostRun -------------------------------
(***************************************************************************)
(* The host side of a Blender Box Run (src/internal/host/service.go): the  *)
(* Host Lock, the durable receipt of every Run, the Run root, and the      *)
(* commands and the interactive task that read and write them.             *)
(*                                                                         *)
(* A command (acquire, stage, start, settle) is one process that holds     *)
(* .operation.lock from its first read to its exit, so at most one command *)
(* is under way; its writes are separate steps, and it may die or fail     *)
(* between any two of them.  Any command may come for any claim at any     *)
(* time, any number of times: that is what lost, late and repeated SSH     *)
(* requests amount to on the host.  The task (run-request, started by      *)
(* schtasks or systemd) holds .operation.lock only while it compares and   *)
(* publishes, and .launch.lock from its admission to the publication of    *)
(* the Session identity.                                                   *)
(***************************************************************************)
EXTENDS Naturals, FiniteSets

CONSTANTS
  Claims,      \* LockClaims; a claim carries its request hash, hence its request
  Runs,        \* Run IDs
  RunOf,       \* the Run ID a claim names
  UIClaims,    \* claims whose Scenario has a UI action batch
  Sessions,    \* opaque Session identities the broker may issue
  NoClaim, Torn, NoSession,
  Faults,      \* the faults that may happen, a subset of FaultKinds
  MaxFaults    \* bound on how many of them happen

\* Faults of the environment.
\*   abandon       a command dies, or a step of it fails, between two writes
\*   crash         the task process dies
\*   lockwrite     publishing the Session in the Host Lock fails, file unchanged
\*   receiptwrite  the running receipt cannot be published
\*   broker        a broker call of the task fails while it holds a Session
\*   uijournal     settle cannot publish the UI journal
\* Faults for which the code has no recovery (see README.md).
\*   torn          acquire dies after creating host-lock.json, before filling it
\*   halfadopt     settle dies between the two halves of adopting a Session
\*   locksync      publishing the Session in the Host Lock is reported as failed
\*                 after it took effect (the directory sync of replaceFile)
\*   restage       a stage arrives after a settle removed the Run root and died
\*   probecrash    the task dies between the two halves of settle's probe
\*   relaunch      a start already under way while settle stops the Session of an
\*                 earlier task instance goes on to issue a second one
FaultKinds == {"abandon", "crash", "lockwrite", "receiptwrite", "broker", "uijournal",
               "torn", "halfadopt", "locksync", "restage", "probecrash", "relaunch"}

ASSUME ClaimsAssumption == RunOf \in [Claims -> Runs] /\ UIClaims \subseteq Claims
ASSUME NullsAssumption ==
  NoClaim \notin Claims /\ Torn \notin Claims /\ NoClaim # Torn /\ NoSession \notin Sessions
ASSUME FaultsAssumption == Faults \subseteq FaultKinds /\ MaxFaults \in Nat

VARIABLES
  lock,      \* host-lock.json
  receipt,   \* receipts/<run>.json
  dir,       \* runs/<run> and runs/.stage-<run>
  pending,   \* pending-request.json
  fence,     \* pending-setup.json exists
  cmd,       \* the command under way
  task,      \* the instance of the interactive task
  trigger,   \* the scheduler has accepted a start of the task
  broker,    \* the Session recorded in the Run's private daemon directory
  issued,    \* the claim each Session identity was issued for
  expired,   \* claims whose deadline has passed
  faults     \* number of faults so far

durable == <<lock, receipt, dir, pending, fence>>
world == <<broker, issued, expired, faults>>
vars == <<lock, receipt, dir, pending, fence, cmd, task, trigger, broker, issued,
          expired, faults>>

-----------------------------------------------------------------------------
(* Records *)

Terminal == {"complete", "failed", "timedout", "cleanupfailed"}
States == {"none", "accepted", "staged", "starting", "running", "calling",
           "interacting", "collecting"} \cup Terminal

Cleanups == {"none", "stopped", "known"}
\* CleanupState as it is ever written: nothing, SessionStopped alone, all four.

CmdPcs == {"idle", "create", "fill", "accept", "rename", "staged", "request",
           "pending", "starting", "launch", "adopt", "republish", "probe",
           "adoptlock", "adoptreceipt", "stop", "stopped", "strip", "unrequest",
           "disown", "rmroot", "destage", "release", "close", "unpend"}
LaunchPcs == {"launching", "recorded", "returned", "bind", "bound", "rollback",
              "rolled", "stranded"}
HoldPcs == {"bind", "bound", "rollback", "rolled", "stranded", "completed"}
RunPcs == {"ready", "call", "uistart", "ui", "collect"}
TaskPcs == {"idle", "read"} \cup LaunchPcs \cup HoldPcs \cup RunPcs

LockRecord == [claim : Claims \cup {NoClaim, Torn}, session : Sessions \cup {NoSession}]
Receipt == [claim : Claims \cup {NoClaim}, state : States,
            session : Sessions \cup {NoSession}, cleanup : Cleanups,
            rollback : BOOLEAN]
\* Payload present, payload being removed, directory without ownership.json.
Dir == [root : {"absent", "empty", "stripped", "published"},
        owner : Claims \cup {NoClaim}, request : BOOLEAN,
        staging : Claims \cup {NoClaim}]
Command == [pc : CmdPcs, claim : Claims \cup {NoClaim}, state : States,
            session : Sessions \cup {NoSession}]
Task == [pc : TaskPcs, claim : Claims \cup {NoClaim},
         session : Sessions \cup {NoSession}, failed : BOOLEAN]

LockOf(c, s) == [claim |-> c, session |-> s]
NoLock == LockOf(NoClaim, NoSession)
ReceiptOf(c, st, s, cl) ==
  [claim |-> c, state |-> st, session |-> s, cleanup |-> cl, rollback |-> FALSE]
NoReceipt == ReceiptOf(NoClaim, "none", NoSession, "none")
NoDir == [root |-> "absent", owner |-> NoClaim, request |-> FALSE, staging |-> NoClaim]
IdleCmd == [pc |-> "idle", claim |-> NoClaim, state |-> "none", session |-> NoSession]
IdleTask == [pc |-> "idle", claim |-> NoClaim, session |-> NoSession, failed |-> FALSE]

TypeOK ==
  /\ lock \in LockRecord
  /\ receipt \in [Runs -> Receipt]
  /\ dir \in [Runs -> Dir]
  /\ pending \in Claims \cup {NoClaim}
  /\ fence \in BOOLEAN
  /\ cmd \in Command
  /\ task \in Task
  /\ trigger \in BOOLEAN
  /\ broker \in [Runs -> Sessions \cup {NoSession}]
  /\ issued \in [Sessions -> Claims \cup {NoClaim}]
  /\ expired \subseteq Claims
  /\ faults \in Nat

Init ==
  /\ lock = NoLock
  /\ receipt = [r \in Runs |-> NoReceipt]
  /\ dir = [r \in Runs |-> NoDir]
  /\ pending = NoClaim
  /\ fence = FALSE
  /\ cmd = IdleCmd
  /\ task = IdleTask
  /\ trigger = FALSE
  /\ broker = [r \in Runs |-> NoSession]
  /\ issued = [s \in Sessions |-> NoClaim]
  /\ expired = {}
  /\ faults = 0

-----------------------------------------------------------------------------
(* Shared readings of the state *)

OperationFree == cmd.pc = "idle" /\ task.pc \notin HoldPcs
\* Mutant: the launch lock is taken only once the broker has answered.
LaunchHeldLate == task.pc \in LaunchPcs \ {"launching"}
LaunchHeld == task.pc \in LaunchPcs

\* Status: the receipt, or the one the Host Lock stands for when it is missing.
Status(r) ==
  IF receipt[r].state # "none" \/ lock.claim \notin Claims THEN receipt[r]
  ELSE IF RunOf[lock.claim] # r THEN receipt[r]
  ELSE ReceiptOf(lock.claim, IF lock.session = NoSession THEN "accepted" ELSE "cleanupfailed",
                 lock.session, "none")

\* Mutant: an interrupted Run is left in the client's settling state.
TerminalizedSettling(st) == IF st \in Terminal THEN st ELSE "settling"
Terminalized(st) == IF st \in Terminal THEN st ELSE "failed"

\* recoverUnpublishedSession: without request.json the broker is not asked.
Recovered(r) == IF dir[r].request THEN broker[r] ELSE NoSession

\* Mutant: the task trusts the receipt alone.
ActiveByReceipt(c, s) ==
  LET r == Status(RunOf[c]) IN r.session = s /\ r.claim = c
\* activeReceipt: the Run is not settled and s is still its exact authority.
Active(c, s) ==
  LET r == Status(RunOf[c]) IN
  /\ r.cleanup # "known"
  /\ lock = LockOf(c, s)
  /\ r.session = s
  /\ r.claim = c

Fault(kind) == kind \in Faults /\ faults < MaxFaults /\ faults' = faults + 1

Begin(c, pc, st, s) ==
  cmd' = [pc |-> pc, claim |-> c, state |-> st, session |-> s]
Goto(pc) == cmd' = [cmd EXCEPT !.pc = pc]
Exit == cmd' = IdleCmd
\* Reads only: a command decides what to do before its first write.
ReadOnly == UNCHANGED <<durable, task, trigger, world>>

-----------------------------------------------------------------------------
(* acquire.  Acquire and start compare the deadline before they wait for *)
(* .operation.lock: it may have passed when they begin, so it guards nothing *)
(* here.  The task compares it under the lock. *)

AcquireBegin(c) ==
  /\ OperationFree /\ ~fence
  /\ receipt[RunOf[c]].state = "none"      \* a stored receipt is never re-accepted
  /\ \/ lock = NoLock /\ Begin(c, "create", "none", NoSession)
     \/ lock = LockOf(c, NoSession) /\ Begin(c, "accept", "none", NoSession)
  /\ ReadOnly

\* writeFileExclusive: the file exists before it has contents.
LockCreate ==
  /\ cmd.pc = "create" /\ lock' = LockOf(Torn, NoSession) /\ Goto("fill")
  /\ UNCHANGED <<receipt, dir, pending, fence, task, trigger, world>>

LockFill ==
  /\ cmd.pc = "fill" /\ lock' = LockOf(cmd.claim, NoSession) /\ Goto("accept")
  /\ UNCHANGED <<receipt, dir, pending, fence, task, trigger, world>>

AcceptWrite ==
  /\ cmd.pc = "accept"
  /\ receipt' = [receipt EXCEPT ![RunOf[cmd.claim]] =
                   ReceiptOf(cmd.claim, "accepted", NoSession, "none")]
  /\ Exit
  /\ UNCHANGED <<lock, dir, pending, fence, task, trigger, world>>

-----------------------------------------------------------------------------
(* stage *)

\* Stage compares the lock and never reads the receipt; the conjunct with "restage"
\* is the fault that leaves out a stage between two settles of one Run.
StageBegin(c) ==
  LET r == RunOf[c] IN
  /\ OperationFree /\ lock = LockOf(c, NoSession) /\ dir[r].staging = NoClaim
  /\ receipt[r].cleanup = "none" \/ "restage" \in Faults
  /\ dir' = [dir EXCEPT ![r].staging = c]
  /\ Begin(c, "rename", "none", NoSession)
  /\ UNCHANGED <<lock, receipt, pending, fence, task, trigger, world>>

\* A rename replaces an empty directory on POSIX and fails on Windows; the
\* staging directory is removed when it fails.
StageRename ==
  LET r == RunOf[cmd.claim] IN
  /\ cmd.pc = "rename"
  /\ \/ /\ dir[r].root \in {"absent", "empty"}
        /\ dir' = [dir EXCEPT ![r] = [root |-> "published", owner |-> cmd.claim,
                                       request |-> FALSE, staging |-> NoClaim]]
        /\ Goto("staged")
     \/ /\ dir[r].root # "absent"
        /\ dir' = [dir EXCEPT ![r].staging = NoClaim]
        /\ Exit
  /\ UNCHANGED <<lock, receipt, pending, fence, task, trigger, world>>

StagedWrite ==
  /\ cmd.pc = "staged"
  /\ receipt' = [receipt EXCEPT ![RunOf[cmd.claim]] =
                   ReceiptOf(cmd.claim, "staged", NoSession, "none")]
  /\ Exit
  /\ UNCHANGED <<lock, dir, pending, fence, task, trigger, world>>

-----------------------------------------------------------------------------
(* start *)

\* tasks.Launch: the scheduler ignores a start while an instance runs.
Launch == trigger' = (trigger \/ task.pc = "idle")

StartAdmitted(c) ==
  /\ OperationFree /\ ~fence
  /\ lock.claim = c /\ Status(RunOf[c]).claim = c

FirstStart(c) ==
  lock.session = NoSession /\ Status(RunOf[c]).state \in {"accepted", "staged"}

StartBegin(c) ==
  /\ StartAdmitted(c) /\ FirstStart(c)
  /\ dir[RunOf[c]].root = "published"        \* validateStagedRequest
  /\ Begin(c, "request", "none", NoSession)
  /\ ReadOnly

RequestWrite ==
  /\ cmd.pc = "request"
  /\ dir' = [dir EXCEPT ![RunOf[cmd.claim]].request = TRUE]
  /\ Goto("pending")
  /\ UNCHANGED <<lock, receipt, pending, fence, task, trigger, world>>

PendingWrite ==
  /\ cmd.pc = "pending" /\ pending' = cmd.claim /\ Goto("starting")
  /\ UNCHANGED <<lock, receipt, dir, fence, task, trigger, world>>

StartingWrite ==
  /\ cmd.pc = "starting"
  /\ receipt' = [receipt EXCEPT ![RunOf[cmd.claim]] =
                   ReceiptOf(cmd.claim, "starting", NoSession, "none")]
  /\ Goto("launch")
  /\ UNCHANGED <<lock, dir, pending, fence, task, trigger, world>>

TaskLaunch ==
  /\ cmd.pc = "launch" /\ Launch /\ Exit
  /\ UNCHANGED <<durable, task, world>>

\* The identical request again: the lost trigger is given once more, or a
\* Session that only the Host Lock names is adopted by the receipt.
StartReplay(c) ==
  LET r == Status(RunOf[c]) IN
  /\ StartAdmitted(c) /\ ~FirstStart(c)
  /\ dir[RunOf[c]].request                   \* validateStoredRequest
  /\ \/ /\ lock.session # NoSession /\ r.session = NoSession
        /\ Begin(c, "adopt", r.state, lock.session)
        /\ UNCHANGED trigger
     \/ /\ lock.session = NoSession /\ r.session = NoSession /\ r.state = "starting"
        /\ Launch
        /\ UNCHANGED cmd
  /\ UNCHANGED <<durable, task, world>>

StartAdopt ==
  LET r == RunOf[cmd.claim] IN
  /\ cmd.pc = "adopt"
  /\ receipt' = [receipt EXCEPT ![r] = ReceiptOf(cmd.claim, "cleanupfailed", cmd.session,
                                                 Status(r).cleanup)]
  /\ Exit
  /\ UNCHANGED <<lock, dir, pending, fence, task, trigger, world>>

-----------------------------------------------------------------------------
(* settle *)

\* recoverReleasedCleanup: the lock is already gone, or another Run's.
Released(c) ==
  LET r == Status(RunOf[c]) IN
  /\ r.cleanup # "none" /\ dir[RunOf[c]].root = "absent"
  /\ lock.claim \notin {c, Torn}

SettleReleased(c) ==
  LET r == Status(RunOf[c]) IN
  /\ OperationFree /\ r.claim = c /\ Released(c)
  /\ Begin(c, "close", r.state, r.session)
  /\ ReadOnly

\* Mutant: an identity that only the lock names is not adopted.
StoredSessionOnly(c) == Status(RunOf[c]).session
\* The Session stored with the claim, an interrupted publication included.
StoredSession(c) ==
  LET r == Status(RunOf[c]) IN
  IF r.state = "starting" /\ r.session = NoSession THEN lock.session ELSE r.session

\* Mutant: the Run ID stands for the complete claim.
SettleAuthorityByRun(c) ==
  lock.claim \in Claims /\ RunOf[lock.claim] = RunOf[c]
SettleAuthority(c) == Status(RunOf[c]).claim = c /\ lock.claim = c

SettleBegin(c) ==
  LET r == Status(RunOf[c])
      s == StoredSession(c)
      b == Recovered(RunOf[c])
      VerifiedRollback == b = NoSession /\ r.state = "cleanupfailed" /\ r.rollback /\ ~LaunchHeld
  IN
  /\ OperationFree /\ SettleAuthority(c)
  /\ \/ /\ s # NoSession /\ lock.session = NoSession
        /\ b = s \/ VerifiedRollback
        /\ Begin(c, "republish", r.state, s)
     \/ /\ s # NoSession /\ lock.session = s
        /\ Begin(c, "stop", r.state, s)
     \/ /\ s = NoSession /\ lock.session = NoSession
        /\ IF b # NoSession THEN Begin(c, "adoptlock", r.state, b)
           ELSE IF r.state = "starting" THEN Begin(c, "probe", r.state, NoSession)
           ELSE Begin(c, "stop", r.state, NoSession)
  /\ ReadOnly

\* not-found proves nothing while a launch is active: the fence must be free.
LaunchProbe ==
  /\ cmd.pc = "probe"
  /\ IF LaunchHeld THEN Exit ELSE Goto("stop")
  /\ ReadOnly

PublishInLock(pc, next) ==
  /\ cmd.pc = pc /\ lock' = LockOf(cmd.claim, cmd.session) /\ Goto(next)
  /\ UNCHANGED <<receipt, dir, pending, fence, task, trigger, world>>

RepublishLock == PublishInLock("republish", "stop")
AdoptLock == PublishInLock("adoptlock", "adoptreceipt")

AdoptReceipt ==
  /\ cmd.pc = "adoptreceipt"
  /\ receipt' = [receipt EXCEPT ![RunOf[cmd.claim]] =
                   ReceiptOf(cmd.claim, "cleanupfailed", cmd.session, "none")]
  /\ cmd' = [cmd EXCEPT !.pc = "stop", !.state = "cleanupfailed"]
  /\ UNCHANGED <<lock, dir, pending, fence, task, trigger, world>>

\* Mutant: a stop that fails counts as done.
StopIgnored ==
  cmd.pc = "stop" /\ Goto("stopped") /\ ReadOnly
\* The broker stops the exact Session; not-found counts as stopped, another
\* identity is an error.
StopSession ==
  LET r == RunOf[cmd.claim] IN
  /\ cmd.pc = "stop"
  /\ IF cmd.session # NoSession /\ broker[r] \notin {cmd.session, NoSession}
       THEN Exit /\ UNCHANGED broker
       ELSE /\ broker' = [broker EXCEPT ![r] = IF cmd.session = NoSession THEN @ ELSE NoSession]
            /\ Goto("stopped")
  /\ UNCHANGED <<durable, task, trigger, issued, expired, faults>>

\* publishUIJournal can fail only for a batch whose journal is not yet evidence.
StoppedWrite ==
  LET r == RunOf[cmd.claim]
      Stopped(st) == [ReceiptOf(cmd.claim, st, cmd.session, "stopped")
                        EXCEPT !.rollback = receipt[r].rollback]
  IN
  /\ cmd.pc = "stopped"
  /\ \/ /\ receipt' = [receipt EXCEPT ![r] = Stopped(cmd.state)]
        /\ Goto("strip")
        /\ UNCHANGED faults
     \/ /\ cmd.state = "interacting" /\ Fault("uijournal")
        /\ receipt' = [receipt EXCEPT ![r] = Stopped("failed")]
        /\ Exit
  /\ UNCHANGED <<lock, dir, pending, fence, task, trigger, broker, issued, expired>>

\* Removal of the Run root keeps ownership.json until nothing else is left.
StripRoot ==
  LET r == RunOf[cmd.claim] IN
  /\ cmd.pc = "strip"
  /\ CASE dir[r].root = "absent" -> Goto("destage") /\ UNCHANGED dir
       [] dir[r].root = "empty" -> Goto("rmroot") /\ UNCHANGED dir
       [] dir[r].root \in {"published", "stripped"} /\ dir[r].owner = cmd.claim ->
            Goto("unrequest") /\ dir' = [dir EXCEPT ![r].root = "stripped"]
       [] OTHER -> Exit /\ UNCHANGED dir
  /\ UNCHANGED <<lock, receipt, pending, fence, task, trigger, world>>

RemoveRequest ==
  /\ cmd.pc = "unrequest" /\ Goto("disown")
  /\ dir' = [dir EXCEPT ![RunOf[cmd.claim]].request = FALSE]
  /\ UNCHANGED <<lock, receipt, pending, fence, task, trigger, world>>

RemoveOwnership ==
  /\ cmd.pc = "disown" /\ Goto("rmroot")
  /\ dir' = [dir EXCEPT ![RunOf[cmd.claim]].root = "empty",
                        ![RunOf[cmd.claim]].owner = NoClaim]
  /\ UNCHANGED <<lock, receipt, pending, fence, task, trigger, world>>

RemoveRoot ==
  /\ cmd.pc = "rmroot" /\ Goto("destage")
  /\ dir' = [dir EXCEPT ![RunOf[cmd.claim]].root = "absent"]
  /\ UNCHANGED <<lock, receipt, pending, fence, task, trigger, world>>

\* Mutant: an interrupted staging directory is left behind.
RemoveRootOnly == cmd.pc = "destage" /\ Goto("release") /\ ReadOnly
RemoveStaging ==
  LET r == RunOf[cmd.claim] IN
  /\ cmd.pc = "destage"
  /\ IF dir[r].staging \in {NoClaim, cmd.claim}
       THEN Goto("release") /\ dir' = [dir EXCEPT ![r].staging = NoClaim]
       ELSE Exit /\ UNCHANGED dir
  /\ UNCHANGED <<lock, receipt, pending, fence, task, trigger, world>>

ReleaseLock ==
  /\ cmd.pc = "release"
  /\ IF lock = LockOf(cmd.claim, cmd.session)
       THEN lock' = NoLock /\ Goto("close")
       ELSE Exit /\ UNCHANGED lock
  /\ UNCHANGED <<receipt, dir, pending, fence, task, trigger, world>>

CloseReceipt ==
  LET r == RunOf[cmd.claim] IN
  /\ cmd.pc = "close" /\ Goto("unpend")
  /\ receipt' = [receipt EXCEPT ![r] =
       [ReceiptOf(cmd.claim, Terminalized(cmd.state), cmd.session, "known")
          EXCEPT !.rollback = receipt[r].rollback]]
  /\ UNCHANGED <<lock, dir, pending, fence, task, trigger, world>>

\* A newer Run's pending request is not touched.
RemovePending ==
  /\ cmd.pc = "unpend" /\ Exit
  /\ pending' = IF lock = NoLock THEN NoClaim ELSE pending
  /\ UNCHANGED <<lock, receipt, dir, fence, task, trigger, world>>

\* A command dies or gives up with an error.  One that returns removes the lock
\* file it could not fill and its staging directory; one that dies leaves them.
Abandon ==
  /\ cmd.pc # "idle" /\ Fault("abandon") /\ Exit
  /\ \/ /\ cmd.pc = "fill" => "torn" \in Faults
        /\ cmd.pc = "adoptreceipt" /\ cmd.state # "starting" => "halfadopt" \in Faults
        /\ UNCHANGED <<lock, dir>>
     \/ /\ cmd.pc = "fill" /\ lock' = NoLock
        /\ UNCHANGED dir
     \/ /\ cmd.pc = "rename" /\ UNCHANGED lock
        /\ dir' = [dir EXCEPT ![RunOf[cmd.claim]].staging = NoClaim]
  /\ UNCHANGED <<receipt, pending, fence, task, trigger, broker, issued, expired>>

-----------------------------------------------------------------------------
(* The interactive task: admission and launch *)

\* The pending request is read before any lock is taken.
TaskStart ==
  /\ trigger /\ task.pc = "idle" /\ trigger' = FALSE
  /\ task' = IF pending = NoClaim THEN IdleTask
             ELSE [pc |-> "read", claim |-> pending, session |-> NoSession, failed |-> FALSE]
  /\ UNCHANGED <<durable, cmd, world>>

ExactlyStarting(c) ==
  /\ ~fence
  /\ lock = LockOf(c, NoSession)
  /\ LET r == Status(RunOf[c]) IN
       r.claim = c /\ r.state = "starting" /\ r.session = NoSession /\ r.cleanup = "none"

InterruptedUI(c) ==
  /\ ~fence
  /\ lock.claim = c /\ lock.session # NoSession
  /\ LET r == Status(RunOf[c]) IN
       r.claim = c /\ r.state = "interacting" /\ r.session = lock.session

FailReceipt(c, st) ==
  receipt' = [receipt EXCEPT ![RunOf[c]] = [@ EXCEPT !.state = st, !.rollback = FALSE]]

\* .operation.lock is released only once .launch.lock is held.
TaskAdmit ==
  /\ task.pc = "read" /\ OperationFree
  /\ ExactlyStarting(task.claim) /\ task.claim \notin expired
  /\ task' = [task EXCEPT !.pc = "launching"]
  /\ UNCHANGED <<durable, cmd, trigger, world>>

TaskRefuse ==
  /\ task.pc = "read" /\ OperationFree
  /\ \/ ExactlyStarting(task.claim)
        /\ \/ FailReceipt(task.claim, "failed")
           \/ task.claim \in expired /\ FailReceipt(task.claim, "timedout")
     \/ InterruptedUI(task.claim) /\ FailReceipt(task.claim, "failed")
  /\ task' = IdleTask
  /\ UNCHANGED <<lock, dir, pending, fence, cmd, trigger, world>>

TaskReject ==
  /\ task.pc = "read" /\ OperationFree
  /\ ~ExactlyStarting(task.claim) /\ ~InterruptedUI(task.claim)
  /\ task' = IdleTask
  /\ UNCHANGED <<durable, cmd, trigger, world>>

\* The broker records the identity before it lets Blender start.  The conjunct with
\* "relaunch" is the fault: a second issue for a claim that settle is closing.
DaemonRecord(s) ==
  LET r == RunOf[task.claim] IN
  /\ task.pc = "launching" /\ broker[r] = NoSession /\ issued[s] = NoClaim
  /\ \/ lock = LockOf(task.claim, NoSession)
     \/ \A t \in Sessions : issued[t] # task.claim
     \/ "relaunch" \in Faults
  /\ broker' = [broker EXCEPT ![r] = s] /\ issued' = [issued EXCEPT ![s] = task.claim]
  /\ task' = [task EXCEPT !.pc = "recorded", !.session = s]
  /\ UNCHANGED <<durable, cmd, trigger, expired, faults>>

\* start returns the identity, the identity with an error, or an error alone.
DaemonReturn ==
  /\ \/ /\ task.pc = "recorded"
        /\ \E failed \in BOOLEAN :
             task' = [task EXCEPT !.pc = "returned", !.failed = failed]
     \/ /\ task.pc \in {"launching", "recorded"}
        /\ task' = [task EXCEPT !.pc = "returned", !.session = NoSession, !.failed = TRUE]
  /\ UNCHANGED <<durable, cmd, trigger, world>>

\* Back under .operation.lock: is the authority still the one it left?
TaskReconcile ==
  LET c == task.claim
      s == IF task.session # NoSession THEN task.session ELSE Recovered(RunOf[c])
  IN
  /\ task.pc = "returned" /\ OperationFree
  /\ \/ /\ ~Active(c, NoSession) /\ task' = IdleTask
        /\ UNCHANGED <<receipt, faults>>
     \/ /\ Active(c, NoSession) /\ s # NoSession
        /\ task' = [task EXCEPT !.pc = "bind", !.session = s]
        /\ UNCHANGED <<receipt, faults>>
     \/ /\ Active(c, NoSession) /\ task.session = NoSession
        /\ \/ s = NoSession /\ UNCHANGED faults
           \/ s # NoSession /\ Fault("broker")
        /\ \E st \in {"failed", "timedout"} : FailReceipt(c, st)
        /\ task' = IdleTask
  /\ UNCHANGED <<lock, dir, pending, fence, cmd, trigger, broker, issued, expired>>

-----------------------------------------------------------------------------
(* The interactive task: publication of the Session identity *)

TaskGoto(pc) == task' = [task EXCEPT !.pc = pc]

BindLock ==
  /\ task.pc = "bind"
  /\ \/ /\ lock' = LockOf(task.claim, task.session) /\ TaskGoto("bound")
        /\ UNCHANGED faults
     \/ /\ UNCHANGED lock /\ TaskGoto("rollback")
        /\ Fault("lockwrite")
     \/ /\ lock' = LockOf(task.claim, task.session) /\ TaskGoto("rollback")
        /\ Fault("locksync")
  /\ UNCHANGED <<receipt, dir, pending, fence, cmd, trigger, broker, issued, expired>>

\* Exact rollback of a Session whose identity could not be published.
RollbackStop ==
  LET r == RunOf[task.claim]
      stopped == [broker EXCEPT ![r] = NoSession]
  IN
  /\ task.pc = "rollback"
  /\ \/ /\ broker[r] \in {task.session, NoSession} /\ broker' = stopped
        /\ TaskGoto("rolled") /\ UNCHANGED faults
     \/ /\ broker' \in {broker, stopped}
        /\ TaskGoto("stranded") /\ Fault("broker")
  /\ UNCHANGED <<durable, cmd, trigger, issued, expired>>

RollbackWrite ==
  LET r == RunOf[task.claim] IN
  /\ \/ task.pc = "rolled" /\ FailReceipt(task.claim, "failed")
     \/ /\ task.pc = "stranded"
        /\ receipt' = [receipt EXCEPT ![r] =
             [ReceiptOf(task.claim, "cleanupfailed", task.session, "none")
                EXCEPT !.rollback = TRUE]]
  /\ task' = IdleTask
  /\ UNCHANGED <<lock, dir, pending, fence, cmd, trigger, world>>

BoundWrite ==
  LET r == RunOf[task.claim]
      Bound(st) == receipt' = [receipt EXCEPT ![r] =
                                 ReceiptOf(task.claim, st, task.session, "none")]
  IN
  /\ task.pc = "bound"
  /\ \/ task.failed /\ Bound("failed") /\ task' = IdleTask /\ UNCHANGED faults
     \/ ~task.failed /\ Bound("running") /\ TaskGoto("ready") /\ UNCHANGED faults
     \/ ~task.failed /\ Bound("cleanupfailed") /\ task' = IdleTask /\ Fault("receiptwrite")
  /\ UNCHANGED <<lock, dir, pending, fence, cmd, trigger, broker, issued, expired>>

-----------------------------------------------------------------------------
(* The interactive task: the Run itself.  Readiness, the Scenario call, UI *)
(* actions and captures run without the lock; each result is committed     *)
(* under it after the exact authority has been compared again.             *)

Phase(c, pc) ==
  CASE pc = "ready"   -> [state |-> "calling", next |-> "call"]
    [] pc = "call"    -> IF c \in UIClaims THEN [state |-> "calling", next |-> "uistart"]
                         ELSE [state |-> "collecting", next |-> "collect"]
    [] pc = "uistart" -> [state |-> "interacting", next |-> "ui"]
    [] pc = "ui"      -> [state |-> "collecting", next |-> "collect"]
    [] pc = "collect" -> [state |-> "complete", next |-> "completed"]

Resumed == task.pc \in RunPcs /\ OperationFree

TaskAdvance ==
  LET c == task.claim
      p == Phase(c, task.pc)
  IN
  /\ Resumed /\ Active(c, task.session) /\ c \notin expired
  /\ receipt' = [receipt EXCEPT ![RunOf[c]].state = p.state]
  /\ TaskGoto(p.next)
  /\ UNCHANGED <<lock, dir, pending, fence, cmd, trigger, world>>

TaskFail ==
  /\ Resumed /\ Active(task.claim, task.session)
  /\ \E st \in {"failed", "timedout"} : FailReceipt(task.claim, st)
  /\ task' = IdleTask
  /\ UNCHANGED <<lock, dir, pending, fence, cmd, trigger, world>>

TaskSuperseded ==
  /\ Resumed /\ ~Active(task.claim, task.session)
  /\ task' = IdleTask
  /\ UNCHANGED <<durable, cmd, trigger, world>>

TaskFinish ==
  /\ task.pc = "completed" /\ pending' = NoClaim /\ task' = IdleTask
  /\ UNCHANGED <<lock, receipt, dir, fence, cmd, trigger, world>>

\* The OS releases the locks of a dead process.  The broker's start command is
\* its child and is taken to die with it.
TaskCrash ==
  /\ task.pc # "idle" /\ Fault("crash") /\ task' = IdleTask
  /\ LaunchHeld /\ cmd.pc = "probe" => "probecrash" \in Faults
  /\ UNCHANGED <<durable, cmd, trigger, broker, issued, expired>>

-----------------------------------------------------------------------------
(* Setup maintenance and time *)

\* InspectSetupMaintenance, under both locks: no Run authority is unresolved.
\* Mutant: the lock file is not looked at.
QuiescentReceipts ==
  /\ pending = NoClaim
  /\ \A r \in Runs :
       /\ dir[r].root = "absent" /\ dir[r].staging = NoClaim
       /\ receipt[r].state # "none" => receipt[r].cleanup = "known"
Quiescent ==
  /\ lock = NoLock /\ pending = NoClaim
  /\ \A r \in Runs :
       /\ dir[r].root = "absent" /\ dir[r].staging = NoClaim
       /\ receipt[r].state # "none" =>
            receipt[r].cleanup = "known" /\ receipt[r].state \in Terminal

PublishSetupClaim ==
  /\ OperationFree /\ ~LaunchHeld /\ ~fence /\ Quiescent
  /\ fence' = TRUE
  /\ UNCHANGED <<lock, receipt, dir, pending, cmd, task, trigger, world>>

ClearSetupClaim ==
  /\ OperationFree /\ ~LaunchHeld /\ fence /\ Quiescent
  /\ fence' = FALSE
  /\ UNCHANGED <<lock, receipt, dir, pending, cmd, task, trigger, world>>

Expire(c) ==
  /\ c \notin expired /\ expired' = expired \cup {c}
  /\ UNCHANGED <<durable, cmd, task, trigger, broker, issued, faults>>

-----------------------------------------------------------------------------

Arrival(c) ==
  AcquireBegin(c) \/ StageBegin(c) \/ StartBegin(c) \/ StartReplay(c)
    \/ SettleReleased(c) \/ SettleBegin(c)

CommandStep ==
  \/ LockCreate \/ LockFill \/ AcceptWrite
  \/ StageRename \/ StagedWrite
  \/ RequestWrite \/ PendingWrite \/ StartingWrite \/ TaskLaunch \/ StartAdopt
  \/ RepublishLock \/ AdoptLock \/ AdoptReceipt \/ LaunchProbe
  \/ StopSession \/ StoppedWrite \/ StripRoot \/ RemoveRequest \/ RemoveOwnership
  \/ RemoveRoot \/ RemoveStaging \/ ReleaseLock \/ CloseReceipt \/ RemovePending

TaskStep ==
  \/ TaskStart \/ TaskAdmit \/ TaskRefuse \/ TaskReject
  \/ (\E s \in Sessions : DaemonRecord(s)) \/ DaemonReturn \/ TaskReconcile
  \/ BindLock \/ RollbackStop \/ RollbackWrite \/ BoundWrite
  \/ TaskAdvance \/ TaskFail \/ TaskSuperseded \/ TaskFinish

Next ==
  \/ \E c \in Claims : Arrival(c) \/ Expire(c)
  \/ CommandStep \/ Abandon
  \/ TaskStep \/ TaskCrash
  \/ PublishSetupClaim \/ ClearSetupClaim

Spec == Init /\ [][Next]_vars

-----------------------------------------------------------------------------
(* Fairness: a client that keeps asking for the exact stop, and a task that *)
(* is scheduled.  Both poll for .operation.lock, hence strong fairness.     *)

Settle(c) == SettleReleased(c) \/ SettleBegin(c)

FairSpec ==
  /\ Spec
  /\ WF_vars(CommandStep)
  /\ \A c \in Claims : SF_vars(Settle(c))
  /\ WF_vars(DaemonReturn) /\ SF_vars(TaskReconcile)
  /\ WF_vars(BindLock \/ RollbackStop \/ RollbackWrite \/ BoundWrite \/ TaskFinish)

-----------------------------------------------------------------------------
(* Properties *)

\* No Session outlives the authority that owns it: while the broker of a Run has
\* a Session on record, the Host Lock names a claim of that Run (Settle stops
\* before it releases; ExecutePending launches only under the exact claim).
SessionUnderLock ==
  \A r \in Runs : broker[r] # NoSession => lock.claim \in Claims /\ RunOf[lock.claim] = r

\* A receipt with complete cleanup tells the truth, forever: the lock is not the
\* Run's, nothing of the Run is on disk, no Session of it is on record.
CleanupIsTrue ==
  \A r \in Runs : receipt[r].cleanup = "known" =>
    /\ lock.claim # receipt[r].claim
    /\ dir[r] = NoDir
    /\ broker[r] = NoSession

\* A setup execution has the host to itself: under its fence there is no lock, no
\* Run directory, no Session and no launch in progress, although stage, settle
\* and the task's later phases never look at the fence.
SetupExclusive ==
  fence =>
    /\ lock = NoLock
    /\ \A r \in Runs : dir[r] = NoDir /\ broker[r] = NoSession
    /\ task.pc \notin LaunchPcs \cup HoldPcs

\* Whatever path published it (start, rollback, recovery by settle or by a replayed
\* start), a Session identity in the lock or in a receipt was issued for that claim.
SessionAuthentic ==
  /\ lock.session # NoSession => issued[lock.session] = lock.claim
  /\ \A r \in Runs : receipt[r].session # NoSession =>
       issued[receipt[r].session] = receipt[r].claim

Rank(st) ==
  CASE st = "none" -> 0 [] st = "accepted" -> 1 [] st = "staged" -> 2
    [] st = "starting" -> 3 [] st = "running" -> 4 [] st = "calling" -> 5
    [] st = "interacting" -> 6 [] st = "collecting" -> 7
    [] st \in Terminal -> 8

\* What the client's validTransition demands of successive receipts of a Run, and
\* more: the state never goes back, so that a Run that has ended is never started
\* again; claim and Session, once named, stay; and the interrupted task, a late
\* command or a repeated stop changes nothing of a settled Run.
ReceiptProgress ==
  [][\A r \in Runs :
       /\ Rank(receipt[r].state) <= Rank(receipt'[r].state)
       /\ receipt[r].claim # NoClaim => receipt'[r].claim = receipt[r].claim
       /\ receipt[r].session # NoSession => receipt'[r].session = receipt[r].session
       /\ receipt[r].cleanup = "known" => receipt'[r] = receipt[r]]_vars

\* Repeated exact stop ends every Run, whatever was interrupted before.
RunsSettle ==
  \A c \in Claims :
    lock.claim = c ~> lock.claim # c /\ receipt[RunOf[c]].cleanup = "known"

=============================================================================
