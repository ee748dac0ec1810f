------------------------------ MODULE SetupOwner ------------------------------
(* The setup owner of internal/windowsinstall: who may run the installer, and  *)
(* when.  An apply admits an execution of its operation under the maintenance  *)
(* locks: a journal directory, the pending setup claim (the fence) and the     *)
(* execution request.  A temporary Scheduled Task then starts the keeper of    *)
(* this execution, the keeper starts the worker, and the worker runs the       *)
(* installer.  The keeper publishes how it ended; a caller that finds it       *)
(* settled deletes the temporary task and releases the fence, or admits the    *)
(* next execution of an operation that is not finished.                        *)
(*                                                                             *)
(* Callers (repeated apply, stop) and keepers may be gone at any moment, and a *)
(* launcher call that was submitted takes effect even so.  The worker is that  *)
(* of Installer, step by step: every behaviour here is one of Installer.       *)
EXTENDS Installer

CONSTANTS
  Procs,          \* the processes of callers
  MaxExec,        \* how many executions may be admitted
  NoExec          \* the journal directory of an execution does not exist

Tokens == 1 .. MaxExec
NoToken == 0

ASSUME OwnerAssumption == MaxExec \in Nat /\ NoToken \notin Procs

VARIABLES
  exec,           \* the execution journals, by token
  claim,          \* the token pending-setup.json names, or NoToken
  lock,           \* the caller that holds the maintenance locks, or NoToken
  ltask,          \* the temporary task of each execution is registered
  lcall,          \* the launcher call submitted and not yet carried out
  keeper,         \* the keeper of each execution
  wtok,           \* the execution whose worker was started last
  proc,           \* the callers
  run             \* a Run holds the host

ownerVars == <<exec, claim, lock, ltask, lcall, keeper, wtok, proc, run>>
allVars == <<vars, ownerVars>>

\* The records of a journal in the order in which they are published.
Pos == [dir |-> 1, request |-> 2, submitted |-> 3, registered |-> 4, run |-> 5,
        started |-> 6, keeper |-> 7, delete |-> 8, cleaned |-> 9]

Exits == {"none", "unknown", "not-started", "tree-empty"}
\* The journal of one execution: what was published in it, and how it ended.
Executions ==
  [op: Ops, pred: 0 .. MaxExec, log: 1 .. 9, owned: BOOLEAN, cancel: BOOLEAN, exit: Exits,
   mut: {"none", "settled", "unknown"}, state: {"none", "conflict"} \cup States,
   pub: {"none", "failed", "published"}]
ASSUME JournalAssumption == NoExec \notin Executions
KeeperAlive == {"polling", "admitted", "spawned", "working", "reported"}
Locked == {"mkdir", "claim", "request", "delete", "deleting"}
ProcPcs == Locked \cup {"idle", "settle", "preview", "release", "admit", "submit", "create",
                        "creating", "run", "launch", "starting", "poll"}

OwnerTypeOK ==
  /\ TypeOK
  /\ exec \in [Tokens -> Executions \cup {NoExec}]
  /\ claim \in 0 .. MaxExec /\ wtok \in 0 .. MaxExec /\ lock \in Procs \cup {NoToken}
  /\ ltask \in [Tokens -> BOOLEAN] /\ lcall \in [Tokens -> {"none", "create", "run", "delete"}]
  /\ keeper \in [Tokens -> KeeperAlive \cup {"none", "gone"}]
  /\ proc \in [Procs -> [pc: ProcPcs, cmd: {"apply", "stop"}, op: Ops, tok: 0 .. MaxExec,
                         own: 0 .. MaxExec]]
  /\ \A p \in Procs : lock = p <=> proc[p].pc \in Locked
  /\ run \in BOOLEAN

OwnerInit ==
  /\ Init
  /\ exec = [t \in Tokens |-> NoExec] /\ claim = NoToken /\ lock = NoToken
  /\ ltask = [t \in Tokens |-> FALSE] /\ lcall = [t \in Tokens |-> "none"]
  /\ keeper = [t \in Tokens |-> "none"] /\ wtok = NoToken /\ run = FALSE
  /\ proc = [p \in Procs |-> [pc |-> "idle", cmd |-> "apply", op |-> Install, tok |-> NoToken,
                              own |-> NoToken]]

-----------------------------------------------------------------------------
(* What the journals say. *)

Used == {t \in Tokens : exec[t] # NoExec}
Journal(o) == {t \in Used : exec[t].op = o}
Has(t, record) == exec[t].log >= Pos[record]
Terminal(t) == exec[t].exit # "none"

\* Mutant: the outcome of the worker's task call is not looked at.
WorkerExited(t) == exec[t].exit \in {"not-started", "tree-empty"}

WorkerSettled(t) == exec[t].exit \in {"not-started", "tree-empty"} /\ exec[t].mut = "settled"
Settled(t) == Has(t, "cleaned") /\ WorkerSettled(t)
Resumable(t) ==
  /\ Settled(t)
  /\ \/ exec[t].state = "partial"
     \/ exec[t].state = "installed" /\ exec[t].pub = "failed"

\* observe: the execution an operation is at, if its journal makes one chain of
\* resumed executions and the fence agrees with it.
Current(o, t) ==
  /\ t \in Journal(o)
  /\ \A u \in Journal(o) : Has(u, "request")
  /\ \A u, v \in Journal(o) : u # v => exec[u].pred # exec[v].pred
  /\ \A u \in Journal(o) : exec[u].pred # NoToken => Resumable(exec[u].pred)
  /\ \A u \in Journal(o) : exec[u].pred # t
  /\ IF claim = NoToken THEN Settled(t) ELSE claim = t

\* WithSetupMaintenance: the locks are free, no Run has the host, and the fence
\* is the caller's own (or, for NoToken, down).
WorkerHolds == w.pc \in Active \ {"check", "fence", "publish"}
LocksFree == lock = NoToken /\ ~WorkerHolds
Fenced(own) == claim = own
Maintain(own) == LocksFree /\ ~run /\ Fenced(own)

-----------------------------------------------------------------------------
(* Callers. *)

Is(p, pc) == proc[p].pc = pc
Tok(p) == proc[p].tok
To(p, pc) == proc' = [proc EXCEPT ![p].pc = pc]
Log(t, record) == exec' = [exec EXCEPT ![t].log = Pos[record]]
Idle(p) == [proc[p] EXCEPT !.pc = "idle", !.tok = NoToken, !.own = NoToken]

\* keep looks at the journal of its operation, Stop at that of the token it is given.
Apply(p, o) ==
  /\ Is(p, "idle")
  /\ \/ \E t \in Journal(o) :
          /\ Current(o, t) /\ WorkerSettled(t)
          /\ proc' = [proc EXCEPT ![p] =
               [pc |-> IF Settled(t) THEN "preview" ELSE "settle", cmd |-> "apply", op |-> o,
                tok |-> t, own |-> NoToken]]
     \/ /\ Journal(o) = {}
        /\ proc' = [proc EXCEPT ![p] = [pc |-> "preview", cmd |-> "apply", op |-> o,
                                        tok |-> NoToken, own |-> NoToken]]
  /\ UNCHANGED <<vars, exec, claim, lock, ltask, lcall, keeper, wtok, run>>

Stop(p, t) ==
  /\ Is(p, "idle") /\ t \in Used /\ Current(exec[t].op, t)
  /\ \/ /\ Terminal(t) /\ WorkerSettled(t)
        /\ proc' = [proc EXCEPT ![p] =
             [pc |-> IF Settled(t) THEN "release" ELSE "settle", cmd |-> "stop",
              op |-> exec[t].op, tok |-> t, own |-> NoToken]]
        /\ UNCHANGED exec
     \/ /\ ~Terminal(t) /\ ~exec[t].cancel
        /\ exec' = [exec EXCEPT ![t].cancel = TRUE] /\ UNCHANGED proc
  /\ UNCHANGED <<vars, claim, lock, ltask, lcall, keeper, wtok, run>>

\* Mutant: the keeper's exit is not looked at.
SettleAlive(p) ==
  /\ Is(p, "settle") /\ Maintain(Tok(p))
  /\ Current(proc[p].op, Tok(p)) /\ WorkerSettled(Tok(p))
  /\ ~Has(Tok(p), "delete") /\ Has(Tok(p), "keeper")
  /\ ltask[Tok(p)]
  /\ Log(Tok(p), "delete") /\ To(p, "delete") /\ lock' = p
  /\ UNCHANGED <<vars, claim, ltask, lcall, keeper, wtok, run>>

\* settleLauncher: the temporary task of a settled execution is deleted, once,
\* when its keeper has exited.
SettleLauncher(p) ==
  /\ Is(p, "settle") /\ Maintain(Tok(p))
  /\ Current(proc[p].op, Tok(p)) /\ WorkerSettled(Tok(p))
  /\ ~Has(Tok(p), "delete") /\ Has(Tok(p), "keeper")
  /\ keeper[Tok(p)] = "gone" /\ ltask[Tok(p)]
  /\ Log(Tok(p), "delete") /\ To(p, "delete") /\ lock' = p
  /\ UNCHANGED <<vars, claim, ltask, lcall, keeper, wtok, run>>

\* Somebody else has done it.
AlreadyClean(p) ==
  /\ Is(p, "settle") /\ Maintain(Tok(p))
  /\ Current(proc[p].op, Tok(p)) /\ Settled(Tok(p))
  /\ To(p, IF proc[p].cmd = "apply" THEN "preview" ELSE "release")
  /\ UNCHANGED <<vars, exec, claim, lock, ltask, lcall, keeper, wtok, run>>

Submitted(p, pc, kind, next) ==
  /\ Is(p, pc) /\ lcall' = [lcall EXCEPT ![Tok(p)] = kind] /\ To(p, next)
  /\ UNCHANGED <<vars, exec, claim, lock, ltask, keeper, wtok, run>>

SubmitDelete(p) == Submitted(p, "delete", "delete", "deleting")
Cleaned(p) ==
  /\ Is(p, "deleting") /\ lcall[Tok(p)] = "none" /\ ~ltask[Tok(p)]
  /\ Log(Tok(p), "cleaned") /\ lock' = NoToken
  /\ To(p, IF proc[p].cmd = "apply" THEN "preview" ELSE "release")
  /\ UNCHANGED <<vars, claim, ltask, lcall, keeper, wtok, run>>

\* The preview is a read-only Execute under whatever fence is up; one without a
\* predecessor expects none.
Preview(p) ==
  /\ Is(p, "preview") /\ ~run /\ (Tok(p) = NoToken => claim = NoToken)
  /\ ~RefusedEarly(proc[p].op) /\ TaskOwned /\ (Exists => FilesOwned)
  /\ proc' = [proc EXCEPT ![p].own = claim,
                          ![p].pc = IF Tok(p) = NoToken \/ Resumable(Tok(p)) THEN "admit"
                                    ELSE "release"]
  /\ UNCHANGED <<vars, exec, claim, lock, ltask, lcall, keeper, wtok, run>>

\* releaseFence takes the fence down under the locks, if it is still this one.
ReleaseFence(p) ==
  /\ Is(p, "release")
  /\ \/ claim = NoToken /\ UNCHANGED claim
     \/ Maintain(Tok(p)) /\ Current(proc[p].op, Tok(p)) /\ claim' = NoToken
  /\ proc' = [proc EXCEPT ![p] = Idle(p)]
  /\ UNCHANGED <<vars, exec, lock, ltask, lcall, keeper, wtok, run>>

\* Mutant: the journal is the one seen before the locks were taken.
AdmitStale(p) ==
  /\ Is(p, "admit") /\ Maintain(proc[p].own)
  /\ Used # Tokens
  /\ claim' = NoToken /\ lock' = p /\ To(p, "mkdir")
  /\ UNCHANGED <<vars, exec, ltask, lcall, keeper, wtok, run>>

\* Admission looks again under the locks, then takes the settled fence down.
Admit(p) ==
  /\ Is(p, "admit") /\ Maintain(proc[p].own)
  /\ IF Tok(p) = NoToken THEN Journal(proc[p].op) = {}
     ELSE Current(proc[p].op, Tok(p)) /\ Settled(Tok(p))
  /\ Used # Tokens
  /\ claim' = NoToken /\ lock' = p /\ To(p, "mkdir")
  /\ UNCHANGED <<vars, exec, ltask, lcall, keeper, wtok, run>>

\* A token is new: tokens are taken in order.
MakeJournal(p) ==
  /\ Is(p, "mkdir")
  /\ LET t == Cardinality(Used) + 1 IN
       /\ exec' = [exec EXCEPT ![t] =
            [op |-> proc[p].op, pred |-> Tok(p), log |-> 1, owned |-> FALSE, cancel |-> FALSE,
             exit |-> "none", mut |-> "none", state |-> "none", pub |-> "none"]]
       /\ proc' = [proc EXCEPT ![p].pc = "claim", ![p].tok = t, ![p].own = NoToken]
  /\ UNCHANGED <<vars, claim, lock, ltask, lcall, keeper, wtok, run>>

PublishClaim(p) ==
  /\ Is(p, "claim") /\ claim = NoToken /\ claim' = Tok(p) /\ To(p, "request")
  /\ UNCHANGED <<vars, exec, lock, ltask, lcall, keeper, wtok, run>>

PublishRequest(p) ==
  /\ Is(p, "request") /\ Log(Tok(p), "request") /\ lock' = NoToken /\ To(p, "submit")
  /\ UNCHANGED <<vars, claim, ltask, lcall, keeper, wtok, run>>

\* launchExecution: each launcher call is announced before and confirmed after.
Announce(p, pc, record, next) ==
  /\ Is(p, pc) /\ Log(Tok(p), record) /\ To(p, next)
  /\ UNCHANGED <<vars, claim, lock, ltask, lcall, keeper, wtok, run>>

Registered(p, pc) == Is(p, pc) /\ lcall[Tok(p)] = "none" /\ ltask[Tok(p)]

LaunchStep(p) ==
  \/ Announce(p, "submit", "submitted", "create")
  \/ Submitted(p, "create", "create", "creating")
  \/ Registered(p, "creating") /\ Announce(p, "creating", "registered", "run")
  \/ Announce(p, "run", "run", "launch")
  \/ Submitted(p, "launch", "run", "starting")
  \/ Registered(p, "starting") /\ Announce(p, "starting", "started", "poll")

\* The caller that launched waits for the end and then cleans up like a stop.
Poll(p) ==
  /\ Is(p, "poll") /\ Current(proc[p].op, Tok(p)) /\ WorkerSettled(Tok(p))
  /\ keeper[Tok(p)] = "gone"
  /\ proc' = [proc EXCEPT ![p].pc = IF Settled(Tok(p)) THEN "release" ELSE "settle",
                          ![p].cmd = "stop"]
  /\ UNCHANGED <<vars, exec, claim, lock, ltask, lcall, keeper, wtok, run>>

\* An error, a passed deadline or the end of the process, anywhere.
Leave(p) ==
  /\ ~Is(p, "idle") /\ proc' = [proc EXCEPT ![p] = Idle(p)]
  /\ lock' = IF lock = p THEN NoToken ELSE lock
  /\ UNCHANGED <<vars, exec, claim, ltask, lcall, keeper, wtok, run>>

\* Task Scheduler carries a launcher call out, or it fails.
LauncherCall(t) ==
  /\ lcall[t] # "none" /\ lcall' = [lcall EXCEPT ![t] = "none"]
  /\ \/ lcall[t] = "create" /\ ltask' = [ltask EXCEPT ![t] = TRUE] /\ UNCHANGED keeper
     \/ lcall[t] = "delete" /\ ltask' = [ltask EXCEPT ![t] = FALSE] /\ UNCHANGED keeper
     \/ /\ lcall[t] = "run" /\ ltask[t] /\ keeper[t] = "none"
        /\ keeper' = [keeper EXCEPT ![t] = "polling"] /\ UNCHANGED ltask
     \/ UNCHANGED <<ltask, keeper>>
  /\ UNCHANGED <<vars, exec, claim, lock, wtok, proc, run>>

-----------------------------------------------------------------------------
(* The keeper and its worker. *)

Keeps(t, pc) == keeper[t] = pc
KeeperTo(t, pc) == keeper' = [keeper EXCEPT ![t] = pc]
Ends(t, exit, mut, state, pub) ==
  /\ exec' = [exec EXCEPT ![t].exit = exit, ![t].mut = mut, ![t].state = state, ![t].pub = pub]
  /\ KeeperTo(t, "reported")

\* admitKeeper: it is recorded only while its execution is current, launched, not
\* cancelled and fenced.
AdmitKeeper(t) ==
  /\ Keeps(t, "polling") /\ Current(exec[t].op, t)
  /\ ~Terminal(t) /\ ~exec[t].owned /\ ~Has(t, "keeper") /\ ~exec[t].cancel
  /\ Has(t, "started") /\ ltask[t] /\ claim = t /\ ~run
  /\ Log(t, "keeper") /\ KeeperTo(t, "admitted")
  /\ UNCHANGED <<vars, claim, lock, ltask, lcall, wtok, proc, run>>

\* The worker was never created.
NotStarted(t) ==
  /\ Keeps(t, "admitted") /\ Ends(t, "not-started", "settled", "partial", "none")
  /\ UNCHANGED <<vars, claim, lock, ltask, lcall, wtok, proc, run>>

\* The suspended worker is published as the owned process before it runs.
Spawn(t) ==
  /\ Keeps(t, "admitted") /\ KeeperTo(t, "spawned")
  /\ exec' = [exec EXCEPT ![t].owned = TRUE]
  /\ UNCHANGED <<vars, claim, lock, ltask, lcall, wtok, proc, run>>

Resume(t) ==
  /\ Keeps(t, "spawned") /\ KeeperTo(t, "working")
  /\ UNCHANGED <<vars, exec, claim, lock, ltask, lcall, wtok, proc, run>>

\* The worker checks its own admission before it runs the installer.
WorkerBegins(t) ==
  /\ Keeps(t, "working") /\ wtok # t
  /\ Current(exec[t].op, t) /\ ~Terminal(t) /\ claim = t /\ ~run
  /\ Begin(exec[t].op) /\ wtok' = t
  /\ UNCHANGED <<exec, claim, lock, ltask, lcall, keeper, proc, run>>

\* The worker was aborted before it ran, failed its admission or was lost.
NoResult(t) ==
  \/ Keeps(t, "spawned")
  \/ Keeps(t, "working") /\ (wtok = t => w.pc \in {"idle", "stranded"})

\* Mutant: a lost worker is settled whatever the installation receipt says.
LostAny(t) ==
  /\ NoResult(t)
  /\ Ends(t, "tree-empty", "settled", "partial", "none")
  /\ UNCHANGED <<vars, claim, lock, ltask, lcall, wtok, proc, run>>

\* keepAdmitted: the process tree is empty and no result arrived.
Lost(t) ==
  /\ NoResult(t)
  /\ IF Unfinished(exec[t].op) THEN Ends(t, "tree-empty", "settled", "partial", "none")
     ELSE Ends(t, "tree-empty", "unknown", "none", "none")
  /\ UNCHANGED <<vars, claim, lock, ltask, lcall, wtok, proc, run>>

\* The worker reported and its process tree is empty.
Reported(t) ==
  /\ Keeps(t, "working") /\ wtok = t /\ w.pc = "done"
  /\ Ends(t, "tree-empty", w.mut, w.state, w.pub)
  /\ Go(IF w.mut = "settled" THEN "idle" ELSE "stranded")
  /\ UNCHANGED <<receipt, host, task, call, faults, claim, lock, ltask, lcall, wtok, proc, run>>

\* The keeper could not prove that the process tree is empty.
TreeUnknown(t) ==
  /\ keeper[t] \in {"spawned", "working"} /\ Ends(t, "unknown", "unknown", "none", "none")
  /\ UNCHANGED <<vars, claim, lock, ltask, lcall, wtok, proc, run>>

\* The keeper exits: done, refused, timed out or killed.
KeeperGone(t) ==
  /\ keeper[t] \in KeeperAlive /\ KeeperTo(t, "gone")
  /\ UNCHANGED <<vars, exec, claim, lock, ltask, lcall, wtok, proc, run>>

-----------------------------------------------------------------------------
(* The host's Runs, which respect the fence and the same locks (HostRun). *)

RunBegins ==
  /\ ~run /\ LocksFree /\ claim = NoToken /\ run' = TRUE
  /\ UNCHANGED <<vars, exec, claim, lock, ltask, lcall, keeper, wtok, proc>>
RunEnds ==
  /\ run /\ run' = FALSE
  /\ UNCHANGED <<vars, exec, claim, lock, ltask, lcall, keeper, wtok, proc>>

\* The installer's own steps.  The worker waits for the maintenance locks.
InstallerStep ==
  /\ \/ WorkerStep /\ (w.pc = "fence" => lock = NoToken /\ ~run)
     \/ SchedulerStep \/ Fail \/ Die \/ Tamper
  /\ UNCHANGED ownerVars

OwnerNext ==
  \/ \E p \in Procs :
       \/ \E o \in Ops : Apply(p, o)
       \/ \E t \in Tokens : Stop(p, t)
       \/ SettleLauncher(p) \/ AlreadyClean(p) \/ SubmitDelete(p) \/ Cleaned(p)
       \/ Preview(p) \/ ReleaseFence(p) \/ Admit(p) \/ MakeJournal(p) \/ PublishClaim(p)
       \/ PublishRequest(p) \/ LaunchStep(p) \/ Poll(p) \/ Leave(p)
  \/ \E t \in Tokens :
       \/ LauncherCall(t) \/ AdmitKeeper(t) \/ NotStarted(t) \/ Spawn(t) \/ Resume(t)
       \/ WorkerBegins(t) \/ Lost(t) \/ Reported(t) \/ TreeUnknown(t) \/ KeeperGone(t)
  \/ RunBegins \/ RunEnds \/ InstallerStep

OwnerSpec == OwnerInit /\ [][OwnerNext]_allVars

-----------------------------------------------------------------------------

\* The fence covers whoever can still change something: while a launcher call is
\* under way, a keeper lives, or a worker or its task call is not finished, the
\* fence names that execution and no Run has the host.
FenceCovers ==
  /\ \A t \in Tokens : lcall[t] # "none" \/ keeper[t] \in KeeperAlive => claim = t /\ ~run
  /\ (w.pc \in Active \/ call # "none") => claim = wtok /\ ~run

\* A settled execution is over, however its worker was lost: the worker is gone
\* and no call it made to Task Scheduler can take effect any more.
SettledTrue ==
  \A t \in Used : WorkerSettled(t) /\ wtok = t => w.pc \notin Active /\ call = "none"

\* The executions of an operation make one chain, whoever resumed them at the same
\* time, and only an unfinished one is followed.
OneChain ==
  /\ \A t, u \in Used : t # u /\ exec[t].op = exec[u].op => exec[t].pred # exec[u].pred
  /\ \A t \in Used : exec[t].pred # NoToken => Resumable(exec[t].pred)

\* The worker is the installer's: executions never overlap, and none starts after
\* one whose task call is unknown.
ImplementsInstaller == Init /\ [][Next]_vars

\* A stopped operation may be resumed once its execution has settled.
StopResumes ==
  \A o \in Ops, t \in Used :
    (exec[t].op = o /\ Settled(t) /\ Exists /\ receipt.op = o
       /\ \A u \in Used : exec[u].pred # t)
      => Resumable(t) \/ receipt.state \in {"installed", "removed"}
=============================================================================
