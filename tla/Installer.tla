------------------------------- MODULE Installer -------------------------------
(* The installer of internal/windowsinstall: one installation, its durable     *)
(* receipt, the runtime components and the Scheduled Task it owns.  A worker   *)
(* runs one operation (the install or a removal); it saves its intent in the   *)
(* receipt ahead of every change, may fail or die between any two steps, and   *)
(* is run again later.  Task Scheduler calls are submitted and take effect     *)
(* later, even after the worker is gone.  An administrator may change or       *)
(* replace what the installation owns, or put something of his own there.      *)
(*                                                                             *)
(* Who may start a worker, and when, is the setup owner's business: this       *)
(* specification only says that one worker runs at a time and that none starts *)
(* once the outcome of a task call is unknown.  SetupOwner implements that.    *)
EXTENDS Naturals, FiniteSets

CONSTANTS
  Components,     \* the planned paths below the installation directory
  Packages,       \* those below site-packages, sealed before first use
  Runtime,        \* the directory all other components are in
  Parent,         \* the directory each component is created in
  Install,        \* the install operation
  Removals,       \* the removal operations, one identity each
  NoPath, NoReceipt,
  Faults,         \* which of "fail", "die", "tamper" may happen
  MaxFaults       \* how many faults a behaviour may have

Task == "task"
Ops == {Install} \cup Removals
Paths == Components \cup {NoPath}
Pendings == {"none", "create", "seal", "create-task", "delete-task", "delete"}
States == {"prepared", "partial", "installed", "removing", "removed"}
Active == {"check", "fence", "prepare", "step", "create", "record", "seal", "task",
           "submit", "wait", "called", "delete", "deleted", "publish"}

Receipts == [op: Ops, state: States, files: SUBSET Components, sealed: BOOLEAN,
             finger: BOOLEAN, pend: Pendings, at: Paths, deleted: SUBSET (Components \cup {Task})]

Workers == [pc: Active \cup {"idle", "done", "stranded"}, op: Ops, at: Paths,
            state: {"none", "conflict"} \cup States, mut: {"none", "settled", "unknown"},
            pub: {"none", "failed", "published"}]

ASSUME InstallerAssumption ==
  /\ Packages \subseteq Components /\ Runtime \in Components
  /\ NoPath \notin Components /\ Task \notin Components
  /\ Parent \in [Components -> Paths]
  /\ Install \notin Removals /\ NoReceipt \notin Receipts
  /\ MaxFaults \in Nat

VARIABLES
  receipt,        \* the durable receipt.json, or NoReceipt
  dir,            \* the installation directory exists
  disk,           \* what is at each component's path
  stray,          \* somebody else's entry is in the runtime directory
  task,           \* the Scheduled Task of the installation's name
  call,           \* a Task Scheduler call submitted and not yet settled
  w,              \* the worker
  faults          \* faults left

host == <<dir, disk, stray>>
vars == <<receipt, dir, disk, stray, task, call, w, faults>>

TypeOK ==
  /\ receipt \in Receipts \cup {NoReceipt}
  /\ dir \in BOOLEAN /\ stray \in BOOLEAN
  /\ disk \in [Components -> {"absent", "made", "sealed", "foreign"}]
  /\ task \in {"absent", "owned", "foreign"}
  /\ call \in {"none", "create", "delete"}
  /\ w \in Workers
  /\ faults \in 0 .. MaxFaults

Init ==
  /\ receipt = NoReceipt /\ dir = FALSE /\ stray = FALSE
  /\ disk = [c \in Components |-> "absent"]
  /\ task = "absent" /\ call = "none"
  /\ w = [pc |-> "idle", op |-> Install, at |-> NoPath, state |-> "none", mut |-> "none",
          pub |-> "none"]
  /\ faults = MaxFaults

-----------------------------------------------------------------------------
(* What the installation owns, as its receipt says it. *)

Exists == receipt # NoReceipt
Pending(action) == Exists /\ receipt.pend = action
Present == {c \in Components : disk[c] # "absent"}
Owned == receipt.files \ receipt.deleted
Children(c) == {d \in Components : Parent[d] = c}

\* The object the receipt names: sealing changes the recorded identity.
Recorded(c) == IF receipt.sealed /\ c \in Packages THEN "sealed" ELSE "made"

\* observeFile and runtimeComponentCheck: the object is the recorded one, or a
\* package already sealed under a pending seal.
Intact(c) ==
  \/ disk[c] = Recorded(c)
  \/ receipt.pend = "seal" /\ c \in Packages /\ disk[c] = "sealed"

\* validateOwned: nothing else is in the runtime tree, what was deleted stays
\* away, and every owned component is intact.
FilesOwned ==
  /\ ~stray
  /\ Present \subseteq Owned \cup (IF receipt.pend = "create" THEN {receipt.at} ELSE {})
  /\ \A c \in Owned : \/ Intact(c)
                      \/ disk[c] = "absent" /\ receipt.pend = "delete" /\ receipt.at = c

\* The task is the recorded one, or one whose creation or deletion is pending.
TaskOwned ==
  /\ task # "absent" => /\ Exists /\ Task \notin receipt.deleted /\ task = "owned"
                        /\ receipt.finger \/ receipt.pend = "create-task"
  /\ (Exists /\ task = "absent" /\ receipt.finger /\ Task \notin receipt.deleted)
     => receipt.pend = "delete-task"

\* A receipt belongs to the operation that works on it; a removal of an
\* installation not yet being removed must be a new operation.
Identified(o) ==
  IF Exists /\ (o = Install \/ receipt.state \in {"removing", "removed"})
  THEN receipt.op = o
  ELSE Exists => receipt.op # o

\* Execute refuses before it has confirmed the plan ...
RefusedEarly(o) == ~Identified(o) \/ (~Exists /\ (o # Install \/ dir))
\* ... or after it.
RefusedLate(o) ==
  \/ ~TaskOwned
  \/ Exists /\ ~FilesOwned
  \/ Exists /\ o = Install /\ receipt.state \in {"removing", "removed"}

-----------------------------------------------------------------------------
(* The worker. *)

At(pc) == w.pc = pc
Go(pc) == w' = [w EXCEPT !.pc = pc]
GoAt(pc, c) == w' = [w EXCEPT !.pc = pc, !.at = c]
End(state, mut, pub) ==
  w' = [w EXCEPT !.pc = "done", !.state = state, !.mut = mut, !.pub = pub, !.at = NoPath]

Save(next) == receipt' = [next EXCEPT !.op = w.op]
SavePending(state, action, c) ==
  Save([receipt EXCEPT !.state = state, !.pend = action, !.at = c])
SaveDone(next) == Save([next EXCEPT !.pend = "none", !.at = NoPath])

\* The state Execute reports for an error, by where it happened.
ErrorState ==
  CASE At("check")  -> IF Exists THEN receipt.state ELSE "conflict"
    [] At("publish") -> "installed"
    [] OTHER -> IF ~Exists THEN "conflict"
                ELSE IF receipt.state = "removed" THEN "removed" ELSE "partial"
Error(mut) == End(ErrorState, mut, IF At("publish") THEN "failed" ELSE "none")

Begin(o) ==
  /\ w' = [pc |-> "check", op |-> o, at |-> NoPath, state |-> "none", mut |-> "none", pub |-> "none"]
  /\ UNCHANGED <<receipt, host, task, call, faults>>

Check ==
  /\ At("check") /\ ~RefusedEarly(w.op) /\ ~RefusedLate(w.op)
  /\ Go("fence")
  /\ UNCHANGED <<receipt, host, task, call, faults>>

Refuse ==
  /\ At("check")
  /\ \/ RefusedEarly(w.op) /\ End("partial", "settled", "none")
     \/ ~RefusedEarly(w.op) /\ RefusedLate(w.op) /\ Error("settled")
  /\ UNCHANGED <<receipt, host, task, call, faults>>

\* Under the maintenance locks everything is looked at again; a first install
\* makes its directory before its receipt.
Fence ==
  /\ At("fence")
  /\ \/ Exists /\ FilesOwned /\ Go("step") /\ UNCHANGED dir
     \/ Exists /\ ~FilesOwned /\ Error("settled") /\ UNCHANGED dir
     \/ ~Exists /\ task = "absent" /\ ~dir /\ dir' = TRUE /\ Go("prepare")
     \/ ~Exists /\ (task # "absent" \/ dir) /\ Error("settled") /\ UNCHANGED dir
  /\ UNCHANGED <<receipt, disk, stray, task, call, faults>>

Prepare ==
  /\ At("prepare")
  /\ receipt' = [op |-> w.op, state |-> "prepared", files |-> {}, sealed |-> FALSE,
                 finger |-> FALSE, pend |-> "none", at |-> NoPath, deleted |-> {}]
  /\ Go("step")
  /\ UNCHANGED <<host, task, call, faults>>

(* Installing. *)

Installing == At("step") /\ w.op = Install

\* The next component, parents first; a pending creation is finished first.
NextComponent(c) ==
  /\ c \notin receipt.files /\ Parent[c] \in receipt.files \cup {NoPath}
  /\ receipt.pend = "create" => receipt.at = c

\* Mutant: the component is created ahead of the receipt.
PlanCreateUnsaved(c) ==
  /\ Installing /\ NextComponent(c)
  /\ GoAt("create", c)
  /\ UNCHANGED <<receipt, host, task, call, faults>>

PlanCreate(c) ==
  /\ Installing /\ NextComponent(c)
  /\ \/ receipt.pend = "create" /\ GoAt("create", c) /\ UNCHANGED receipt
     \/ /\ receipt.pend # "create" /\ disk[c] = "absent"
        /\ SavePending("partial", "create", c) /\ GoAt("create", c)
     \/ /\ receipt.pend # "create" /\ disk[c] # "absent"
        /\ Error("settled") /\ UNCHANGED receipt
  /\ UNCHANGED <<host, task, call, faults>>

\* Mutant: a component that is there already is a collision.
CreateNew ==
  /\ At("create") /\ disk[w.at] = "absent"
  /\ disk' = [disk EXCEPT ![w.at] = "made"] /\ Go("record")
  /\ UNCHANGED <<receipt, dir, stray, task, call, faults>>

Create ==
  /\ At("create")
  /\ disk' = IF disk[w.at] = "absent" THEN [disk EXCEPT ![w.at] = "made"] ELSE disk
  /\ Go("record")
  /\ UNCHANGED <<receipt, dir, stray, task, call, faults>>

Record ==
  /\ At("record")
  /\ \/ /\ disk[w.at] = "made"
        /\ SaveDone([receipt EXCEPT !.files = @ \cup {w.at}]) /\ GoAt("step", NoPath)
     \/ disk[w.at] # "made" /\ Error("settled") /\ UNCHANGED receipt
  /\ UNCHANGED <<host, task, call, faults>>

\* Also the removal of an installation whose seal was interrupted.
PlanSeal ==
  /\ At("step") /\ ~receipt.sealed
  /\ \/ /\ w.op = Install /\ receipt.files = Components /\ receipt.pend = "none"
        /\ \/ FilesOwned /\ SavePending("partial", "seal", NoPath) /\ Go("seal")
           \/ ~FilesOwned /\ Error("settled") /\ UNCHANGED receipt
     \/ /\ receipt.pend = "seal" /\ UNCHANGED receipt
        /\ IF FilesOwned THEN Go("seal") ELSE Error("settled")
  /\ UNCHANGED <<host, task, call, faults>>

SealOne(c) ==
  /\ At("seal") /\ c \in Packages
  /\ \/ disk[c] = "made" /\ disk' = [disk EXCEPT ![c] = "sealed"] /\ UNCHANGED w
     \/ disk[c] \in {"absent", "foreign"} /\ Error("settled") /\ UNCHANGED disk
  /\ UNCHANGED <<receipt, dir, stray, task, call, faults>>

CommitSeal ==
  /\ At("seal") /\ \A c \in Packages : disk[c] = "sealed"
  /\ \/ FilesOwned /\ SaveDone([receipt EXCEPT !.sealed = TRUE]) /\ Go("step")
     \/ ~FilesOwned /\ Error("settled") /\ UNCHANGED receipt
  /\ UNCHANGED <<host, task, call, faults>>

\* The daemon probe runs in the sealed runtime.
Probe ==
  /\ Installing /\ receipt.files = Components /\ receipt.sealed
  /\ Go("task")
  /\ UNCHANGED <<receipt, host, task, call, faults>>

PlanTask ==
  /\ At("task")
  /\ \/ /\ ~receipt.finger /\ receipt.pend # "create-task" /\ task = "absent"
        /\ SavePending(receipt.state, "create-task", NoPath) /\ Go("submit")
     \/ /\ ~receipt.finger /\ receipt.pend = "create-task"
        /\ Go(IF task = "absent" THEN "submit" ELSE "called") /\ UNCHANGED receipt
     \/ /\ receipt.finger /\ task = "owned"
        /\ Save([receipt EXCEPT !.state = "installed"]) /\ Go("publish")
     \/ /\ IF receipt.finger THEN task # "owned"
           ELSE receipt.pend # "create-task" /\ task # "absent"
        /\ Error("settled") /\ UNCHANGED receipt
  /\ UNCHANGED <<host, task, call, faults>>

(* Task Scheduler calls. *)

Submit ==
  /\ At("submit")
  /\ call' = IF w.op = Install THEN "create" ELSE "delete"
  /\ Go("wait")
  /\ UNCHANGED <<receipt, host, task, faults>>

\* The scheduler carries the call out, also for a worker that is gone ...
Applies ==
  /\ \/ call = "create" /\ task = "absent" /\ task' = "owned"
     \/ call = "delete" /\ task = "owned" /\ task' = "absent"
  /\ call' = "none"
  /\ IF At("wait") THEN Go("called") ELSE UNCHANGED w
  /\ UNCHANGED <<receipt, host, faults>>

\* ... or refuses: the task is not as the call requires it.
Rejects ==
  /\ (call = "create" /\ task # "absent") \/ (call = "delete" /\ task # "owned")
  /\ call' = "none"
  /\ IF At("wait") THEN Error("unknown") ELSE UNCHANGED w
  /\ UNCHANGED <<receipt, host, task, faults>>

Called ==
  /\ At("called")
  /\ \/ /\ w.op = Install /\ task = "owned"
        /\ SaveDone([receipt EXCEPT !.finger = TRUE, !.state = "installed"]) /\ Go("publish")
     \/ /\ w.op # Install /\ task = "absent"
        /\ SaveDone([receipt EXCEPT !.deleted = @ \cup {Task}]) /\ Go("step")
     \/ /\ task # (IF w.op = Install THEN "owned" ELSE "absent")
        /\ Error("settled") /\ UNCHANGED receipt
  /\ UNCHANGED <<host, task, call, faults>>

\* PublishTarget: the last step of the worker.
Publish ==
  /\ At("publish") /\ End("installed", "settled", "published")
  /\ UNCHANGED <<receipt, host, task, call, faults>>

(* Removing. *)

Removing == At("step") /\ w.op # Install /\ receipt.pend # "seal"

TaskConflict ==
  task # "absent" /\ (Task \in receipt.deleted \/ task = "foreign" \/ ~receipt.finger)
TaskLeft == task # "absent" \/ (receipt.finger /\ Task \notin receipt.deleted)

Removed ==
  /\ Removing /\ receipt.state = "removed"
  /\ IF task = "absent" THEN End("removed", "settled", "none") ELSE Error("settled")
  /\ UNCHANGED <<receipt, host, task, call, faults>>

RefuseTask ==
  /\ Removing /\ receipt.state # "removed"
  /\ \/ TaskConflict
     \/ task = "absent" /\ TaskLeft /\ receipt.pend \notin {"create", "create-task", "delete-task"}
  /\ Error("settled")
  /\ UNCHANGED <<receipt, host, task, call, faults>>

\* A creation that never happened is given up; one that did is left alone.
DropPending ==
  /\ Removing /\ ~TaskConflict /\ receipt.pend \in {"create", "create-task"}
  /\ \/ /\ receipt.pend = "create" /\ disk[receipt.at] # "absent"
        /\ Error("settled") /\ UNCHANGED receipt
     \/ /\ receipt.pend = "create" => disk[receipt.at] = "absent"
        /\ SaveDone([receipt EXCEPT !.state = "removing"]) /\ UNCHANGED w
  /\ UNCHANGED <<host, task, call, faults>>

PlanTaskRemoval ==
  /\ Removing /\ receipt.state # "removed" /\ ~TaskConflict
  /\ receipt.pend \notin {"create", "create-task"} /\ TaskLeft
  /\ task = "absent" => receipt.pend = "delete-task"
  /\ SavePending("removing", "delete-task", NoPath)
  /\ Go(IF task = "absent" THEN "called" ELSE "submit")
  /\ UNCHANGED <<host, task, call, faults>>

FilesTurn ==
  /\ Removing /\ receipt.state # "removed" /\ ~TaskConflict /\ ~TaskLeft
  /\ receipt.pend \notin {"create", "create-task"}

\* The next file, leaves first; a pending deletion is finished first.
NextRemoval(c) ==
  /\ c \in Owned /\ Children(c) \cap Owned = {}
  /\ receipt.pend = "delete" => receipt.at = c
Empty(c) == Children(c) \cap Present = {} /\ (c = Runtime => ~stray)

PlanRemoval(c) ==
  /\ FilesTurn /\ NextRemoval(c)
  /\ \/ /\ \/ disk[c] = Recorded(c) /\ Empty(c)
           \/ disk[c] = "absent" /\ receipt.pend = "delete"
        /\ SavePending("removing", "delete", c) /\ GoAt("delete", c)
     \/ /\ \/ disk[c] \notin {"absent", Recorded(c)}
           \/ disk[c] = "absent" /\ receipt.pend # "delete"
           \/ disk[c] = Recorded(c) /\ ~Empty(c)
        /\ Error("settled") /\ UNCHANGED receipt
  /\ UNCHANGED <<host, task, call, faults>>

\* removeOwnedFile checks identity, ACL and bytes on the handle it deletes by.
Delete ==
  /\ At("delete")
  /\ \/ disk[w.at] = "absent" /\ Go("deleted") /\ UNCHANGED disk
     \/ /\ disk[w.at] = Recorded(w.at) /\ Empty(w.at)
        /\ disk' = [disk EXCEPT ![w.at] = "absent"] /\ Go("deleted")
     \/ /\ disk[w.at] # "absent" /\ (disk[w.at] # Recorded(w.at) \/ ~Empty(w.at))
        /\ Error("settled") /\ UNCHANGED disk
  /\ UNCHANGED <<receipt, dir, stray, task, call, faults>>

Deleted ==
  /\ At("deleted")
  /\ SaveDone([receipt EXCEPT !.deleted = @ \cup {w.at}]) /\ GoAt("step", NoPath)
  /\ UNCHANGED <<host, task, call, faults>>

Finish ==
  /\ FilesTurn /\ Owned = {}
  /\ \/ /\ disk[Runtime] = "absent" /\ SaveDone([receipt EXCEPT !.state = "removed"])
        /\ End("removed", "settled", "none")
     \/ disk[Runtime] # "absent" /\ Error("settled") /\ UNCHANGED receipt
  /\ UNCHANGED <<host, task, call, faults>>

-----------------------------------------------------------------------------
(* Faults.  A failed command, a full disk, a cancelled context or a passed     *)
(* deadline ends the worker with an error anywhere.  The outcome is unknown    *)
(* when the error is a task call's or a command's process tree did not settle. *)
(* Before the plan is confirmed an error settles as partial.                   *)

Fail ==
  /\ "fail" \in Faults /\ faults > 0 /\ w.pc \in Active
  /\ \/ Error("unknown")
     \/ ~At("submit") /\ ~At("wait") /\ Error("settled")
     \/ At("check") /\ End("partial", "settled", "none")
  /\ faults' = faults - 1
  /\ UNCHANGED <<receipt, host, task, call>>

\* Mutant: a pending task change is not looked at.
UnfinishedAnyCall(o) ==
  Exists /\ receipt.state # (IF o = Install THEN "installed" ELSE "removed")

\* unfinishedWithoutTaskMutation: what the receipt of a worker that ended without
\* a result says of its task call.  No receipt, a pending task change or a
\* finished operation leaves it unknown.
Unfinished(o) ==
  /\ Exists /\ receipt.pend \notin {"create-task", "delete-task"}
  /\ receipt.state # (IF o = Install THEN "installed" ELSE "removed")

Die ==
  /\ "die" \in Faults /\ faults > 0 /\ w.pc \in Active
  /\ Go(IF Unfinished(w.op) THEN "idle" ELSE "stranded")
  /\ faults' = faults - 1
  /\ UNCHANGED <<receipt, host, task, call>>

Tamper ==
  /\ "tamper" \in Faults /\ faults > 0 /\ faults' = faults - 1
  /\ \/ /\ \E c \in Components :
             /\ \/ disk[c] \in {"made", "sealed"}
                \/ disk[c] = "absent" /\ dir /\ (Parent[c] = NoPath \/ Parent[c] \in Present)
             /\ disk' = [disk EXCEPT ![c] = "foreign"]
        /\ UNCHANGED <<task, stray>>
     \/ /\ task' \in (IF task = "owned" THEN {"foreign", "absent"} ELSE {"foreign"})
        /\ UNCHANGED <<disk, stray>>
     \/ /\ disk[Runtime] # "absent" /\ ~stray /\ stray' = TRUE /\ UNCHANGED <<task, disk>>
  /\ UNCHANGED <<receipt, dir, call, w>>

-----------------------------------------------------------------------------
(* The setup owner, as the installer relies on it. *)

Start(o) == At("idle") /\ Begin(o)
Settle ==
  /\ At("done") /\ Go(IF w.mut = "settled" THEN "idle" ELSE "stranded")
  /\ UNCHANGED <<receipt, host, task, call, faults>>

WorkerStep ==
  \/ Check \/ Refuse \/ Fence \/ Prepare
  \/ \E c \in Components : PlanCreate(c) \/ SealOne(c) \/ PlanRemoval(c)
  \/ Create \/ Record \/ PlanSeal \/ CommitSeal \/ Probe \/ PlanTask \/ Submit \/ Called
  \/ Publish \/ Removed \/ RefuseTask \/ DropPending \/ PlanTaskRemoval \/ Delete
  \/ Deleted \/ Finish
SchedulerStep == Applies \/ Rejects

Next ==
  \/ \E o \in Ops : Start(o)
  \/ Settle \/ WorkerStep \/ SchedulerStep \/ Fail \/ Die \/ Tamper

Spec == Init /\ [][Next]_vars
FairSpec == Spec /\ WF_vars(WorkerStep) /\ WF_vars(SchedulerStep) /\ WF_vars(Settle)
                 /\ \A o \in Ops : SF_vars(Start(o))

-----------------------------------------------------------------------------
(* What goes on the host is on record: a component or a task that setup made   *)
(* is owned by the receipt, or is the one its pending change is about.         *)
OnRecord ==
  /\ \A c \in Components : disk[c] \in {"made", "sealed"} =>
       Exists /\ (c \in Owned \/ (receipt.pend = "create" /\ receipt.at = c))
  /\ (task = "owned" \/ call = "create") =>
       Exists /\ (receipt.pend = "create-task" \/ (receipt.finger /\ Task \notin receipt.deleted))

(* A finished receipt is true: installed means every component is still there, *)
(* packages only sealed, unless somebody replaced it; removed means nothing    *)
(* setup made is left and no task call is under way.                           *)
FinishedTrue ==
  /\ (Exists /\ receipt.state = "installed") =>
       \A c \in Components : disk[c] = "foreign" \/ (disk[c] = Recorded(c) /\ receipt.sealed)
  /\ (Exists /\ receipt.state = "removed") =>
       /\ \A c \in Components : disk[c] \in {"absent", "foreign"}
       /\ call = "none" /\ task # "owned"

(* A removal that has begun can be repeated under its own identity.            *)
RemovalRepeats ==
  (Exists /\ receipt.op \in Removals) => receipt.state \in {"removing", "removed"}

\* An operation interrupted anywhere is brought to its end by repeating it, or by a
\* removal, unless a task call's outcome is unknown, the first receipt was never
\* written, or somebody put something of his own among what setup owns.
Converges ==
  <>[](\/ Exists /\ receipt.state \in {"installed", "removed"}
       \/ At("stranded") \/ (~Exists /\ dir)
       \/ stray \/ (\E c \in Components : disk[c] = "foreign") \/ ~TaskOwned)
=============================================================================
