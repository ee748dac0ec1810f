---------------------------- MODULE Installer_proof ----------------------------
(* Proofs about Installer, for any components, packages and removals, and any  *)
(* number of faults: types, OnRecord and FinishedTrue.                         *)
(*                                                                             *)
(* What TLC checks of the receipt and the host is not inductive by itself: it  *)
(* needs to be known which changes a receipt may have pending in each phase of *)
(* an installation (Phases), what the object of an owned path can be (Kept),   *)
(* which receipt each step of the worker has before it (Working), and that a   *)
(* task call in flight is covered by a pending change (Calls).                 *)
EXTENDS Installer, TLAPS

Inside == {"step", "create", "record", "seal", "task", "submit", "wait", "called",
           "delete", "deleted"}

\* The phases of a receipt: components, seal, task, removal.
Phases ==
  Exists =>
    /\ receipt.op = Install => /\ receipt.deleted = {}
                               /\ receipt.state \in {"prepared", "partial", "installed"}
                               /\ receipt.pend \notin {"delete", "delete-task"}
    /\ receipt.sealed => receipt.files = Components
    /\ receipt.finger => receipt.sealed
    /\ receipt.pend = "create" => receipt.at \in Components \ receipt.files
    /\ receipt.pend = "seal" => receipt.files = Components /\ ~receipt.sealed
    /\ receipt.pend = "create-task" => receipt.sealed /\ ~receipt.finger
    /\ receipt.pend = "delete" => /\ receipt.at \in Components
                                  /\ receipt.finger => Task \in receipt.deleted
    /\ receipt.state = "installed" => receipt.op = Install /\ receipt.finger /\ receipt.pend = "none"
    /\ receipt.state = "removed" => receipt.pend = "none"

\* Nobody but an administrator replaces an owned object.
Kept ==
  Exists => \A c \in Owned :
    \/ disk[c] \in {"foreign", Recorded(c)}
    \/ receipt.pend = "seal" /\ c \in Packages /\ disk[c] = "sealed"
    \/ receipt.pend = "delete" /\ receipt.at = c /\ disk[c] = "absent"

\* What each step of the worker finds in the receipt.
Working ==
  /\ w.pc \in Inside => Exists
  /\ w.pc \in {"fence", "prepare"} \cup Inside /\ w.op = Install /\ Exists => receipt.op = Install
  /\ w.pc = "fence" /\ ~Exists => w.op = Install
  /\ w.pc = "prepare" => ~Exists /\ w.op = Install
  /\ w.pc \in {"create", "record"} => /\ w.op = Install /\ receipt.pend = "create"
                                      /\ receipt.at = w.at
  /\ w.pc = "seal" => receipt.pend = "seal"
  /\ w.pc = "task" => w.op = Install /\ receipt.sealed
  /\ w.pc \in {"submit", "wait", "called"} =>
       receipt.pend = IF w.op = Install THEN "create-task" ELSE "delete-task"
  /\ w.pc \in {"delete", "deleted"} => /\ w.op # Install /\ receipt.pend = "delete"
                                       /\ receipt.at = w.at
  /\ w.pc = "deleted" => disk[w.at] \notin {"made", "sealed"}

\* A task call in flight is the one the receipt has pending, and a worker that left
\* it behind is the last one.
Calls ==
  call # "none" =>
    /\ Exists /\ receipt.pend = IF call = "create" THEN "create-task" ELSE "delete-task"
    /\ \/ w.pc \in {"wait", "stranded"}
       \/ w.pc = "done" /\ w.mut = "unknown"

\* A removed installation has left nothing behind.
Gone ==
  Exists /\ receipt.state = "removed" =>
    (\A c \in Components : disk[c] \in {"absent", "foreign"}) /\ task # "owned"

Inv == TypeOK /\ Phases /\ Kept /\ Working /\ Calls /\ Gone /\ OnRecord

-----------------------------------------------------------------------------

\* The effects of the helpers on records.
LEMMA Received == ASSUME TypeOK, Exists PROVE receipt \in Receipts
BY DEF TypeOK, Exists

LEMMA ErrorEffect ==
  ASSUME TypeOK, NEW mut \in {"settled", "unknown"}, Error(mut)
  PROVE  w' \in Workers /\ w'.pc = "done" /\ w'.op = w.op /\ w'.mut = mut
<1>1. ErrorState \in {"none", "conflict"} \cup States
  BY Received DEF ErrorState, At, Receipts, States
<1>2. w \in Workers
  BY DEF TypeOK
<1>3. w' = [w EXCEPT !.pc = "done", !.state = ErrorState, !.mut = mut,
                     !.pub = IF At("publish") THEN "failed" ELSE "none", !.at = NoPath]
  BY DEF Error, End
<1> QED
  BY <1>1, <1>2, <1>3 DEF Workers, Paths

LEMMA GoEffect ==
  ASSUME TypeOK, NEW pc \in Active \cup {"idle", "done", "stranded"}, Go(pc)
  PROVE  w' \in Workers /\ w'.pc = pc /\ w'.op = w.op /\ w'.at = w.at /\ w'.mut = w.mut
<1> w \in Workers /\ w' = [w EXCEPT !.pc = pc]
  BY DEF TypeOK, Go
<1> QED
  BY DEF Workers

LEMMA GoAtEffect ==
  ASSUME TypeOK, NEW pc \in Active, NEW c \in Paths, GoAt(pc, c)
  PROVE  w' \in Workers /\ w'.pc = pc /\ w'.op = w.op /\ w'.at = c
<1> w \in Workers /\ w' = [w EXCEPT !.pc = pc, !.at = c]
  BY DEF TypeOK, GoAt
<1> QED
  BY DEF Workers

LEMMA EndEffect ==
  ASSUME TypeOK, NEW state \in States, NEW mut \in {"settled", "unknown"},
         NEW pub \in {"none", "failed", "published"}, End(state, mut, pub)
  PROVE  w' \in Workers /\ w'.pc = "done" /\ w'.op = w.op /\ w'.mut = mut
<1> w \in Workers /\ w' = [w EXCEPT !.pc = "done", !.state = state, !.mut = mut,
                                     !.pub = pub, !.at = NoPath]
  BY DEF TypeOK, End
<1> QED
  BY DEF Workers, Paths

LEMMA SaveEffect ==
  ASSUME TypeOK, NEW next \in Receipts, Save(next)
  PROVE  /\ receipt' \in Receipts /\ Exists'
         /\ receipt'.op = w.op /\ receipt'.state = next.state /\ receipt'.files = next.files
         /\ receipt'.sealed = next.sealed /\ receipt'.finger = next.finger
         /\ receipt'.pend = next.pend /\ receipt'.at = next.at
         /\ receipt'.deleted = next.deleted
<1> receipt' = [next EXCEPT !.op = w.op] /\ w.op \in Ops
  BY DEF TypeOK, Save, Workers
<1> QED
  BY InstallerAssumption DEF Receipts, Exists

LEMMA SavePendingEffect ==
  ASSUME TypeOK, Exists, NEW state \in States, NEW action \in Pendings, NEW c \in Paths,
         SavePending(state, action, c)
  PROVE  /\ receipt' \in Receipts /\ Exists'
         /\ receipt'.op = w.op /\ receipt'.state = state /\ receipt'.files = receipt.files
         /\ receipt'.sealed = receipt.sealed /\ receipt'.finger = receipt.finger
         /\ receipt'.pend = action /\ receipt'.at = c /\ receipt'.deleted = receipt.deleted
<1> DEFINE next == [receipt EXCEPT !.state = state, !.pend = action, !.at = c]
<1>1. receipt \in Receipts
  BY Received
<1>2. /\ next \in Receipts /\ next.state = state /\ next.pend = action /\ next.at = c
      /\ next.files = receipt.files /\ next.sealed = receipt.sealed
      /\ next.finger = receipt.finger /\ next.deleted = receipt.deleted
  BY <1>1 DEF Receipts
<1>3. Save(next)
  BY DEF SavePending
<1> HIDE DEF next
<1> QED
  BY <1>2, <1>3, SaveEffect

LEMMA SaveDoneEffect ==
  ASSUME TypeOK, NEW next \in Receipts, SaveDone(next)
  PROVE  /\ receipt' \in Receipts /\ Exists'
         /\ receipt'.op = w.op /\ receipt'.state = next.state /\ receipt'.files = next.files
         /\ receipt'.sealed = next.sealed /\ receipt'.finger = next.finger
         /\ receipt'.pend = "none" /\ receipt'.deleted = next.deleted
<1> DEFINE done == [next EXCEPT !.pend = "none", !.at = NoPath]
<1>1. /\ done \in Receipts /\ done.pend = "none" /\ done.state = next.state
      /\ done.files = next.files /\ done.sealed = next.sealed /\ done.finger = next.finger
      /\ done.deleted = next.deleted
  BY DEF Receipts, Pendings, Paths
<1>2. Save(done)
  BY DEF SaveDone
<1> HIDE DEF done
<1> QED
  BY <1>1, <1>2, SaveEffect

-----------------------------------------------------------------------------

\* Steps that change nothing but where the worker is.
LEMMA Moved ==
  ASSUME Inv, UNCHANGED <<receipt, disk, task, call>>, Working', Calls',
         dir' \in BOOLEAN, stray' \in BOOLEAN, faults' \in 0 .. MaxFaults, w' \in Workers
  PROVE  Inv'
<1>1. TypeOK' /\ Phases' /\ Gone' /\ OnRecord'
  BY DEF Inv, TypeOK, Phases, Gone, OnRecord, Exists, Owned
<1>2. Kept'
  BY DEF Inv, Kept, Exists, Owned, Recorded
<1> QED
  BY <1>1, <1>2 DEF Inv

\* A step that ends with an error: a call in flight makes the outcome unknown.
LEMMA Stopped ==
  ASSUME Inv, UNCHANGED <<receipt, host, task, call>>, faults' \in 0 .. MaxFaults,
         w' \in Workers, w'.pc = "done", w'.mut = "unknown" \/ call = "none"
  PROVE  Inv'
<1>1. Working'
  BY DEF Working, Inside
<1>2. Calls'
  BY DEF Inv, Calls, Exists, host
<1> QED
  BY <1>1, <1>2, Moved DEF Inv, TypeOK, host

LEMMA Idling == ASSUME Inv, w.pc \notin {"wait", "stranded", "done"} PROVE call = "none"
BY DEF Inv, Calls

LEMMA ErrorStep ==
  ASSUME Inv, Error("settled"), w.pc \notin {"wait", "stranded", "done"},
         UNCHANGED <<receipt, host, task, call, faults>>
  PROVE  Inv'
<1>1. w' \in Workers /\ w'.pc = "done"
  BY ErrorEffect DEF Inv
<1>2. call = "none"
  BY Idling
<1> QED
  BY <1>1, <1>2, Stopped DEF Inv, TypeOK

\* Steps from one place inside to another.
LEMMA WorkerStays ==
  ASSUME Inv, w.pc \notin {"wait", "stranded", "done"}, w' \in Workers, Working',
         UNCHANGED <<receipt, host, task, call, faults>>
  PROVE  Inv'
<1>1. call = "none"
  BY Idling
<1>2. Calls'
  BY <1>1 DEF Calls
<1> QED
  BY <1>2, Moved DEF Inv, TypeOK, host

LEMMA StartStep == ASSUME Inv, NEW o \in Ops, Start(o) PROVE Inv'
<1>1. w.pc = "idle"
  BY DEF Start, At
<1>2. w' \in Workers /\ w'.pc = "check"
  BY DEF Start, Begin, Workers, Active, Paths
<1>3. Working'
  BY <1>2 DEF Working, Inside
<1> QED
  BY <1>1, <1>2, <1>3, WorkerStays DEF Start, Begin

LEMMA SettleStep == ASSUME Inv, Settle PROVE Inv'
<1>1. w.pc = "done" /\ w' \in Workers
      /\ w'.pc = (IF w.mut = "settled" THEN "idle" ELSE "stranded")
  BY GoEffect DEF Inv, Settle, At
<1>2. Working'
  BY <1>1 DEF Working, Inside
<1>3. Calls'
  BY <1>1 DEF Inv, Calls, Settle, Exists
<1> QED
  BY <1>1, <1>2, <1>3, Moved DEF Inv, TypeOK, Settle, host

LEMMA CheckStep == ASSUME Inv, Check PROVE Inv'
<1>1. w.pc = "check" /\ w' \in Workers /\ w'.pc = "fence" /\ w'.op = w.op
  BY GoEffect DEF Inv, Check, At, Active
<1>2. Working'
  BY <1>1 DEF Inv, Working, Inside, Check, RefusedEarly, Identified, Exists
<1> QED
  BY <1>1, <1>2, WorkerStays DEF Check

LEMMA RefuseStep == ASSUME Inv, Refuse PROVE Inv'
<1>1. w.pc = "check"
  BY DEF Refuse, At
<1>2. CASE End("partial", "settled", "none")
  <2>1. w' \in Workers /\ w'.pc = "done"
    BY <1>2, EndEffect DEF Inv, States
  <2> QED
    BY <1>1, <2>1, Idling, Stopped DEF Refuse, Inv, TypeOK
<1>3. CASE Error("settled")
  BY <1>1, <1>3, ErrorStep DEF Refuse
<1> QED
  BY <1>2, <1>3 DEF Refuse

LEMMA FenceStep == ASSUME Inv, Fence PROVE Inv'
<1>1. w.pc = "fence"
  BY DEF Fence, At
<1>2. CASE Error("settled") /\ UNCHANGED dir
  BY <1>1, <1>2, ErrorStep DEF Fence, host
<1>3. CASE Exists /\ Go("step") /\ UNCHANGED dir
  <2>1. w' \in Workers /\ w'.pc = "step" /\ w'.op = w.op
    BY <1>3, GoEffect DEF Inv, Active
  <2>2. Working'
    BY <1>1, <1>3, <2>1 DEF Inv, Working, Inside, Fence, Exists
  <2> QED
    BY <1>1, <1>3, <2>1, <2>2, WorkerStays DEF Fence, host
<1>4. CASE ~Exists /\ dir' = TRUE /\ Go("prepare")
  <2>1. w' \in Workers /\ w'.pc = "prepare" /\ w'.op = w.op
    BY <1>4, GoEffect DEF Inv, Active
  <2>2. Working'
    BY <1>1, <1>4, <2>1 DEF Inv, Working, Inside, Fence, Exists
  <2>3. Calls'
    BY <1>1, Idling DEF Fence, Calls
  <2> QED
    BY <1>4, <2>1, <2>2, <2>3, Moved DEF Fence, Inv, TypeOK
<1> QED
  BY <1>2, <1>3, <1>4 DEF Fence

LEMMA PrepareStep == ASSUME Inv, Prepare PROVE Inv'
<1>1. w.pc = "prepare" /\ w' \in Workers /\ w'.pc = "step" /\ w'.op = w.op /\ w.op = Install
      /\ ~Exists /\ call = "none" /\ w.op \in Ops
  BY GoEffect, Idling DEF Inv, TypeOK, Workers, Prepare, At, Active, Working
<1>2. /\ receipt' \in Receipts /\ Exists' /\ receipt'.op = Install /\ receipt'.state = "prepared"
      /\ receipt'.files = {} /\ receipt'.deleted = {} /\ receipt'.pend = "none"
      /\ receipt'.sealed = FALSE /\ receipt'.finger = FALSE
  <2>1. receipt' = [op |-> w.op, state |-> "prepared", files |-> {}, sealed |-> FALSE,
                    finger |-> FALSE, pend |-> "none", at |-> NoPath, deleted |-> {}]
    BY DEF Prepare
  <2>2. receipt' \in Receipts
    BY <1>1, <2>1 DEF Receipts, States, Pendings, Paths
  <2> QED
    BY <1>1, <2>1, <2>2, InstallerAssumption DEF Exists
<1>3. TypeOK'
  BY <1>1, <1>2 DEF Inv, TypeOK, Prepare, host
<1>4. Phases' /\ Kept' /\ Gone'
  BY <1>2 DEF Phases, Kept, Gone, Owned
<1>5. Working' /\ Calls'
  BY <1>1, <1>2 DEF Working, Calls, Inside, Prepare
<1>6. OnRecord'
  BY <1>1 DEF Inv, OnRecord, Prepare, host
<1> QED
  BY <1>3, <1>4, <1>5, <1>6 DEF Inv

\* Steps that save a receipt and leave the host alone.
LEMMA Saved ==
  ASSUME Inv, w.pc \notin {"wait", "stranded", "done"}, receipt' \in Receipts, w' \in Workers,
         UNCHANGED <<host, task, call, faults>>,
         Phases', Kept', Working', Gone', OnRecord'
  PROVE  Inv'
<1>1. call' = "none"
  BY Idling
<1>2. Calls'
  BY <1>1 DEF Calls
<1> QED
  BY <1>2 DEF Inv, TypeOK, host

LEMMA PlanCreateStep == ASSUME Inv, NEW c \in Components, PlanCreate(c) PROVE Inv'
<1>1. /\ w.pc = "step" /\ w.op = Install /\ Exists /\ receipt \in Receipts
      /\ receipt.op = Install /\ c \notin receipt.files /\ c \in Paths
  BY Received DEF Inv, PlanCreate, Installing, NextComponent, At, Working, Inside, Paths
<1>2. CASE Error("settled") /\ UNCHANGED receipt
  BY <1>1, <1>2, ErrorStep DEF PlanCreate
<1>3. CASE receipt.pend = "create" /\ GoAt("create", c) /\ UNCHANGED receipt
  <2>1. w' \in Workers /\ w'.pc = "create" /\ w'.op = w.op /\ w'.at = c
    BY <1>1, <1>3, GoAtEffect DEF Inv, Active
  <2>2. Working'
    BY <1>1, <1>3, <2>1 DEF Working, Inside, Exists, PlanCreate, NextComponent
  <2> QED
    BY <1>1, <1>3, <2>1, <2>2, WorkerStays DEF PlanCreate
<1>4. CASE /\ receipt.pend # "create" /\ disk[c] = "absent"
           /\ SavePending("partial", "create", c) /\ GoAt("create", c)
  <2>1. w' \in Workers /\ w'.pc = "create" /\ w'.op = w.op /\ w'.at = c
    BY <1>1, <1>4, GoAtEffect DEF Inv, Active
  <2>2. /\ receipt' \in Receipts /\ Exists' /\ receipt'.op = w.op /\ receipt'.state = "partial"
        /\ receipt'.files = receipt.files /\ receipt'.sealed = receipt.sealed
        /\ receipt'.finger = receipt.finger /\ receipt'.pend = "create" /\ receipt'.at = c
        /\ receipt'.deleted = receipt.deleted
    BY <1>1, <1>4, SavePendingEffect DEF Inv, States, Pendings
  <2>3. receipt.pend = "none" /\ ~receipt.sealed
    BY <1>1, <1>4 DEF Inv, Phases, Receipts, Pendings
  <2>4. UNCHANGED <<host, task, call, faults>> /\ UNCHANGED <<disk, dir, stray>>
    BY DEF PlanCreate, host
  <2>5. Phases' /\ Gone'
    BY <1>1, <2>2, <2>3 DEF Inv, Phases, Gone
  <2>6. Working'
    BY <1>1, <2>1, <2>2 DEF Working, Inside
  <2>7. Kept'
    BY <1>1, <2>2, <2>3, <2>4 DEF Inv, Kept, Owned, Recorded
  <2>8. OnRecord'
    BY <1>1, <2>2, <2>3, <2>4 DEF Inv, OnRecord, Owned
  <2> QED
    BY <1>1, <2>1, <2>2, <2>4, <2>5, <2>6, <2>7, <2>8, Saved
<1> QED
  BY <1>2, <1>3, <1>4 DEF PlanCreate

LEMMA CreateStep == ASSUME Inv, Create PROVE Inv'
<1>1. /\ w.pc = "create" /\ w.op = Install /\ Exists /\ receipt \in Receipts /\ w.at \in Components
      /\ receipt.pend = "create" /\ receipt.at = w.at /\ w.at \notin receipt.files
      /\ w' \in Workers /\ w'.pc = "record" /\ w'.op = w.op /\ w'.at = w.at /\ call = "none"
      /\ receipt.state # "removed"
  BY Received, GoEffect, Idling DEF Inv, Create, At, Working, Inside, Phases, Active
<1>2. /\ disk \in [Components -> {"absent", "made", "sealed", "foreign"}]
      /\ disk' = IF disk[w.at] = "absent" THEN [disk EXCEPT ![w.at] = "made"] ELSE disk
      /\ UNCHANGED <<receipt, dir, stray, task, call, faults>>
  BY DEF Create, Inv, TypeOK
<1>3. disk' \in [Components -> {"absent", "made", "sealed", "foreign"}]
      /\ \A c \in Components : c # w.at => disk'[c] = disk[c]
  BY <1>1, <1>2
<1>4. TypeOK'
  BY <1>1, <1>2, <1>3 DEF Inv, TypeOK
<1>5. Phases' /\ Gone' /\ Calls'
  BY <1>1, <1>2 DEF Inv, Phases, Gone, Calls, Exists
<1>6. Working'
  BY <1>1, <1>2 DEF Inv, Working, Inside, Exists
<1>7. Kept'
  BY <1>1, <1>2, <1>3 DEF Inv, Kept, Exists, Owned, Recorded, Receipts
<1>8. OnRecord'
  BY <1>1, <1>2, <1>3 DEF Inv, OnRecord, Exists, Owned
<1> QED
  BY <1>4, <1>5, <1>6, <1>7, <1>8 DEF Inv

LEMMA RecordStep == ASSUME Inv, Record PROVE Inv'
<1>1. /\ w.pc = "record" /\ w.op = Install /\ Exists /\ receipt \in Receipts /\ w.at \in Components
      /\ receipt.pend = "create" /\ receipt.at = w.at /\ w.at \notin receipt.files
      /\ receipt.op = Install
  BY Received DEF Inv, Record, At, Working, Inside, Phases
<1>2. CASE disk[w.at] # "made" /\ Error("settled") /\ UNCHANGED receipt
  BY <1>1, <1>2, ErrorStep DEF Record
<1>3. CASE /\ disk[w.at] = "made"
           /\ SaveDone([receipt EXCEPT !.files = @ \cup {w.at}]) /\ GoAt("step", NoPath)
  <2>1. w' \in Workers /\ w'.pc = "step" /\ w'.op = w.op
    BY <1>3, GoAtEffect DEF Inv, Active, Paths
  <2> DEFINE next == [receipt EXCEPT !.files = @ \cup {w.at}]
  <2>2. /\ next \in Receipts /\ next.state = receipt.state /\ next.files = receipt.files \cup {w.at}
        /\ next.sealed = receipt.sealed /\ next.finger = receipt.finger
        /\ next.deleted = receipt.deleted
    BY <1>1 DEF Receipts
  <2>3. SaveDone(next)
    BY <1>3
  <2> HIDE DEF next
  <2>4. /\ receipt' \in Receipts /\ Exists' /\ receipt'.op = w.op /\ receipt'.state = receipt.state
        /\ receipt'.files = receipt.files \cup {w.at} /\ receipt'.sealed = receipt.sealed
        /\ receipt'.finger = receipt.finger /\ receipt'.pend = "none"
        /\ receipt'.deleted = receipt.deleted
    BY <2>2, <2>3, SaveDoneEffect DEF Inv
  <2>5. ~receipt.sealed /\ ~receipt.finger
    BY <1>1 DEF Inv, Phases
  <2>6. UNCHANGED <<host, task, call, faults>> /\ UNCHANGED <<disk, dir, stray>>
    BY DEF Record, host
  <2>7. Phases' /\ Gone' /\ Working'
    BY <1>1, <2>1, <2>4, <2>5 DEF Inv, Phases, Gone, Working, Inside
  <2>8. Kept'
    BY <1>1, <1>3, <2>4, <2>5, <2>6 DEF Inv, Kept, Owned, Recorded
  <2>9. OnRecord'
    <3>1. receipt.deleted = {}
      BY <1>1 DEF Inv, Phases
    <3> QED
      BY <1>1, <2>4, <2>5, <2>6, <3>1 DEF Inv, OnRecord, Owned
  <2> QED
    BY <1>1, <2>1, <2>4, <2>6, <2>7, <2>8, <2>9, Saved
<1> QED
  BY <1>2, <1>3 DEF Record

LEMMA PlanSealStep == ASSUME Inv, PlanSeal PROVE Inv'
<1>1. /\ w.pc = "step" /\ Exists /\ receipt \in Receipts /\ ~receipt.sealed
  BY Received DEF Inv, PlanSeal, At, Working, Inside
<1>2. CASE Error("settled") /\ UNCHANGED receipt
  BY <1>1, <1>2, ErrorStep DEF PlanSeal
<1>3. CASE receipt.pend = "seal" /\ Go("seal") /\ UNCHANGED receipt
  <2>1. w' \in Workers /\ w'.pc = "seal" /\ w'.op = w.op
    BY <1>3, GoEffect DEF Inv, Active
  <2>2. Working'
    BY <1>1, <1>3, <2>1 DEF Inv, Working, Inside, Exists
  <2> QED
    BY <1>1, <1>3, <2>1, <2>2, WorkerStays DEF PlanSeal
<1>4. CASE /\ w.op = Install /\ receipt.files = Components /\ receipt.pend = "none"
           /\ SavePending("partial", "seal", NoPath) /\ Go("seal")
  <2>1. w' \in Workers /\ w'.pc = "seal" /\ w'.op = w.op
    BY <1>4, GoEffect DEF Inv, Active
  <2>2. /\ receipt' \in Receipts /\ Exists' /\ receipt'.op = w.op /\ receipt'.state = "partial"
        /\ receipt'.files = receipt.files /\ receipt'.sealed = receipt.sealed
        /\ receipt'.finger = receipt.finger /\ receipt'.pend = "seal"
        /\ receipt'.deleted = receipt.deleted
    BY <1>1, <1>4, SavePendingEffect DEF Inv, States, Pendings, Paths
  <2>3. receipt.op = Install
    BY <1>1, <1>4 DEF Inv, Working, Inside
  <2>4. UNCHANGED <<host, task, call, faults>> /\ UNCHANGED <<disk, dir, stray>>
    BY DEF PlanSeal, host
  <2>5. Phases' /\ Gone' /\ Working'
    BY <1>1, <1>4, <2>1, <2>2, <2>3 DEF Inv, Phases, Gone, Working, Inside
  <2>6. Kept' /\ OnRecord'
    BY <1>1, <1>4, <2>2, <2>4 DEF Inv, Kept, Owned, Recorded, OnRecord
  <2> QED
    BY <1>1, <2>1, <2>2, <2>4, <2>5, <2>6, Saved
<1> QED
  BY <1>2, <1>3, <1>4 DEF PlanSeal

LEMMA SealOneStep == ASSUME Inv, NEW c \in Components, SealOne(c) PROVE Inv'
<1>1. /\ w.pc = "seal" /\ Exists /\ receipt \in Receipts /\ receipt.pend = "seal"
      /\ call = "none" /\ c \in Packages
  BY Received, Idling DEF Inv, SealOne, At, Working, Inside
<1>2. CASE Error("settled") /\ UNCHANGED disk
  BY <1>1, <1>2, ErrorStep DEF SealOne, host
<1>3. CASE disk[c] = "made" /\ disk' = [disk EXCEPT ![c] = "sealed"] /\ UNCHANGED w
  <2>1. /\ disk' \in [Components -> {"absent", "made", "sealed", "foreign"}] /\ disk'[c] = "sealed"
        /\ \A b \in Components : b # c => disk'[b] = disk[b]
    BY <1>3 DEF Inv, TypeOK
  <2>2. UNCHANGED <<receipt, dir, stray, task, call, faults, w>>
    BY <1>3 DEF SealOne
  <2>3. TypeOK'
    BY <2>1, <2>2 DEF Inv, TypeOK
  <2>4. Phases' /\ Gone' /\ Calls'
    BY <1>1, <2>2 DEF Inv, Phases, Gone, Calls, Exists
  <2>5. Working'
    <3>1. w'.pc = "seal" /\ w'.op = w.op /\ receipt' = receipt /\ Exists'
      BY <1>1, <2>2 DEF Exists
    <3>2. w.op = Install => receipt.op = Install
      BY <1>1 DEF Inv, Working, Inside
    <3> QED
      BY <1>1, <3>1, <3>2 DEF Working, Inside
  <2>6. Kept'
    <3>1. /\ Owned' = Owned /\ Owned \subseteq Components /\ receipt' = receipt
          /\ \A b \in Components : Recorded(b)' = Recorded(b)
      BY <1>1, <2>2 DEF Owned, Recorded, Receipts
    <3> QED
      BY <1>1, <2>1, <3>1 DEF Inv, Kept
  <2>7. OnRecord'
    BY <1>1, <1>3, <2>1, <2>2 DEF Inv, OnRecord, Exists, Owned
  <2> QED
    BY <2>3, <2>4, <2>5, <2>6, <2>7 DEF Inv
<1> QED
  BY <1>2, <1>3 DEF SealOne

LEMMA CommitSealStep == ASSUME Inv, CommitSeal PROVE Inv'
<1>1. /\ w.pc = "seal" /\ Exists /\ receipt \in Receipts /\ receipt.pend = "seal"
      /\ receipt.files = Components /\ ~receipt.sealed /\ receipt.state \notin {"installed", "removed"}
      /\ w.op = Install => receipt.op = Install
      /\ \A c \in Packages : disk[c] = "sealed"
  BY Received DEF Inv, CommitSeal, At, Working, Inside, Phases
<1>2. CASE Error("settled") /\ UNCHANGED receipt
  BY <1>1, <1>2, ErrorStep DEF CommitSeal
<1>3. CASE SaveDone([receipt EXCEPT !.sealed = TRUE]) /\ Go("step")
  <2>1. w' \in Workers /\ w'.pc = "step" /\ w'.op = w.op
    BY <1>3, GoEffect DEF Inv, Active
  <2> DEFINE next == [receipt EXCEPT !.sealed = TRUE]
  <2>2. /\ next \in Receipts /\ next.state = receipt.state /\ next.files = receipt.files
        /\ next.sealed = TRUE /\ next.finger = receipt.finger /\ next.deleted = receipt.deleted
    BY <1>1 DEF Receipts
  <2>3. SaveDone(next)
    BY <1>3
  <2> HIDE DEF next
  <2>4. /\ receipt' \in Receipts /\ Exists' /\ receipt'.op = w.op /\ receipt'.state = receipt.state
        /\ receipt'.files = receipt.files /\ receipt'.sealed = TRUE
        /\ receipt'.finger = receipt.finger /\ receipt'.pend = "none"
        /\ receipt'.deleted = receipt.deleted
    BY <2>2, <2>3, SaveDoneEffect DEF Inv
  <2>5. UNCHANGED <<host, task, call, faults>> /\ UNCHANGED <<disk, dir, stray>>
    BY DEF CommitSeal, host
  <2>6. Phases' /\ Gone' /\ Working'
    BY <1>1, <2>1, <2>4 DEF Inv, Phases, Gone, Working, Inside
  <2>7. Kept'
    BY <1>1, <2>4, <2>5 DEF Inv, Kept, Owned, Recorded
  <2>8. OnRecord'
    BY <1>1, <2>4, <2>5 DEF Inv, OnRecord, Owned
  <2> QED
    BY <1>1, <2>1, <2>4, <2>5, <2>6, <2>7, <2>8, Saved
<1> QED
  BY <1>2, <1>3 DEF CommitSeal

LEMMA ProbeStep == ASSUME Inv, Probe PROVE Inv'
<1>1. /\ w.pc = "step" /\ w.op = Install /\ receipt.sealed /\ w' \in Workers /\ w'.pc = "task"
      /\ w'.op = w.op
  BY GoEffect DEF Inv, Probe, Installing, At, Active
<1>2. Working'
  BY <1>1 DEF Inv, Working, Inside, Exists, Probe
<1> QED
  BY <1>1, <1>2, WorkerStays DEF Probe

LEMMA PlanTaskStep == ASSUME Inv, PlanTask PROVE Inv'
<1>1. /\ w.pc = "task" /\ w.op = Install /\ Exists /\ receipt \in Receipts /\ receipt.sealed
      /\ receipt.op = Install /\ receipt.files = Components /\ receipt.pend \in {"none", "create-task"}
      /\ receipt.deleted = {}
      /\ receipt.pend = "create-task" => ~receipt.finger
      /\ receipt.state \in {"prepared", "partial", "installed"}
  BY Received DEF Inv, PlanTask, At, Working, Inside, Phases, Receipts, Pendings
<1>2. CASE Error("settled") /\ UNCHANGED receipt
  BY <1>1, <1>2, ErrorStep DEF PlanTask
<1>3. CASE /\ receipt.pend = "create-task"
           /\ Go(IF task = "absent" THEN "submit" ELSE "called") /\ UNCHANGED receipt
  <2>1. w' \in Workers /\ w'.pc \in {"submit", "called"} /\ w'.op = w.op
    BY <1>3, GoEffect DEF Inv, Active
  <2>2. Working'
    BY <1>1, <1>3, <2>1 DEF Inv, Working, Inside, Exists
  <2> QED
    BY <1>1, <1>3, <2>1, <2>2, WorkerStays DEF PlanTask
<1>4. CASE /\ ~receipt.finger /\ receipt.pend # "create-task" /\ task = "absent"
           /\ SavePending(receipt.state, "create-task", NoPath) /\ Go("submit")
  <2>1. w' \in Workers /\ w'.pc = "submit" /\ w'.op = w.op
    BY <1>4, GoEffect DEF Inv, Active
  <2>2. /\ receipt' \in Receipts /\ Exists' /\ receipt'.op = w.op /\ receipt'.state = receipt.state
        /\ receipt'.files = receipt.files /\ receipt'.sealed = receipt.sealed
        /\ receipt'.finger = receipt.finger /\ receipt'.pend = "create-task"
        /\ receipt'.deleted = receipt.deleted
    <3>1. receipt.state \in States /\ "create-task" \in Pendings /\ NoPath \in Paths
      BY <1>1 DEF States, Pendings, Paths
    <3> QED
      BY <1>1, <1>4, <3>1, SavePendingEffect DEF Inv
  <2>3. UNCHANGED <<host, task, call, faults>> /\ UNCHANGED <<disk, dir, stray>>
    BY DEF PlanTask, host
  <2>4. receipt.state # "installed"
    BY <1>1, <1>4 DEF Inv, Phases
  <2>5. Phases' /\ Gone' /\ Working'
    BY <1>1, <1>4, <2>1, <2>2, <2>4 DEF Inv, Phases, Gone, Working, Inside
  <2>6. Kept' /\ OnRecord'
    BY <1>1, <1>4, <2>2, <2>3 DEF Inv, Kept, Owned, Recorded, OnRecord
  <2> QED
    BY <1>1, <2>1, <2>2, <2>3, <2>5, <2>6, Saved
<1>5. CASE receipt.finger /\ Save([receipt EXCEPT !.state = "installed"]) /\ Go("publish")
  <2>1. w' \in Workers /\ w'.pc = "publish" /\ w'.op = w.op
    BY <1>5, GoEffect DEF Inv, Active
  <2> DEFINE next == [receipt EXCEPT !.state = "installed"]
  <2>2. /\ next \in Receipts /\ next.state = "installed" /\ next.files = receipt.files
        /\ next.sealed = receipt.sealed /\ next.finger = receipt.finger
        /\ next.deleted = receipt.deleted /\ next.pend = receipt.pend
    BY <1>1 DEF Receipts, States
  <2>3. Save(next)
    BY <1>5
  <2> HIDE DEF next
  <2>4. /\ receipt' \in Receipts /\ Exists' /\ receipt'.op = w.op /\ receipt'.state = "installed"
        /\ receipt'.files = receipt.files /\ receipt'.sealed = receipt.sealed
        /\ receipt'.finger = receipt.finger /\ receipt'.pend = "none"
        /\ receipt'.deleted = receipt.deleted
    BY <1>1, <1>5, <2>2, <2>3, SaveEffect DEF Inv
  <2>5. UNCHANGED <<host, task, call, faults>> /\ UNCHANGED <<disk, dir, stray>>
    BY DEF PlanTask, host
  <2>6. Phases' /\ Gone' /\ Working'
    BY <1>1, <1>5, <2>1, <2>4 DEF Inv, Phases, Gone, Working, Inside
  <2>7. Kept' /\ OnRecord'
    BY <1>1, <1>5, <2>4, <2>5 DEF Inv, Kept, Owned, Recorded, OnRecord
  <2> QED
    BY <1>1, <2>1, <2>4, <2>5, <2>6, <2>7, Saved
<1> QED
  BY <1>2, <1>3, <1>4, <1>5 DEF PlanTask

-----------------------------------------------------------------------------

\* A task call needs its pending change.
LEMMA SubmitStep == ASSUME Inv, Submit PROVE Inv'
<1>1. /\ w.pc = "submit" /\ Exists /\ w' \in Workers /\ w'.pc = "wait" /\ w'.op = w.op
      /\ receipt.pend = IF w.op = Install THEN "create-task" ELSE "delete-task"
      /\ call' = IF w.op = Install THEN "create" ELSE "delete"
      /\ UNCHANGED <<receipt, dir, disk, stray, task, faults>>
  BY GoEffect DEF Inv, Submit, At, Working, Inside, Active, host
<1>2. TypeOK' /\ Phases' /\ Gone' /\ Calls'
  BY <1>1 DEF Inv, TypeOK, Phases, Gone, Calls, Exists
<1>3. Working'
  BY <1>1 DEF Inv, Working, Inside, Exists
<1>4. Kept'
  BY <1>1 DEF Inv, Kept, Exists, Owned, Recorded
<1>5. OnRecord'
  BY <1>1 DEF Inv, OnRecord, Exists, Owned
<1> QED
  BY <1>2, <1>3, <1>4, <1>5 DEF Inv

LEMMA AppliesStep == ASSUME Inv, Applies PROVE Inv'
<1>1. /\ Exists /\ receipt \in Receipts /\ call \in {"create", "delete"} /\ call' = "none"
      /\ receipt.pend = IF call = "create" THEN "create-task" ELSE "delete-task"
      /\ task' \in {"absent", "owned"}
      /\ task' = "owned" => call = "create"
      /\ UNCHANGED <<receipt, dir, disk, stray, faults>>
  BY Received DEF Inv, Applies, Calls, host
<1>2. CASE w.pc = "wait"
  <2>1. w' \in Workers /\ w'.pc = "called" /\ w'.op = w.op
    BY <1>2, GoEffect DEF Inv, Applies, At, Active
  <2>2. TypeOK' /\ Phases' /\ Calls'
    BY <1>1, <2>1 DEF Inv, TypeOK, Phases, Calls, Exists
  <2>3. Gone'
    BY <1>1 DEF Inv, Phases, Gone, Exists
  <2>4. Working'
    BY <1>1, <1>2, <2>1 DEF Inv, Working, Inside, Exists
  <2>5. Kept'
    BY <1>1 DEF Inv, Kept, Exists, Owned, Recorded
  <2>6. OnRecord'
    BY <1>1 DEF Inv, OnRecord, Exists, Owned
  <2> QED
    BY <2>2, <2>3, <2>4, <2>5, <2>6 DEF Inv
<1>3. CASE w.pc # "wait"
  <2>1. w' = w /\ w.pc \in {"stranded", "done"}
    BY <1>1, <1>3 DEF Inv, Applies, At, Calls
  <2>2. TypeOK' /\ Phases' /\ Calls'
    BY <1>1, <2>1 DEF Inv, TypeOK, Phases, Calls, Exists
  <2>3. Gone'
    BY <1>1 DEF Inv, Phases, Gone, Exists
  <2>4. Working'
    BY <2>1 DEF Working, Inside
  <2>5. Kept'
    BY <1>1 DEF Inv, Kept, Exists, Owned, Recorded
  <2>6. OnRecord'
    BY <1>1 DEF Inv, OnRecord, Exists, Owned
  <2> QED
    BY <2>2, <2>3, <2>4, <2>5, <2>6 DEF Inv
<1> QED
  BY <1>2, <1>3

LEMMA RejectsStep == ASSUME Inv, Rejects PROVE Inv'
<1>1. /\ call' = "none" /\ UNCHANGED <<receipt, host, task, faults>>
      /\ UNCHANGED <<dir, disk, stray>>
  BY DEF Rejects, host
<1>2. w' \in Workers /\ ((w' = w /\ w.pc # "wait") \/ w'.pc = "done")
  BY ErrorEffect DEF Inv, TypeOK, Rejects, At
<1>3. Working'
  BY <1>1, <1>2 DEF Inv, Working, Inside, Exists
<1>4. TypeOK' /\ Phases' /\ Gone' /\ Calls'
  BY <1>1, <1>2 DEF Inv, TypeOK, Phases, Gone, Calls, Exists
<1>5. Kept'
  BY <1>1 DEF Inv, Kept, Exists, Owned, Recorded
<1>6. OnRecord'
  BY <1>1 DEF Inv, OnRecord, Exists, Owned
<1> QED
  BY <1>3, <1>4, <1>5, <1>6 DEF Inv
LEMMA CalledStep == ASSUME Inv, Called PROVE Inv'
<1>1. /\ w.pc = "called" /\ Exists /\ receipt \in Receipts /\ call = "none" /\ w.op \in Ops
      /\ receipt.pend = IF w.op = Install THEN "create-task" ELSE "delete-task"
      /\ receipt.state \notin {"installed", "removed"}
  BY Received, Idling DEF Inv, TypeOK, Workers, Called, At, Working, Inside, Phases
<1>2. UNCHANGED <<host, task, call, faults>> /\ UNCHANGED <<disk, dir, stray>>
  BY DEF Called, host
<1>3. CASE Error("settled") /\ UNCHANGED receipt
  BY <1>1, <1>2, <1>3, ErrorStep
<1>4. CASE /\ w.op = Install /\ task = "owned"
           /\ SaveDone([receipt EXCEPT !.finger = TRUE, !.state = "installed"]) /\ Go("publish")
  <2>1. w' \in Workers /\ w'.pc = "publish"
    BY <1>4, GoEffect DEF Inv, Active
  <2> DEFINE next == [receipt EXCEPT !.finger = TRUE, !.state = "installed"]
  <2>2. /\ next \in Receipts /\ next.state = "installed" /\ next.files = receipt.files
        /\ next.sealed = receipt.sealed /\ next.finger = TRUE /\ next.deleted = receipt.deleted
    BY <1>1 DEF Receipts, States
  <2>3. SaveDone(next)
    BY <1>4
  <2> HIDE DEF next
  <2>4. /\ receipt' \in Receipts /\ Exists' /\ receipt'.op = w.op /\ receipt'.state = "installed"
        /\ receipt'.files = receipt.files /\ receipt'.sealed = receipt.sealed
        /\ receipt'.finger = TRUE /\ receipt'.pend = "none" /\ receipt'.deleted = receipt.deleted
    BY <2>2, <2>3, SaveDoneEffect DEF Inv
  <2>5. /\ receipt.op = Install /\ receipt.deleted = {} /\ receipt.sealed
        /\ receipt.files = Components
    BY <1>1, <1>4 DEF Inv, Working, Inside, Phases
  <2>6. Phases' /\ Gone' /\ Working'
    BY <1>4, <2>1, <2>4, <2>5 DEF Phases, Gone, Working, Inside
  <2>7. Kept'
    BY <1>1, <1>2, <1>4, <2>4 DEF Inv, Kept, Owned, Recorded
  <2>8. OnRecord'
    BY <1>1, <1>2, <1>4, <2>4, <2>5 DEF Inv, OnRecord, Owned
  <2> QED
    BY <1>1, <1>2, <2>1, <2>4, <2>6, <2>7, <2>8, Saved
<1>5. CASE /\ w.op # Install /\ task = "absent"
           /\ SaveDone([receipt EXCEPT !.deleted = @ \cup {Task}]) /\ Go("step")
  <2>1. w' \in Workers /\ w'.pc = "step" /\ w'.op = w.op
    BY <1>5, GoEffect DEF Inv, Active
  <2> DEFINE next == [receipt EXCEPT !.deleted = @ \cup {Task}]
  <2>2. /\ next \in Receipts /\ next.state = receipt.state /\ next.files = receipt.files
        /\ next.sealed = receipt.sealed /\ next.finger = receipt.finger
        /\ next.deleted = receipt.deleted \cup {Task}
    BY <1>1 DEF Receipts
  <2>3. SaveDone(next)
    BY <1>5
  <2> HIDE DEF next
  <2>4. /\ receipt' \in Receipts /\ Exists' /\ receipt'.op = w.op /\ receipt'.state = receipt.state
        /\ receipt'.files = receipt.files /\ receipt'.sealed = receipt.sealed
        /\ receipt'.finger = receipt.finger /\ receipt'.pend = "none"
        /\ receipt'.deleted = receipt.deleted \cup {Task}
    BY <2>2, <2>3, SaveDoneEffect DEF Inv
  <2>5. Phases' /\ Gone' /\ Working'
    BY <1>1, <1>5, <2>1, <2>4 DEF Inv, Phases, Gone, Working, Inside
  <2>6. \A c \in Components : c \in receipt'.deleted <=> c \in receipt.deleted
    BY <2>4, InstallerAssumption
  <2>7. Kept'
    BY <1>1, <1>2, <1>5, <2>4, <2>6 DEF Inv, Kept, Owned, Recorded, Receipts
  <2>8. OnRecord'
    BY <1>1, <1>2, <1>5, <2>4, <2>6 DEF Inv, OnRecord, Owned
  <2> QED
    BY <1>1, <1>2, <2>1, <2>4, <2>5, <2>7, <2>8, Saved
<1> QED
  BY <1>3, <1>4, <1>5 DEF Called

LEMMA PublishStep == ASSUME Inv, Publish PROVE Inv'
<1>1. w.pc = "publish"
  BY DEF Publish, At
<1>2. w' \in Workers /\ w'.pc = "done"
  BY EndEffect DEF Inv, States, Publish
<1> QED
  BY <1>1, <1>2, Idling, Stopped DEF Publish, Inv, TypeOK

-----------------------------------------------------------------------------

\* Removing.
LEMMA RemovedStep == ASSUME Inv, Removed PROVE Inv'
<1>1. w.pc = "step"
  BY DEF Removed, Removing, At
<1>2. CASE End("removed", "settled", "none")
  <2>1. w' \in Workers /\ w'.pc = "done"
    BY <1>2, EndEffect DEF Inv, States
  <2> QED
    BY <1>1, <2>1, Idling, Stopped DEF Removed, Inv, TypeOK
<1>3. CASE Error("settled")
  BY <1>1, <1>3, ErrorStep DEF Removed
<1> QED
  BY <1>2, <1>3 DEF Removed

LEMMA RefuseTaskStep == ASSUME Inv, RefuseTask PROVE Inv'
<1>1. w.pc = "step"
  BY DEF RefuseTask, Removing, At
<1> QED
  BY <1>1, ErrorStep DEF RefuseTask

LEMMA RemovingState ==
  ASSUME Inv, Removing
  PROVE  /\ w.pc = "step" /\ w.op \in Ops /\ w.op # Install /\ Exists /\ receipt \in Receipts
         /\ call = "none" /\ receipt.pend # "seal"
BY Received, Idling DEF Inv, TypeOK, Workers, Removing, At, Working, Inside

LEMMA DropPendingStep == ASSUME Inv, DropPending PROVE Inv'
<1>1. /\ w.pc = "step" /\ w.op # Install /\ Exists /\ receipt \in Receipts /\ call = "none"
      /\ receipt.pend \in {"create", "create-task"} /\ ~TaskConflict
  BY RemovingState DEF DropPending
<1>2. UNCHANGED <<host, task, call, faults>> /\ UNCHANGED <<disk, dir, stray>>
  BY DEF DropPending, host
<1>3. CASE Error("settled") /\ UNCHANGED receipt
  BY <1>1, <1>2, <1>3, ErrorStep
<1>4. CASE /\ receipt.pend = "create" => disk[receipt.at] = "absent"
           /\ SaveDone([receipt EXCEPT !.state = "removing"]) /\ UNCHANGED w
  <2> DEFINE next == [receipt EXCEPT !.state = "removing"]
  <2>1. /\ next \in Receipts /\ next.state = "removing" /\ next.files = receipt.files
        /\ next.sealed = receipt.sealed /\ next.finger = receipt.finger
        /\ next.deleted = receipt.deleted
    BY <1>1 DEF Receipts, States
  <2>2. SaveDone(next)
    BY <1>4
  <2> HIDE DEF next
  <2>3. /\ receipt' \in Receipts /\ Exists' /\ receipt'.op = w.op /\ receipt'.state = "removing"
        /\ receipt'.files = receipt.files /\ receipt'.sealed = receipt.sealed
        /\ receipt'.finger = receipt.finger /\ receipt'.pend = "none"
        /\ receipt'.deleted = receipt.deleted
    BY <2>1, <2>2, SaveDoneEffect DEF Inv
  <2>4. w' \in Workers /\ w'.pc = "step" /\ w'.op = w.op
    BY <1>1, <1>4 DEF Inv, TypeOK
  <2>5. Phases' /\ Gone' /\ Working'
    BY <1>1, <2>3, <2>4 DEF Inv, Phases, Gone, Working, Inside
  <2>6. Kept'
    BY <1>1, <1>2, <2>3 DEF Inv, Kept, Owned, Recorded
  <2>7. task = "owned" => receipt.finger /\ Task \notin receipt.deleted
    BY <1>1 DEF TaskConflict
  <2>8. OnRecord'
    BY <1>1, <1>2, <1>4, <2>3, <2>7 DEF Inv, OnRecord, Owned
  <2> QED
    BY <1>1, <1>2, <2>3, <2>4, <2>5, <2>6, <2>8, Saved
<1> QED
  BY <1>3, <1>4 DEF DropPending

LEMMA PlanTaskRemovalStep == ASSUME Inv, PlanTaskRemoval PROVE Inv'
<1>1. /\ w.pc = "step" /\ w.op # Install /\ Exists /\ receipt \in Receipts /\ call = "none"
      /\ receipt.pend \notin {"create", "create-task", "seal"} /\ ~TaskConflict /\ TaskLeft
  BY RemovingState DEF PlanTaskRemoval
<1>2. UNCHANGED <<host, task, call, faults>> /\ UNCHANGED <<disk, dir, stray>>
  BY DEF PlanTaskRemoval, host
<1>3. receipt.pend # "delete"
  BY <1>1 DEF Inv, Phases, TaskConflict, TaskLeft
<1>4. w' \in Workers /\ w'.pc \in {"submit", "called"} /\ w'.op = w.op
  BY GoEffect DEF Inv, Active, PlanTaskRemoval
<1>5. /\ receipt' \in Receipts /\ Exists' /\ receipt'.op = w.op /\ receipt'.state = "removing"
      /\ receipt'.files = receipt.files /\ receipt'.sealed = receipt.sealed
      /\ receipt'.finger = receipt.finger /\ receipt'.pend = "delete-task"
      /\ receipt'.deleted = receipt.deleted
  BY <1>1, SavePendingEffect DEF Inv, PlanTaskRemoval, States, Pendings, Paths
<1>6. Phases' /\ Gone' /\ Working'
  BY <1>1, <1>4, <1>5 DEF Inv, Phases, Gone, Working, Inside
<1>7. Kept'
  BY <1>1, <1>2, <1>3, <1>5 DEF Inv, Kept, Owned, Recorded
<1>8. OnRecord'
  BY <1>1, <1>2, <1>5 DEF Inv, OnRecord, Owned
<1> QED
  BY <1>1, <1>2, <1>4, <1>5, <1>6, <1>7, <1>8, Saved

LEMMA PlanRemovalStep == ASSUME Inv, NEW c \in Components, PlanRemoval(c) PROVE Inv'
<1>1. /\ w.pc = "step" /\ w.op # Install /\ Exists /\ receipt \in Receipts /\ call = "none"
      /\ receipt.pend \notin {"create", "create-task", "seal"} /\ ~TaskLeft
      /\ c \in Paths
  BY RemovingState DEF PlanRemoval, FilesTurn, NextRemoval, Paths
<1>2. UNCHANGED <<host, task, call, faults>> /\ UNCHANGED <<disk, dir, stray>>
  BY DEF PlanRemoval, host
<1>3. CASE Error("settled") /\ UNCHANGED receipt
  BY <1>1, <1>2, <1>3, ErrorStep
<1>4. CASE SavePending("removing", "delete", c) /\ GoAt("delete", c)
  <2>1. w' \in Workers /\ w'.pc = "delete" /\ w'.op = w.op /\ w'.at = c
    BY <1>1, <1>4, GoAtEffect DEF Inv, Active
  <2>2. /\ receipt' \in Receipts /\ Exists' /\ receipt'.op = w.op /\ receipt'.state = "removing"
        /\ receipt'.files = receipt.files /\ receipt'.sealed = receipt.sealed
        /\ receipt'.finger = receipt.finger /\ receipt'.pend = "delete" /\ receipt'.at = c
        /\ receipt'.deleted = receipt.deleted
    BY <1>1, <1>4, SavePendingEffect DEF Inv, States, Pendings
  <2>3. Phases' /\ Gone' /\ Working'
    BY <1>1, <2>1, <2>2 DEF Inv, Phases, Gone, Working, Inside, TaskLeft
  <2>4. Kept'
    <3>1. receipt.pend = "delete" => receipt.at = c
      BY <1>4 DEF PlanRemoval, NextRemoval
    <3> QED
      BY <1>1, <1>2, <2>2, <3>1 DEF Inv, Kept, Owned, Recorded
  <2>5. OnRecord'
    BY <1>1, <1>2, <2>2 DEF Inv, OnRecord, Owned
  <2> QED
    BY <1>1, <1>2, <2>1, <2>2, <2>3, <2>4, <2>5, Saved
<1> QED
  BY <1>3, <1>4 DEF PlanRemoval

LEMMA DeleteStep == ASSUME Inv, Delete PROVE Inv'
<1>1. /\ w.pc = "delete" /\ w.op # Install /\ Exists /\ receipt \in Receipts /\ call = "none"
      /\ receipt.pend = "delete" /\ receipt.at = w.at /\ w.at \in Components
      /\ receipt.state # "removed"
  BY Received, Idling DEF Inv, Delete, At, Working, Inside, Phases
<1>2. CASE Error("settled") /\ UNCHANGED disk
  BY <1>1, <1>2, ErrorStep DEF Delete, host
<1>3. CASE disk[w.at] = "absent" /\ Go("deleted") /\ UNCHANGED disk
  <2>1. w' \in Workers /\ w'.pc = "deleted" /\ w'.op = w.op /\ w'.at = w.at
    BY <1>3, GoEffect DEF Inv, Active
  <2>2. UNCHANGED <<receipt, host, task, call, faults>>
    BY <1>3 DEF Delete, host
  <2>3. Working'
    BY <1>1, <1>3, <2>1, <2>2 DEF Working, Inside, Exists, host
  <2> QED
    BY <1>1, <2>1, <2>2, <2>3, WorkerStays
<1>4. CASE disk' = [disk EXCEPT ![w.at] = "absent"] /\ Go("deleted")
  <2>1. w' \in Workers /\ w'.pc = "deleted" /\ w'.op = w.op /\ w'.at = w.at
    BY <1>4, GoEffect DEF Inv, Active
  <2>2. /\ disk' \in [Components -> {"absent", "made", "sealed", "foreign"}]
        /\ disk'[w.at] = "absent" /\ \A b \in Components : b # w.at => disk'[b] = disk[b]
    BY <1>1, <1>4 DEF Inv, TypeOK
  <2>3. UNCHANGED <<receipt, dir, stray, task, call, faults>>
    BY DEF Delete
  <2>4. TypeOK' /\ Phases' /\ Gone' /\ Calls'
    BY <1>1, <2>1, <2>2, <2>3 DEF Inv, TypeOK, Phases, Gone, Calls, Exists
  <2>5. Working'
    BY <1>1, <2>1, <2>2, <2>3 DEF Working, Inside, Exists
  <2>6. Kept'
    <3>1. /\ Owned' = Owned /\ Owned \subseteq Components /\ receipt' = receipt
          /\ \A b \in Components : Recorded(b)' = Recorded(b)
      BY <1>1, <2>3 DEF Owned, Recorded, Receipts
    <3> QED
      BY <1>1, <2>2, <3>1 DEF Inv, Kept
  <2>7. OnRecord'
    BY <1>1, <2>2, <2>3 DEF Inv, OnRecord, Exists, Owned
  <2> QED
    BY <2>4, <2>5, <2>6, <2>7 DEF Inv
<1> QED
  BY <1>2, <1>3, <1>4 DEF Delete

LEMMA DeletedStep == ASSUME Inv, Deleted PROVE Inv'
<1>1. /\ w.pc = "deleted" /\ w.op # Install /\ Exists /\ receipt \in Receipts /\ call = "none"
      /\ receipt.pend = "delete" /\ receipt.at = w.at /\ w.at \in Components
      /\ receipt.state \notin {"installed", "removed"} /\ disk[w.at] \notin {"made", "sealed"}
  BY Received, Idling DEF Inv, Deleted, At, Working, Inside, Phases
<1>2. UNCHANGED <<host, task, call, faults>> /\ UNCHANGED <<disk, dir, stray>>
  BY DEF Deleted, host
<1>3. w' \in Workers /\ w'.pc = "step" /\ w'.op = w.op
  BY GoAtEffect DEF Inv, Active, Paths, Deleted
<1> DEFINE next == [receipt EXCEPT !.deleted = @ \cup {w.at}]
<1>4. /\ next \in Receipts /\ next.state = receipt.state /\ next.files = receipt.files
      /\ next.sealed = receipt.sealed /\ next.finger = receipt.finger
      /\ next.deleted = receipt.deleted \cup {w.at}
  BY <1>1 DEF Receipts
<1>5. SaveDone(next)
  BY DEF Deleted
<1> HIDE DEF next
<1>6. /\ receipt' \in Receipts /\ Exists' /\ receipt'.op = w.op /\ receipt'.state = receipt.state
      /\ receipt'.files = receipt.files /\ receipt'.sealed = receipt.sealed
      /\ receipt'.finger = receipt.finger /\ receipt'.pend = "none"
      /\ receipt'.deleted = receipt.deleted \cup {w.at}
  BY <1>4, <1>5, SaveDoneEffect DEF Inv
<1>7. Phases' /\ Gone' /\ Working'
  BY <1>1, <1>3, <1>6 DEF Inv, Phases, Gone, Working, Inside
<1>8. Kept'
  BY <1>1, <1>2, <1>6 DEF Inv, Kept, Owned, Recorded
<1>9. Task # w.at
  BY <1>1, InstallerAssumption
<1>10. OnRecord'
  BY <1>1, <1>2, <1>6, <1>9 DEF Inv, OnRecord, Owned
<1> QED
  BY <1>1, <1>2, <1>3, <1>6, <1>7, <1>8, <1>10, Saved

LEMMA FinishStep == ASSUME Inv, Finish PROVE Inv'
<1>1. /\ w.pc = "step" /\ w.op # Install /\ Exists /\ receipt \in Receipts /\ call = "none"
      /\ receipt.pend \notin {"create", "create-task", "seal"} /\ ~TaskLeft /\ Owned = {}
  BY RemovingState DEF Finish, FilesTurn
<1>2. UNCHANGED <<host, task, call, faults>> /\ UNCHANGED <<disk, dir, stray>>
  BY DEF Finish, host
<1>3. CASE Error("settled") /\ UNCHANGED receipt
  BY <1>1, <1>2, <1>3, ErrorStep
<1>4. CASE /\ SaveDone([receipt EXCEPT !.state = "removed"])
           /\ End("removed", "settled", "none")
  <2>1. w' \in Workers /\ w'.pc = "done"
    BY <1>4, EndEffect DEF Inv, States
  <2> DEFINE next == [receipt EXCEPT !.state = "removed"]
  <2>2. /\ next \in Receipts /\ next.state = "removed" /\ next.files = receipt.files
        /\ next.sealed = receipt.sealed /\ next.finger = receipt.finger
        /\ next.deleted = receipt.deleted
    BY <1>1 DEF Receipts, States
  <2>3. SaveDone(next)
    BY <1>4
  <2> HIDE DEF next
  <2>4. /\ receipt' \in Receipts /\ Exists' /\ receipt'.op = w.op /\ receipt'.state = "removed"
        /\ receipt'.files = receipt.files /\ receipt'.sealed = receipt.sealed
        /\ receipt'.finger = receipt.finger /\ receipt'.pend = "none"
        /\ receipt'.deleted = receipt.deleted
    BY <2>2, <2>3, SaveDoneEffect DEF Inv
  <2>5. Phases' /\ Working'
    BY <1>1, <2>1, <2>4 DEF Inv, Phases, Working, Inside
  <2>6. /\ \A c \in Components : disk[c] \notin {"made", "sealed"}
        /\ task = "absent"
    BY <1>1 DEF Inv, OnRecord, TaskLeft
  <2>7. Gone' /\ OnRecord'
    BY <1>1, <1>2, <2>6 DEF Inv, TypeOK, Gone, OnRecord
  <2>8. Kept'
    BY <1>1, <2>4 DEF Kept, Owned
  <2> QED
    BY <1>1, <1>2, <2>1, <2>4, <2>5, <2>7, <2>8, Saved
<1> QED
  BY <1>3, <1>4 DEF Finish

-----------------------------------------------------------------------------

\* Faults.
LEMMA FaultLeft == ASSUME Inv, faults > 0, faults' = faults - 1 PROVE faults' \in 0 .. MaxFaults
BY InstallerAssumption DEF Inv, TypeOK

LEMMA FailStep == ASSUME Inv, Fail PROVE Inv'
<1>1. w.pc \in Active /\ UNCHANGED <<receipt, host, task, call>> /\ faults' \in 0 .. MaxFaults
  BY FaultLeft DEF Fail
<1>2. CASE Error("unknown")
  BY <1>1, <1>2, ErrorEffect, Stopped DEF Inv
<1>3. CASE ~At("submit") /\ ~At("wait") /\ Error("settled")
  <2>1. call = "none"
    BY <1>1, <1>3, Idling DEF At, Active
  <2> QED
    BY <1>1, <1>3, <2>1, ErrorEffect, Stopped DEF Inv
<1>4. CASE At("check") /\ End("partial", "settled", "none")
  <2>1. call = "none"
    BY <1>4, Idling DEF At
  <2> QED
    BY <1>1, <1>4, <2>1, EndEffect, Stopped DEF Inv, States
<1> QED
  BY <1>2, <1>3, <1>4 DEF Fail

\* A worker that dies with a task change pending is the last one.
LEMMA DieStep == ASSUME Inv, Die PROVE Inv'
<1>1. UNCHANGED <<receipt, host, task, call>> /\ faults' \in 0 .. MaxFaults
  BY FaultLeft DEF Die
<1>2. /\ w' \in Workers /\ w'.pc \in {"idle", "stranded"}
      /\ w'.pc = "idle" => receipt.pend \notin {"create-task", "delete-task"}
  BY GoEffect DEF Inv, Die, Unfinished
<1>3. Working'
  BY <1>2 DEF Working, Inside
<1>4. Calls'
  BY <1>1, <1>2 DEF Inv, Calls, Exists
<1> QED
  BY <1>1, <1>2, <1>3, <1>4, Moved DEF Inv, TypeOK, host

LEMMA TamperStep == ASSUME Inv, Tamper PROVE Inv'
<1>1. UNCHANGED <<receipt, dir, call, w>> /\ faults' \in 0 .. MaxFaults
  BY FaultLeft DEF Tamper
<1>2. CASE \E c \in Components : disk' = [disk EXCEPT ![c] = "foreign"] /\ UNCHANGED <<task, stray>>
  <2> PICK c \in Components : disk' = [disk EXCEPT ![c] = "foreign"]
    BY <1>2
  <2>1. /\ disk' \in [Components -> {"absent", "made", "sealed", "foreign"}]
        /\ \A b \in Components : disk'[b] = disk[b] \/ disk'[b] = "foreign"
    BY DEF Inv, TypeOK
  <2>2. TypeOK' /\ Phases' /\ Gone' /\ Calls'
    BY <1>1, <1>2, <2>1 DEF Inv, TypeOK, Phases, Gone, Calls, Exists
  <2>3. w.pc = "deleted" => w.at \in Components
    BY DEF Inv, Working, Inside, Phases
  <2>4. Working'
    BY <1>1, <2>1, <2>3 DEF Inv, Working, Exists
  <2>5. Kept'
    BY <1>1, <2>1 DEF Inv, Kept, Exists, Owned, Recorded
  <2>6. OnRecord'
    BY <1>1, <1>2, <2>1 DEF Inv, OnRecord, Exists, Owned
  <2> QED
    BY <2>2, <2>4, <2>5, <2>6 DEF Inv
<1>3. CASE task' \in {"foreign", "absent"} /\ UNCHANGED <<disk, stray>>
  <2>1. TypeOK' /\ Phases' /\ Gone' /\ Calls'
    BY <1>1, <1>3 DEF Inv, TypeOK, Phases, Gone, Calls, Exists
  <2>2. Working'
    BY <1>1, <1>3 DEF Inv, Working, Exists
  <2>3. Kept'
    BY <1>1, <1>3 DEF Inv, Kept, Exists, Owned, Recorded
  <2>4. OnRecord'
    BY <1>1, <1>3 DEF Inv, OnRecord, Exists, Owned
  <2> QED
    BY <2>1, <2>2, <2>3, <2>4 DEF Inv
<1>4. CASE stray' = TRUE /\ UNCHANGED <<task, disk>>
  <2>1. Working' /\ Calls'
    BY <1>1, <1>4 DEF Inv, Working, Calls, Exists
  <2> QED
    BY <1>1, <1>4, <2>1, Moved DEF Inv, TypeOK
<1> QED
  BY <1>2, <1>3, <1>4 DEF Tamper

-----------------------------------------------------------------------------

LEMMA InitInv == ASSUME Init PROVE Inv
<1>1. ~Exists
  BY DEF Init, Exists
<1>2. w \in Workers /\ w.pc = "idle"
  BY DEF Init, Workers, Ops, Paths
<1>3. TypeOK
  <2>1. disk \in [Components -> {"absent", "made", "sealed", "foreign"}]
    BY DEF Init
  <2>2. faults \in 0 .. MaxFaults
    BY InstallerAssumption DEF Init
  <2> QED
    BY <1>2, <2>1, <2>2 DEF Init, TypeOK
<1>4. Working
  BY <1>2 DEF Working, Inside
<1>5. OnRecord
  BY DEF Init, OnRecord
<1> QED
  BY <1>1, <1>3, <1>4, <1>5 DEF Init, Inv, Phases, Kept, Calls, Gone

LEMMA StutterInv == ASSUME Inv, UNCHANGED vars PROVE Inv'
<1>1. UNCHANGED <<receipt, dir, disk, stray, task, call, w, faults>>
  BY DEF vars
<1>2. TypeOK' /\ Phases' /\ Gone' /\ Calls'
  BY <1>1 DEF Inv, TypeOK, Phases, Gone, Calls, Exists
<1>3. Working'
  BY <1>1 DEF Inv, Working, Exists
<1>4. Kept' /\ OnRecord'
  BY <1>1 DEF Inv, Kept, OnRecord, Exists, Owned, Recorded
<1> QED
  BY <1>2, <1>3, <1>4 DEF Inv

LEMMA NextInv == ASSUME Inv, Next PROVE Inv'
<1>1. CASE \E o \in Ops : Start(o)
  BY <1>1, StartStep
<1>2. CASE Settle
  BY <1>2, SettleStep
<1>3. CASE WorkerStep
  <2>1. CASE Check \/ Refuse \/ Fence \/ Prepare
    BY <2>1, CheckStep, RefuseStep, FenceStep, PrepareStep
  <2>2. CASE \E c \in Components : PlanCreate(c) \/ SealOne(c) \/ PlanRemoval(c)
    BY <2>2, PlanCreateStep, SealOneStep, PlanRemovalStep
  <2>3. CASE Create \/ Record \/ PlanSeal \/ CommitSeal \/ Probe \/ PlanTask
    BY <2>3, CreateStep, RecordStep, PlanSealStep, CommitSealStep, ProbeStep, PlanTaskStep
  <2>4. CASE Submit \/ Called \/ Publish \/ Removed \/ RefuseTask \/ DropPending
    BY <2>4, SubmitStep, CalledStep, PublishStep, RemovedStep, RefuseTaskStep, DropPendingStep
  <2>5. CASE PlanTaskRemoval \/ Delete \/ Deleted \/ Finish
    BY <2>5, PlanTaskRemovalStep, DeleteStep, DeletedStep, FinishStep
  <2> QED
    BY <1>3, <2>1, <2>2, <2>3, <2>4, <2>5 DEF WorkerStep
<1>4. CASE SchedulerStep
  BY <1>4, AppliesStep, RejectsStep DEF SchedulerStep
<1>5. CASE Fail \/ Die \/ Tamper
  BY <1>5, FailStep, DieStep, TamperStep
<1> QED
  BY <1>1, <1>2, <1>3, <1>4, <1>5 DEF Next

\* Every reachable state of an installation satisfies the inductive invariant,
\* whatever is created, deleted, interrupted or tampered with.
THEOREM Invariant == Spec => []Inv
<1>1. Inv /\ [Next]_vars => Inv'
  BY NextInv, StutterInv
<1> QED
  BY InitInv, <1>1, PTL DEF Spec

\* The receipt, the host and the worker keep their types.
THEOREM TypeCorrect == Spec => []TypeOK
<1>1. Inv => TypeOK
  BY DEF Inv
<1> QED
  BY <1>1, Invariant, PTL

\* Whatever setup made on the host, component or task, is owned by its receipt or is
\* what the receipt's pending change is about: Installer.apply saves its intent first
\* and a removal drops a record only after the object is gone.
THEOREM AlwaysOnRecord == Spec => []OnRecord
<1>1. Inv => OnRecord
  BY DEF Inv
<1> QED
  BY <1>1, Invariant, PTL

\* A receipt that says installed or removed is true of the host, tampering aside.
THEOREM FinishedIsTrue == Spec => []FinishedTrue
<1>1. Inv => FinishedTrue
  <2> SUFFICES ASSUME Inv PROVE FinishedTrue
    OBVIOUS
  <2>1. CASE Exists /\ receipt.state = "installed"
    <3>1. receipt.sealed /\ receipt.files = Components /\ receipt.deleted = {} /\ receipt.pend = "none"
      BY <2>1 DEF Inv, Phases
    <3>2. \A c \in Components : disk[c] \in {"foreign", Recorded(c)}
      BY <2>1, <3>1 DEF Inv, Kept, Owned
    <3> QED
      BY <2>1, <3>1, <3>2 DEF FinishedTrue
  <2>2. CASE Exists /\ receipt.state = "removed"
    <3>1. receipt.pend = "none"
      BY <2>2 DEF Inv, Phases
    <3>2. call = "none"
      BY <3>1 DEF Inv, Calls
    <3> QED
      BY <2>2, <3>2 DEF Inv, Gone, FinishedTrue
  <2> QED
    BY <2>1, <2>2 DEF FinishedTrue
<1> QED
  BY <1>1, Invariant, PTL
=============================================================================
