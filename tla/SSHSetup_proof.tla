----------------------------- MODULE SSHSetup_proof -----------------------------
(* Proofs about SSHSetup, for any processes and start types and any number of  *)
(* interruptions and edits, as long as commands follow each other (Alone): its *)
(* receipt can take back all that an apply has done.                           *)
(*                                                                             *)
(* The argument: a command that is under way is the only one (One), so the     *)
(* facts and the receipt it read are still those of the host until it changes  *)
(* them itself (Knows); the receipt goes ahead of the changes, and its prior   *)
(* start type is the one from before the preparation (Kept).                   *)
EXTENDS SSHSetup, TLAPS

NoOverlap == Overlap = FALSE

One == \A p, q \in Procs : p # q => At(p, "idle") \/ At(q, "idle")

Kept ==
  /\ IF Live(receipt) THEN receipt.plan.prior = was
                      ELSE was = type /\ ~ours /\ rule # "exact"
  /\ ours => type = "Automatic" /\ receipt.plan.auto
  /\ rule = "exact" => receipt.plan.rule

\* A completed apply that nothing has changed since.
Holds ==
  (receipt # NoReceipt /\ receipt.state = "applied" /\ ~edited) =>
    /\ receipt.plan.auto => type = "Automatic"
    /\ receipt.plan.start => running
    /\ receipt.plan.rule => rule = "exact"

\* What a command has read is still so.
Read(p) ==
  /\ proc[p].pc \in {"record", "plan", "apply", "type", "remove"} => proc[p].type = type
  /\ proc[p].pc \in {"record", "plan", "apply", "type", "start"} => proc[p].running = running
  /\ proc[p].pc \in {"plan", "apply"} => proc[p].got = receipt
  /\ proc[p].pc \in {"remove", "restore", "delete", "removed"} =>
       proc[p].got = receipt /\ Live(receipt)
  /\ proc[p].pc \in Locked => edited

\* What an apply is going to do, and has done.
Applies(p) ==
  LET plan == proc[p].plan IN
  /\ proc[p].pc = "apply" => IF Live(receipt) THEN plan = receipt.plan ELSE plan.prior = type
  /\ proc[p].pc \in {"type", "start", "rule", "applied"} =>
       receipt = [state |-> "applying", plan |-> plan]
  /\ proc[p].pc \in {"apply", "type", "start", "rule"} =>
       (plan.rule => rule = "exact" \/ (proc[p].create /\ rule = "absent"))
         /\ (proc[p].create => plan.rule)
  /\ proc[p].pc \in {"start", "rule", "applied"} => (plan.auto => type = "Automatic")
  /\ proc[p].pc \in {"rule", "applied"} => (plan.start => running)
  /\ proc[p].pc = "applied" => (plan.rule => rule = "exact")

\* What a removal is going to take back, and has.
Removes(p) ==
  LET plan == proc[p].plan IN
  /\ proc[p].pc \in {"remove", "restore"} => (ours => plan.auto)
  /\ proc[p].pc \in {"remove", "restore", "delete"} => (rule = "exact" => plan.rule)
  /\ proc[p].pc \in {"delete", "removed"} => ~ours
  /\ proc[p].pc = "removed" => rule # "exact"

Knows(p) == Read(p) /\ Applies(p) /\ Removes(p)

Inv ==
  /\ TypeOK /\ One /\ Kept /\ Holds
  /\ \A p \in Procs : Knows(p)

-----------------------------------------------------------------------------
(* The effects of the helpers. *)

States == [pc: Pcs, remove: BOOLEAN, type: Types, running: BOOLEAN,
           got: Receipts \cup {NoReceipt}, plan: Plans, create: BOOLEAN]

LEMMA IdleTyped == Idle \in States /\ NoPlan \in Plans /\ Idle.pc = "idle"
BY SSHAssumption DEF Idle, States, NoPlan, Plans, Pcs

LEMMA ToEffect ==
  ASSUME proc \in [Procs -> States], NEW p \in Procs, NEW pc \in Pcs, To(p, pc)
  PROVE  /\ proc' \in [Procs -> States] /\ \A q \in Procs : q # p => proc'[q] = proc[q]
         /\ proc'[p].pc = pc
         /\ proc'[p].remove = proc[p].remove /\ proc'[p].type = proc[p].type
         /\ proc'[p].running = proc[p].running /\ proc'[p].got = proc[p].got
         /\ proc'[p].plan = proc[p].plan /\ proc'[p].create = proc[p].create
<1> DEFINE n == [proc[p] EXCEPT !.pc = pc]
<1>1. proc' = [proc EXCEPT ![p] = n]
  BY DEF To
<1>2. /\ n \in States /\ n.pc = pc /\ n.remove = proc[p].remove /\ n.type = proc[p].type
      /\ n.running = proc[p].running /\ n.got = proc[p].got
      /\ n.plan = proc[p].plan /\ n.create = proc[p].create
  BY DEF States
<1> HIDE DEF n
<1> QED
  BY <1>1, <1>2

LEMMA DoneEffect ==
  ASSUME proc \in [Procs -> States], NEW p \in Procs, Done(p)
  PROVE  /\ proc' \in [Procs -> States] /\ \A q \in Procs : q # p => proc'[q] = proc[q]
         /\ proc'[p].pc = "idle"
BY IdleTyped DEF Done

\* What a command under way has: it is the only one.
LEMMA UnderWay ==
  ASSUME Inv, NEW p \in Procs, ~At(p, "idle")
  PROVE  /\ proc \in [Procs -> States] /\ proc[p] \in States /\ Knows(p)
         /\ \A q \in Procs : q # p => proc[q].pc = "idle"
         /\ lock \in BOOLEAN /\ (lock <=> proc[p].pc \in Locked)
BY DEF Inv, TypeOK, One, At, States, Locked

\* A step of the only command.
LEMMA OneStep ==
  ASSUME NEW p \in Procs, proc' \in [Procs -> States],
         \A q \in Procs : q # p => proc'[q].pc = "idle",
         lock' \in BOOLEAN, lock' <=> proc'[p].pc \in Locked, Knows(p)'
  PROVE  /\ One' /\ \A q \in Procs : Knows(q)'
         /\ (lock' <=> \E q \in Procs : proc'[q].pc \in Locked)
<1>1. \A q \in Procs : q # p => Knows(q)'
  BY DEF Knows, Read, Applies, Removes, Locked
<1>2. (lock' <=> \E q \in Procs : proc'[q].pc \in Locked)
  BY DEF Locked
<1> QED
  BY <1>1, <1>2 DEF One, At

\* A step that leaves the host and the receipt alone.
LEMMA HostSame ==
  ASSUME Inv, UNCHANGED <<receipt, sshd, installed, bounds, edited>>
  PROVE  Kept' /\ Holds'
BY DEF Inv, Kept, Holds, Live, sshd, bounds

LEMMA QuietStep ==
  ASSUME Inv, UNCHANGED <<receipt, sshd, installed, edited>>,
         faults' \in 0 .. MaxFaults, edits' = edits,
         NEW p \in Procs, proc' \in [Procs -> States],
         \A q \in Procs : q # p => proc'[q].pc = "idle",
         lock' \in BOOLEAN, lock' <=> proc'[p].pc \in Locked, Knows(p)'
  PROVE  Inv'
<1>1. Kept' /\ Holds'
  BY DEF Inv, Kept, Holds, Live, sshd
<1>2. One' /\ (\A q \in Procs : Knows(q)') /\ (lock' <=> \E q \in Procs : proc'[q].pc \in Locked)
  BY OneStep
<1>3. TypeOK'
  BY <1>2 DEF Inv, TypeOK, States, sshd
<1> QED
  BY <1>1, <1>2, <1>3 DEF Inv

-----------------------------------------------------------------------------
(* One lemma for each action. *)

LEMMA CommandStep ==
  ASSUME NoOverlap, Inv, NEW p \in Procs, NEW remove \in BOOLEAN, Command(p, remove) PROVE Inv'
<1>1. /\ proc[p].pc = "idle" /\ \A q \in Procs : proc[q].pc = "idle"
      /\ proc \in [Procs -> States] /\ ~lock
  BY DEF Command, Alone, At, NoOverlap, Inv, TypeOK, States, Locked
<1>2. UNCHANGED <<receipt, sshd, type, running, installed, lock, bounds, faults, edits, edited>>
  BY DEF Command, sshd, bounds
<1> DEFINE n == [Idle EXCEPT !.pc = "record", !.remove = remove, !.type = type,
                             !.running = running]
<1>3. n \in States /\ n.pc = "record" /\ n.type = type /\ n.running = running
  BY IdleTyped DEF Idle, States, Pcs, Inv, TypeOK
<1>4. proc' = [proc EXCEPT ![p] = n]
  BY DEF Command
<1> HIDE DEF n
<1>5. /\ proc' \in [Procs -> States] /\ \A q \in Procs : q # p => proc'[q].pc = "idle"
      /\ proc'[p].pc = "record" /\ proc'[p].type = type /\ proc'[p].running = running
  BY <1>1, <1>3, <1>4
<1>6. Knows(p)'
  BY <1>2, <1>5 DEF Knows, Read, Applies, Removes, Locked
<1> QED
  BY <1>1, <1>2, <1>5, <1>6, QuietStep DEF Locked, Inv, TypeOK

LEMMA ReadReceiptStep == ASSUME Inv, NEW p \in Procs, ReadReceipt(p) PROVE Inv'
<1>1. proc[p].pc = "record"
  BY DEF ReadReceipt, At
<1>2. /\ proc \in [Procs -> States] /\ proc[p] \in States /\ Read(p) /\ ~lock
      /\ \A q \in Procs : q # p => proc[q].pc = "idle"
  BY <1>1, UnderWay DEF At, Knows, Locked
<1>3. UNCHANGED <<receipt, sshd, type, running, installed, lock, bounds, faults, edits, edited>>
  BY DEF ReadReceipt, sshd, bounds
<1> DEFINE n == [proc[p] EXCEPT !.pc = "plan", !.got = receipt]
<1>4. /\ n \in States /\ n.pc = "plan" /\ n.type = proc[p].type
      /\ n.running = proc[p].running /\ n.got = receipt
  BY <1>2 DEF States, Pcs, Inv, TypeOK
<1>5. proc' = [proc EXCEPT ![p] = n]
  BY <1>2 DEF ReadReceipt
<1> HIDE DEF n
<1>6. /\ proc' \in [Procs -> States] /\ \A q \in Procs : q # p => proc'[q].pc = "idle"
      /\ proc'[p] = n
  BY <1>2, <1>4, <1>5
<1>7. Knows(p)'
  BY <1>1, <1>2, <1>3, <1>4, <1>6 DEF Knows, Read, Applies, Removes, Locked
<1> QED
  BY <1>2, <1>3, <1>4, <1>6, <1>7, QuietStep DEF Locked, Inv, TypeOK

\* A command that ends without a change.
LEMMA DoneStep ==
  ASSUME Inv, NEW p \in Procs, ~At(p, "idle"), Done(p), lock' = FALSE,
         UNCHANGED <<receipt, sshd, installed, edits, edited>>, faults' \in 0 .. MaxFaults
  PROVE  Inv'
<1>1. proc \in [Procs -> States] /\ \A q \in Procs : q # p => proc[q].pc = "idle"
  BY UnderWay
<1>2. /\ proc' \in [Procs -> States] /\ \A q \in Procs : q # p => proc'[q].pc = "idle"
      /\ proc'[p].pc = "idle"
  BY <1>1, DoneEffect
<1>3. Knows(p)'
  BY <1>2 DEF Knows, Read, Applies, Removes, Locked
<1>4. lock' \in BOOLEAN /\ (lock' <=> proc'[p].pc \in Locked)
  BY <1>2 DEF Locked
<1> QED
  BY <1>2, <1>3, <1>4, QuietStep

LEMMA InterruptedStep == ASSUME Inv, NEW p \in Procs, Interrupted(p) PROVE Inv'
<1>1. lock <=> proc[p].pc \in Locked
  BY UnderWay DEF Interrupted
<1>2. faults' \in 0 .. MaxFaults
  BY SSHAssumption DEF Interrupted, Inv, TypeOK
<1>3. ~At(p, "idle") /\ Done(p) /\ lock' = FALSE /\ UNCHANGED <<receipt, sshd, installed, edits, edited>>
  BY <1>1 DEF Interrupted
<1> QED
  BY <1>2, <1>3, DoneStep

LEMMA PlanTyped ==
  ASSUME Inv, NEW p \in Procs, proc[p] \in States
  PROVE  PlanOf(p) \in Plans
<1>1. CASE Live(proc[p].got)
  <2>1. proc[p].got \in Receipts /\ proc[p].got.plan \in Plans
    BY <1>1 DEF Live, States, Receipts
  <2> QED
    BY <1>1, <2>1 DEF PlanOf, Plans
<1>2. CASE ~Live(proc[p].got)
  BY <1>2 DEF PlanOf, Plans, States, Inv, TypeOK
<1> QED
  BY <1>1, <1>2

LEMMA PlanApplyStep == ASSUME Inv, NEW p \in Procs, PlanApply(p) PROVE Inv'
<1> DEFINE plan == PlanOf(p)
           create == plan.rule /\ rule = "absent"
<1>1. proc[p].pc = "plan"
  BY DEF PlanApply, At
<1>2. /\ proc \in [Procs -> States] /\ proc[p] \in States /\ Read(p) /\ ~lock
      /\ \A q \in Procs : q # p => proc[q].pc = "idle"
  BY <1>1, UnderWay DEF At, Knows, Locked
<1>3. /\ UNCHANGED <<receipt, sshd, type, running, rule, admitting, was, ours, installed, lock>>
      /\ UNCHANGED <<faults, edits, edited>>
  BY DEF PlanApply, sshd, bounds
<1>4. CASE Done(p)
  BY <1>1, <1>2, <1>3, <1>4, DoneStep DEF At, Inv, TypeOK
<1>5. CASE ~Done(p)
  <2> DEFINE n == [proc[p] EXCEPT !.pc = "apply", !.plan = plan, !.create = create]
  <2>1. /\ proc' = [proc EXCEPT ![p] = n]
        /\ ~(plan.rule /\ rule = "modified")
        /\ Live(proc[p].got) => proc[p].got.plan = plan
    BY <1>2, <1>5 DEF PlanApply
  <2>2. plan \in Plans
    BY <1>2, PlanTyped
  <2>3. ~Live(proc[p].got) => plan.prior = proc[p].type
    BY DEF PlanOf
  <2>4. plan.rule \in BOOLEAN
    BY <2>2 DEF Plans
  <2> HIDE DEF plan
  <2>5. /\ n \in States /\ n.pc = "apply" /\ n.type = proc[p].type /\ n.got = proc[p].got
        /\ n.running = proc[p].running /\ n.plan = plan /\ n.create = create
    BY <1>2, <2>2, <2>4 DEF States, Pcs
  <2> HIDE DEF n
  <2>6. /\ proc' \in [Procs -> States] /\ \A q \in Procs : q # p => proc'[q].pc = "idle"
        /\ proc'[p] = n
    BY <1>2, <2>1, <2>5
  <2>7. Read(p)' /\ Removes(p)'
    BY <1>1, <1>2, <1>3, <2>5, <2>6 DEF Read, Removes, Locked, Live
  <2>8. rule \in {"absent", "exact", "modified"} /\ proc[p].type = type /\ proc[p].got = receipt
    BY <1>1, <1>2 DEF Inv, TypeOK, Read
  <2>9. Applies(p)'
    BY <1>3, <2>1, <2>3, <2>5, <2>6, <2>8 DEF Applies, Live
  <2> QED
    BY <1>2, <1>3, <2>5, <2>6, <2>7, <2>9, QuietStep DEF Locked, Inv, TypeOK, Knows
<1> QED
  BY <1>4, <1>5

LEMMA PlanRemoveStep == ASSUME Inv, NEW p \in Procs, PlanRemove(p) PROVE Inv'
<1> DEFINE got == proc[p].got
           plan == [got.plan EXCEPT !.auto = got.plan.auto /\ proc[p].type = "Automatic",
                                    !.rule = got.plan.rule /\ rule = "exact"]
<1>1. proc[p].pc = "plan"
  BY DEF PlanRemove, At
<1>2. /\ proc \in [Procs -> States] /\ proc[p] \in States /\ Read(p) /\ ~lock
      /\ \A q \in Procs : q # p => proc[q].pc = "idle"
  BY <1>1, UnderWay DEF At, Knows, Locked
<1>3. /\ UNCHANGED <<receipt, sshd, type, running, rule, admitting, was, ours, installed, lock>>
      /\ UNCHANGED <<faults, edits, edited>>
  BY DEF PlanRemove, sshd, bounds
<1>4. CASE ~Live(got)
  BY <1>1, <1>2, <1>3, <1>4, DoneStep DEF At, Inv, TypeOK, PlanRemove
<1>5. CASE Live(got)
  <2>1. proc' = [proc EXCEPT ![p] = [proc[p] EXCEPT !.pc = "remove", !.plan = plan]]
    BY <1>2, <1>5 DEF PlanRemove
  <2>2. got \in Receipts /\ got.plan \in Plans
    BY <1>2, <1>5 DEF Live, States, Receipts
  <2>3. /\ plan \in Plans /\ plan.prior = got.plan.prior
        /\ plan.auto = (got.plan.auto /\ proc[p].type = "Automatic")
        /\ plan.rule = (got.plan.rule /\ rule = "exact")
    BY <2>2 DEF Plans
  <2> HIDE DEF plan
  <2> DEFINE n == [proc[p] EXCEPT !.pc = "remove", !.plan = plan]
  <2>4. n \in States /\ n.pc = "remove" /\ n.type = proc[p].type /\ n.got = got /\ n.plan = plan
    BY <1>2, <2>3 DEF States, Pcs
  <2> HIDE DEF n
  <2>5. /\ proc' \in [Procs -> States] /\ \A q \in Procs : q # p => proc'[q].pc = "idle"
        /\ proc'[p] = n
    BY <1>2, <2>1, <2>4 DEF n
  <2>6. proc[p].type = type /\ got = receipt
    BY <1>1, <1>2 DEF Read
  <2>7. Read(p)' /\ Applies(p)'
    BY <1>3, <1>5, <2>4, <2>5, <2>6 DEF Read, Applies, Locked, Live
  <2>8. (ours => plan.auto) /\ (rule = "exact" => plan.rule)
    BY <2>3, <2>6 DEF Inv, Kept
  <2>9. Removes(p)'
    BY <1>3, <2>4, <2>5, <2>8 DEF Removes
  <2> QED
    BY <1>2, <1>3, <2>4, <2>5, <2>7, <2>9, QuietStep DEF Locked, Inv, TypeOK, Knows
<1> QED
  BY <1>4, <1>5

\* A step from one place of a command to the next.
LEMMA MoveStep ==
  ASSUME Inv, NEW p \in Procs, ~At(p, "idle"), NEW pc \in Pcs, To(p, pc),
         lock' \in BOOLEAN, lock' <=> pc \in Locked, Knows(p)', Kept', Holds',
         receipt' \in Receipts \cup {NoReceipt}, type' \in Types, was' \in Types,
         running' \in BOOLEAN, ours' \in BOOLEAN, rule' \in {"absent", "exact", "modified"},
         edited' \in BOOLEAN, UNCHANGED <<admitting, installed, faults, edits>>
  PROVE  Inv'
<1>1. proc \in [Procs -> States] /\ \A q \in Procs : q # p => proc[q].pc = "idle"
  BY UnderWay
<1>2. /\ proc' \in [Procs -> States] /\ \A q \in Procs : q # p => proc'[q].pc = "idle"
      /\ proc'[p].pc = pc
  BY <1>1, ToEffect
<1>3. One' /\ (\A q \in Procs : Knows(q)') /\ (lock' <=> \E q \in Procs : proc'[q].pc \in Locked)
  BY <1>2, OneStep
<1>4. TypeOK'
  BY <1>2, <1>3 DEF Inv, TypeOK, States
<1> QED
  BY <1>3, <1>4 DEF Inv

\* What such a step starts from.
LEMMA Moving ==
  ASSUME Inv, NEW p \in Procs, ~At(p, "idle")
  PROVE  /\ proc \in [Procs -> States] /\ proc[p] \in States /\ proc[p].plan \in Plans
         /\ Read(p) /\ Applies(p) /\ Removes(p)
         /\ lock \in BOOLEAN /\ (lock <=> proc[p].pc \in Locked)
         /\ TypeOK /\ Kept /\ Holds
BY UnderWay DEF Knows, States, Inv

LEMMA PublishApplyingStep == ASSUME Inv, NEW p \in Procs, PublishApplying(p) PROVE Inv'
<1> DEFINE plan == proc[p].plan
<1>1. proc[p].pc = "apply" /\ To(p, "type") /\ lock' = TRUE /\ ~At(p, "idle")
  BY DEF PublishApplying, At, Take
<1>2. /\ receipt' = [state |-> "applying", plan |-> plan] /\ edited' = TRUE
      /\ UNCHANGED <<type, running, rule, admitting, was, ours, installed, faults, edits>>
  BY DEF PublishApplying, sshd, bounds
<1>3. /\ proc \in [Procs -> States] /\ proc[p] \in States /\ plan \in Plans
      /\ Read(p) /\ Applies(p) /\ Kept /\ TypeOK
  BY <1>1, Moving
<1>4. /\ proc'[p].pc = "type" /\ proc'[p].plan = plan /\ proc'[p].type = proc[p].type
      /\ proc'[p].running = proc[p].running /\ proc'[p].create = proc[p].create
  BY <1>1, <1>3, ToEffect DEF Pcs
<1>5. /\ receipt' \in Receipts /\ receipt'.plan = plan /\ receipt'.state = "applying"
      /\ receipt' # NoReceipt
  BY <1>2, <1>3, ReceiptAssumption DEF Receipts
<1>6. IF Live(receipt) THEN plan = receipt.plan ELSE plan.prior = type
  BY <1>1, <1>3 DEF Applies
<1>7. Kept'
  BY <1>2, <1>3, <1>5, <1>6 DEF Kept, Live
<1>8. Knows(p)'
  BY <1>1, <1>2, <1>3, <1>4 DEF Knows, Read, Applies, Removes
<1>9. Holds'
  BY <1>2 DEF Holds
<1> QED
  BY <1>1, <1>2, <1>3, <1>5, <1>7, <1>8, <1>9, MoveStep DEF Locked, Pcs, TypeOK

LEMMA SetTypeStep == ASSUME Inv, NEW p \in Procs, SetType(p) PROVE Inv'
<1> DEFINE plan == proc[p].plan
<1>1. proc[p].pc = "type" /\ To(p, "start") /\ ~At(p, "idle")
  BY DEF SetType, At
<1>2. /\ type' = IF NeedsType(p, plan) THEN "Automatic" ELSE type
      /\ ours' = (ours \/ NeedsType(p, plan))
      /\ UNCHANGED <<receipt, running, rule, admitting, was, installed, lock, faults, edits, edited>>
  BY DEF SetType, bounds
<1>3. /\ proc \in [Procs -> States] /\ proc[p] \in States /\ plan \in Plans
      /\ Read(p) /\ Applies(p) /\ Kept /\ Holds /\ TypeOK /\ lock \in BOOLEAN
      /\ lock <=> proc[p].pc \in Locked
  BY <1>1, Moving
<1>4. /\ proc'[p].pc = "start" /\ proc'[p].plan = plan
      /\ proc'[p].running = proc[p].running /\ proc'[p].create = proc[p].create
  BY <1>1, <1>3, ToEffect DEF Pcs
<1>5. /\ receipt.plan = plan /\ receipt.state = "applying" /\ proc[p].type = type /\ edited
  BY <1>1, <1>3 DEF Applies, Read, Locked
<1>6. ours' \in BOOLEAN /\ (ours' <=> ours \/ NeedsType(p, plan)) /\ type' \in Types
  BY <1>2, <1>3, SSHAssumption DEF TypeOK
<1>7. Live(receipt)
  BY <1>1, <1>3, <1>5, ReceiptAssumption DEF Applies, Live, Receipts
<1>8. Kept'
  BY <1>2, <1>3, <1>5, <1>6, <1>7 DEF Kept, Live, NeedsType
<1>9. Knows(p)'
  BY <1>1, <1>2, <1>3, <1>4, <1>5 DEF Knows, Read, Applies, Removes, NeedsType
<1>10. Holds'
  BY <1>2, <1>5 DEF Holds
<1> QED
  BY <1>1, <1>2, <1>3, <1>6, <1>8, <1>9, <1>10, MoveStep DEF Locked, Pcs, TypeOK

LEMMA StartServiceStep == ASSUME Inv, NEW p \in Procs, StartService(p) PROVE Inv'
<1> DEFINE plan == proc[p].plan
<1>1. proc[p].pc = "start" /\ To(p, "rule") /\ ~At(p, "idle")
  BY DEF StartService, At
<1>2. /\ running' = (running \/ NeedsStart(p, plan))
      /\ UNCHANGED <<receipt, type, rule, admitting, was, ours, installed, lock, faults, edits, edited>>
  BY DEF StartService, bounds
<1>3. /\ proc \in [Procs -> States] /\ proc[p] \in States /\ plan \in Plans
      /\ Read(p) /\ Applies(p) /\ Kept /\ Holds /\ TypeOK /\ lock \in BOOLEAN
      /\ lock <=> proc[p].pc \in Locked
  BY <1>1, Moving
<1>4. /\ proc'[p].pc = "rule" /\ proc'[p].plan = plan /\ proc'[p].create = proc[p].create
  BY <1>1, <1>3, ToEffect DEF Pcs
<1>5. running' \in BOOLEAN /\ (running' <=> running \/ NeedsStart(p, plan))
  BY <1>2
<1>6. /\ receipt.plan = plan /\ receipt.state = "applying" /\ proc[p].running = running /\ edited
  BY <1>1, <1>3 DEF Applies, Read, Locked
<1>7. Kept'
  BY <1>2, <1>3 DEF Kept, Live
<1>8. Knows(p)'
  BY <1>1, <1>2, <1>3, <1>4, <1>5, <1>6 DEF Knows, Read, Applies, Removes, NeedsStart
<1>9. Holds'
  BY <1>2, <1>6 DEF Holds
<1> QED
  BY <1>1, <1>2, <1>3, <1>5, <1>7, <1>8, <1>9, MoveStep DEF Locked, Pcs, TypeOK

LEMMA CreateRuleStep == ASSUME Inv, NEW p \in Procs, CreateRule(p) PROVE Inv'
<1> DEFINE plan == proc[p].plan
<1>1. proc[p].pc = "rule" /\ To(p, "applied") /\ ~At(p, "idle")
  BY DEF CreateRule, At
<1>2. /\ rule' = IF proc[p].create /\ rule = "absent" THEN "exact" ELSE rule
      /\ UNCHANGED <<receipt, type, running, admitting, was, ours, installed, lock, faults, edits, edited>>
  BY DEF CreateRule, bounds
<1>3. /\ proc \in [Procs -> States] /\ proc[p] \in States /\ plan \in Plans
      /\ Read(p) /\ Applies(p) /\ Kept /\ Holds /\ TypeOK /\ lock \in BOOLEAN
      /\ lock <=> proc[p].pc \in Locked
  BY <1>1, Moving
<1>4. proc'[p].pc = "applied" /\ proc'[p].plan = plan
  BY <1>1, <1>3, ToEffect DEF Pcs
<1>5. /\ receipt = [state |-> "applying", plan |-> plan] /\ edited
      /\ receipt # NoReceipt /\ receipt.plan = plan /\ receipt.state = "applying"
  BY <1>1, <1>3, ReceiptAssumption DEF Applies, Read, Locked, Receipts
<1>6. /\ proc[p].create => plan.rule
      /\ plan.rule => rule = "exact" \/ (proc[p].create /\ rule = "absent")
  BY <1>1, <1>3 DEF Applies
<1>7. plan.rule => rule' = "exact"
  BY <1>2, <1>6
<1>8. Kept'
  BY <1>2, <1>3, <1>5, <1>6 DEF Kept, Live
<1>9. Knows(p)'
  BY <1>1, <1>2, <1>3, <1>4, <1>5, <1>7 DEF Knows, Read, Applies, Removes
<1>10. Holds'
  BY <1>2, <1>5 DEF Holds
<1> QED
  BY <1>1, <1>2, <1>3, <1>8, <1>9, <1>10, MoveStep DEF Locked, Pcs, TypeOK

\* The last step of a command.
LEMMA GiveStep ==
  ASSUME Inv, NEW p \in Procs, ~At(p, "idle"), Give(p), Kept', Holds',
         receipt' \in Receipts \cup {NoReceipt}, was' \in Types, edited' \in BOOLEAN,
         UNCHANGED <<type, running, rule, ours, admitting, installed, faults, edits>>
  PROVE  Inv'
<1>1. proc \in [Procs -> States] /\ \A q \in Procs : q # p => proc[q].pc = "idle"
  BY UnderWay
<1>2. /\ proc' \in [Procs -> States] /\ \A q \in Procs : q # p => proc'[q].pc = "idle"
      /\ proc'[p].pc = "idle" /\ lock' = FALSE
  BY <1>1, DoneEffect DEF Give
<1>3. Knows(p)'
  BY <1>2 DEF Knows, Read, Applies, Removes, Locked
<1>4. One' /\ (\A q \in Procs : Knows(q)') /\ (lock' <=> \E q \in Procs : proc'[q].pc \in Locked)
  BY <1>2, <1>3, OneStep DEF Locked
<1>5. TypeOK'
  BY <1>2, <1>4 DEF Inv, TypeOK, States
<1> QED
  BY <1>4, <1>5 DEF Inv

LEMMA PublishAppliedStep == ASSUME Inv, NEW p \in Procs, PublishApplied(p) PROVE Inv'
<1> DEFINE plan == proc[p].plan
<1>1. proc[p].pc = "applied" /\ Give(p) /\ ~At(p, "idle")
  BY DEF PublishApplied, At
<1>2. /\ receipt' = [state |-> "applied", plan |-> plan] /\ edited' = FALSE
      /\ UNCHANGED <<type, running, rule, admitting, was, ours, installed, faults, edits>>
  BY DEF PublishApplied, sshd, bounds
<1>3. plan \in Plans /\ Applies(p) /\ Kept /\ TypeOK
  BY <1>1, Moving
<1>4. /\ receipt.plan = plan /\ receipt.state = "applying" /\ Live(receipt)
      /\ plan.auto => type = "Automatic"
      /\ plan.start => running
      /\ plan.rule => rule = "exact"
  BY <1>1, <1>3, ReceiptAssumption DEF Applies, Live, Receipts
<1>5. /\ receipt' \in Receipts /\ receipt'.plan = plan /\ receipt'.state = "applied"
      /\ receipt' # NoReceipt
  BY <1>2, <1>3, ReceiptAssumption DEF Receipts
<1>6. Kept'
  BY <1>2, <1>3, <1>4, <1>5 DEF Kept, Live
<1>7. Holds'
  BY <1>2, <1>4, <1>5 DEF Holds
<1> QED
  BY <1>1, <1>2, <1>3, <1>5, <1>6, <1>7, GiveStep DEF TypeOK

LEMMA BeginRemoveStep == ASSUME Inv, NEW p \in Procs, BeginRemove(p) PROVE Inv'
<1>1. proc[p].pc = "remove" /\ To(p, "restore") /\ lock' = TRUE /\ ~At(p, "idle")
  BY DEF BeginRemove, At, Take
<1>2. /\ edited' = TRUE
      /\ UNCHANGED <<receipt, type, running, rule, admitting, was, ours, installed, faults, edits>>
  BY DEF BeginRemove, sshd, bounds
<1>3. proc \in [Procs -> States] /\ Read(p) /\ Removes(p) /\ Kept /\ TypeOK
  BY <1>1, Moving
<1>4. proc'[p].pc = "restore" /\ proc'[p].plan = proc[p].plan /\ proc'[p].got = proc[p].got
  BY <1>1, <1>3, ToEffect DEF Pcs
<1>5. Kept' /\ Holds'
  BY <1>2, <1>3 DEF Kept, Live, Holds
<1>6. Knows(p)'
  BY <1>1, <1>2, <1>3, <1>4 DEF Knows, Read, Applies, Removes, Live
<1> QED
  BY <1>1, <1>2, <1>3, <1>5, <1>6, MoveStep DEF Locked, Pcs, TypeOK

LEMMA RestoreTypeStep == ASSUME Inv, NEW p \in Procs, RestoreType(p) PROVE Inv'
<1> DEFINE plan == proc[p].plan
<1>1. proc[p].pc = "restore" /\ To(p, "delete") /\ ~At(p, "idle")
  BY DEF RestoreType, At
<1>2. /\ type' = IF plan.auto THEN plan.prior ELSE type
      /\ ours' = (ours /\ ~plan.auto)
      /\ UNCHANGED <<receipt, running, rule, admitting, was, installed, lock, faults, edits, edited>>
  BY DEF RestoreType, bounds
<1>3. /\ proc \in [Procs -> States] /\ plan \in Plans /\ Read(p) /\ Removes(p) /\ Kept /\ Holds
      /\ TypeOK /\ lock \in BOOLEAN /\ (lock <=> proc[p].pc \in Locked)
  BY <1>1, Moving
<1>4. proc'[p].pc = "delete" /\ proc'[p].plan = plan /\ proc'[p].got = proc[p].got
  BY <1>1, <1>3, ToEffect DEF Pcs
<1>5. type' \in Types /\ ours' \in BOOLEAN /\ (ours' <=> ours /\ ~plan.auto)
  BY <1>2, <1>3 DEF Plans, TypeOK
<1>6. Live(receipt) /\ edited /\ proc[p].got = receipt /\ (ours => plan.auto)
  BY <1>1, <1>3 DEF Read, Removes, Locked
<1>7. Kept'
  BY <1>2, <1>3, <1>5, <1>6 DEF Kept, Live
<1>8. Knows(p)'
  BY <1>1, <1>2, <1>3, <1>4, <1>5, <1>6 DEF Knows, Read, Applies, Removes, Live
<1>9. Holds'
  BY <1>2, <1>6 DEF Holds
<1> QED
  BY <1>1, <1>2, <1>3, <1>5, <1>7, <1>8, <1>9, MoveStep DEF Locked, Pcs, TypeOK

LEMMA DeleteRuleStep == ASSUME Inv, NEW p \in Procs, DeleteRule(p) PROVE Inv'
<1> DEFINE plan == proc[p].plan
<1>1. proc[p].pc = "delete" /\ To(p, "removed") /\ ~At(p, "idle")
  BY DEF DeleteRule, At
<1>2. /\ rule' = IF plan.rule THEN "absent" ELSE rule
      /\ UNCHANGED <<receipt, type, running, admitting, was, ours, installed, lock, faults, edits, edited>>
  BY DEF DeleteRule, bounds
<1>3. /\ proc \in [Procs -> States] /\ Read(p) /\ Removes(p) /\ Kept /\ Holds
      /\ TypeOK /\ lock \in BOOLEAN /\ (lock <=> proc[p].pc \in Locked)
  BY <1>1, Moving
<1>4. proc'[p].pc = "removed" /\ proc'[p].plan = plan /\ proc'[p].got = proc[p].got
  BY <1>1, <1>3, ToEffect DEF Pcs
<1>5. Live(receipt) /\ edited /\ proc[p].got = receipt /\ (rule = "exact" => plan.rule) /\ ~ours
  BY <1>1, <1>3 DEF Read, Removes, Locked
<1>6. Kept'
  BY <1>2, <1>3, <1>5 DEF Kept, Live
<1>7. Knows(p)'
  BY <1>1, <1>2, <1>3, <1>4, <1>5 DEF Knows, Read, Applies, Removes, Live
<1>8. Holds'
  BY <1>2, <1>5 DEF Holds
<1> QED
  BY <1>1, <1>2, <1>3, <1>6, <1>7, <1>8, MoveStep DEF Locked, Pcs, TypeOK

LEMMA PublishRemovedStep == ASSUME Inv, NEW p \in Procs, PublishRemoved(p) PROVE Inv'
<1>1. proc[p].pc = "removed" /\ Give(p) /\ ~At(p, "idle")
  BY DEF PublishRemoved, At
<1>2. /\ receipt' = [proc[p].got EXCEPT !.state = "removed"]
      /\ was' = IF ours THEN was ELSE type
      /\ UNCHANGED <<type, running, rule, admitting, ours, installed, faults, edits, edited>>
  BY DEF PublishRemoved, bounds
<1>3. Read(p) /\ Removes(p) /\ Kept /\ TypeOK
  BY <1>1, Moving
<1>4. proc[p].got = receipt /\ receipt \in Receipts /\ ~ours /\ rule # "exact" /\ edited
  BY <1>1, <1>3 DEF Read, Removes, Locked, TypeOK, Live
<1>5. receipt' \in Receipts /\ receipt'.state = "removed"
  BY <1>2, <1>4 DEF Receipts
<1>6. Kept'
  BY <1>2, <1>4, <1>5 DEF Kept, Live
<1>7. Holds'
  BY <1>2, <1>4 DEF Holds
<1> QED
  BY <1>1, <1>2, <1>3, <1>4, <1>5, <1>6, <1>7, GiveStep DEF TypeOK

LEMMA EditStep == ASSUME NoOverlap, Inv, Edit PROVE Inv'
<1>1. \A p \in Procs : proc'[p].pc = "idle" /\ proc' = proc /\ lock' = lock
  BY DEF Edit, Alone, At, NoOverlap
<1>2. One' /\ \A p \in Procs : Knows(p)'
  BY <1>1 DEF One, At, Knows, Read, Applies, Removes, Locked
<1>3. edits' \in 0 .. MaxEdits /\ faults' = faults /\ edited' = TRUE /\ receipt' = receipt
      /\ proc' = proc /\ lock' = lock
  BY SSHAssumption DEF Edit, Inv, TypeOK
<1>4. TypeOK' /\ Kept'
  <2>1. CASE /\ type' \in Types \ {type} /\ ours' = FALSE
             /\ was' = IF Live(receipt) THEN was ELSE type'
             /\ UNCHANGED <<running, rule, admitting, installed>>
    BY <1>3, <2>1 DEF Inv, TypeOK, Kept, Live
  <2>2. CASE running' = ~running /\ UNCHANGED <<type, was, ours, rule, admitting, installed>>
    <3>1. running' \in BOOLEAN
      BY <2>2
    <3> QED
      BY <1>3, <2>2, <3>1 DEF Inv, TypeOK, Kept, Live
  <2>3. CASE /\ rule = "exact" /\ rule' \in {"absent", "modified"}
             /\ UNCHANGED <<type, was, ours, running, admitting, installed>>
    BY <1>3, <2>3 DEF Inv, TypeOK, Kept, Live
  <2>4. CASE admitting' = ~admitting /\ UNCHANGED <<type, was, ours, running, rule, installed>>
    <3>1. admitting' \in BOOLEAN
      BY <2>4
    <3> QED
      BY <1>3, <2>4, <3>1 DEF Inv, TypeOK, Kept, Live
  <2>5. CASE installed /\ installed' = FALSE /\ UNCHANGED sshd
    BY <1>3, <2>5 DEF Inv, TypeOK, Kept, Live, sshd
  <2> QED
    BY <2>1, <2>2, <2>3, <2>4, <2>5 DEF Edit
<1>5. Holds'
  BY <1>3 DEF Holds
<1> QED
  BY <1>2, <1>4, <1>5 DEF Inv

-----------------------------------------------------------------------------

LEMMA InitInv == ASSUME Init PROVE Inv
<1>1. \A p \in Procs : proc[p] = Idle /\ proc[p].pc = "idle"
  BY IdleTyped DEF Init
<1>2. proc \in [Procs -> States] /\ lock = FALSE /\ receipt = NoReceipt
  BY IdleTyped DEF Init
<1>3. TypeOK
  <2>1. \A p \in Procs : proc[p].pc \notin Locked
    BY <1>1 DEF Locked
  <2>2. faults \in 0 .. MaxFaults /\ edits \in 0 .. MaxEdits
    BY SSHAssumption DEF Init
  <2>3. /\ receipt \in Receipts \cup {NoReceipt} /\ rule \in {"absent", "exact", "modified"}
        /\ type \in Types /\ was \in Types /\ running \in BOOLEAN /\ admitting \in BOOLEAN
        /\ installed \in BOOLEAN /\ ours \in BOOLEAN /\ edited \in BOOLEAN /\ lock \in BOOLEAN
    BY DEF Init
  <2> QED
    BY <1>2, <2>1, <2>2, <2>3 DEF TypeOK, States
<1>4. One /\ \A p \in Procs : Knows(p)
  BY <1>1 DEF One, At, Knows, Read, Applies, Removes, Locked
<1>5. Kept /\ Holds
  BY DEF Init, Kept, Holds, Live
<1> QED
  BY <1>3, <1>4, <1>5 DEF Inv

LEMMA NextInv == ASSUME NoOverlap, Inv, Next PROVE Inv'
<1>1. ASSUME NEW p \in Procs, Command(p, TRUE) \/ Command(p, FALSE) PROVE Inv'
  BY <1>1, CommandStep
<1>2. ASSUME NEW p \in Procs, Step(p) PROVE Inv'
  <2>1. CASE ReadReceipt(p) \/ PlanApply(p) \/ PlanRemove(p)
    BY <2>1, ReadReceiptStep, PlanApplyStep, PlanRemoveStep
  <2>2. CASE PublishApplying(p) \/ SetType(p) \/ StartService(p) \/ CreateRule(p)
    BY <2>2, PublishApplyingStep, SetTypeStep, StartServiceStep, CreateRuleStep
  <2>3. CASE BeginRemove(p) \/ RestoreType(p) \/ DeleteRule(p)
    BY <2>3, BeginRemoveStep, RestoreTypeStep, DeleteRuleStep
  <2>4. CASE PublishApplied(p) \/ PublishRemoved(p)
    BY <2>4, PublishAppliedStep, PublishRemovedStep
  <2> QED
    BY <1>2, <2>1, <2>2, <2>3, <2>4 DEF Step
<1>3. ASSUME NEW p \in Procs, Interrupted(p) PROVE Inv'
  BY <1>3, InterruptedStep
<1>4. CASE Edit
  BY <1>4, EditStep
<1> QED
  BY <1>1, <1>2, <1>3, <1>4 DEF Next

LEMMA StutterInv == ASSUME Inv, UNCHANGED vars PROVE Inv'
BY DEF Inv, vars, sshd, bounds, TypeOK, One, At, Kept, Holds, Live, Knows, Read, Applies, Removes

\* The inductive invariant of `setup ssh': what each step of a command has read and done,
\* and what the receipt says of the host at that moment.
THEOREM Invariant == NoOverlap => (Spec => []Inv)
<1>1. ASSUME NoOverlap PROVE Inv /\ [Next]_vars => Inv'
  BY <1>1, NextInv, StutterInv
<1>2. Init => Inv
  BY InitInv
<1>3. ASSUME NoOverlap PROVE Spec => []Inv
  <2>1. Inv /\ [Next]_vars => Inv'
    BY <1>1, <1>3
  <2> QED
    BY <1>2, <2>1, PTL DEF Spec
<1> QED
  BY <1>3

\* The receipt can take back all that apply has done, for any start types and any number
\* of interruptions and of changes by the administrator between two commands.
THEOREM ReceiptIsTrue == NoOverlap => (Spec => []ReceiptTrue)
<1>1. Inv => ReceiptTrue
  BY DEF Inv, Kept, Holds, ReceiptTrue
<1>2. ASSUME NoOverlap PROVE Spec => []ReceiptTrue
  <2>1. Spec => []Inv
    BY <1>2, Invariant
  <2> QED
    BY <1>1, <2>1, PTL
<1> QED
  BY <1>2

=============================================================================
