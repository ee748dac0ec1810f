------------------------------- MODULE SSHSetup -------------------------------
(* `setup ssh' of internal/windowsinstall: it opens the way to sshd for one    *)
(* installation, by the start type and state of the service and one firewall   *)
(* rule, and takes that back.  A command reads the facts and its receipt,      *)
(* plans, and only then takes the maintenance locks and changes the host step  *)
(* by step; it may end at any of them and be repeated.  The administrator may  *)
(* change the service and the rules himself.                                   *)
EXTENDS Naturals

CONSTANTS
  Procs,          \* the processes of commands
  Types,          \* the start types of a service, "Automatic" among them
  NoReceipt,
  Overlap,        \* commands and the administrator may meet a command under way
  MaxFaults,      \* how many commands may be interrupted
  MaxEdits        \* how often the administrator may change something

ASSUME SSHAssumption ==
  "Automatic" \in Types /\ Overlap \in BOOLEAN /\ MaxFaults \in Nat /\ MaxEdits \in Nat

VARIABLES
  receipt,        \* ssh-preparation/<installation>.json, or NoReceipt
  type, running,  \* the sshd service
  rule,           \* the firewall rule of the installation's name
  admitting,      \* some other enabled rule admits the port
  installed,      \* the installation receipt says so
  proc,           \* the commands
  lock,           \* somebody holds the maintenance locks
  faults, edits,
  was, ours,      \* ghosts: the start type before this preparation, and whether setup
                  \* chose the one that stands
  edited          \* ghost: something changed since apply was last completed

sshd == <<type, running, rule, admitting, was, ours>>
bounds == <<faults, edits>>
vars == <<receipt, sshd, installed, proc, lock, bounds, edited>>

Plans == [prior: Types, auto: BOOLEAN, start: BOOLEAN, rule: BOOLEAN, admits: BOOLEAN]
Receipts == [state: {"applying", "applied", "removed"}, plan: Plans]
ASSUME ReceiptAssumption == NoReceipt \notin Receipts
NoPlan == [prior |-> "Automatic", auto |-> FALSE, start |-> FALSE, rule |-> FALSE,
           admits |-> FALSE]
Pcs == {"idle", "record", "plan", "apply", "type", "start", "rule", "applied",
        "remove", "restore", "delete", "removed"}
Locked == {"type", "start", "rule", "applied", "restore", "delete", "removed"}

TypeOK ==
  /\ receipt \in Receipts \cup {NoReceipt}
  /\ type \in Types /\ was \in Types
  /\ running \in BOOLEAN /\ admitting \in BOOLEAN /\ installed \in BOOLEAN
  /\ rule \in {"absent", "exact", "modified"}
  /\ proc \in [Procs -> [pc: Pcs, remove: BOOLEAN, type: Types, running: BOOLEAN,
                         got: Receipts \cup {NoReceipt}, plan: Plans, create: BOOLEAN]]
  /\ lock \in BOOLEAN /\ (lock <=> \E p \in Procs : proc[p].pc \in Locked)
  /\ ours \in BOOLEAN
  /\ faults \in 0 .. MaxFaults /\ edits \in 0 .. MaxEdits /\ edited \in BOOLEAN

Idle == [pc |-> "idle", remove |-> FALSE, type |-> "Automatic", running |-> TRUE,
         got |-> NoReceipt, plan |-> NoPlan, create |-> FALSE]

Init ==
  /\ receipt = NoReceipt /\ type \in Types /\ was = type /\ ours = FALSE /\ running \in BOOLEAN
  /\ rule = "absent" /\ admitting \in BOOLEAN /\ installed = TRUE
  /\ proc = [p \in Procs |-> Idle] /\ lock = FALSE
  /\ faults = MaxFaults /\ edits = MaxEdits /\ edited = TRUE

-----------------------------------------------------------------------------

Live(r) == r # NoReceipt /\ r.state # "removed"
At(p, pc) == proc[p].pc = pc
To(p, pc) == proc' = [proc EXCEPT ![p].pc = pc]
Done(p) == proc' = [proc EXCEPT ![p] = Idle]
Alone == Overlap \/ \A p \in Procs : At(p, "idle")

\* PrepareSSH reads the facts of sshd first ...
Command(p, remove) ==
  /\ At(p, "idle") /\ Alone /\ (remove \/ installed)
  /\ proc' = [proc EXCEPT ![p] = [Idle EXCEPT !.pc = "record", !.remove = remove,
                                              !.type = type, !.running = running]]
  /\ UNCHANGED <<receipt, sshd, installed, lock, bounds, edited>>

\* ... and the receipt then.
ReadReceipt(p) ==
  /\ At(p, "record") /\ proc' = [proc EXCEPT ![p].pc = "plan", ![p].got = receipt]
  /\ UNCHANGED <<receipt, sshd, installed, lock, bounds, edited>>

\* The plan of a live receipt is the recorded one, but for the admitting rule; any
\* other is made from the facts.
PlanOf(p) ==
  IF Live(proc[p].got) THEN [proc[p].got.plan EXCEPT !.admits = FALSE]
  ELSE [prior |-> proc[p].type, auto |-> proc[p].type # "Automatic",
        start |-> ~proc[p].running, rule |-> ~admitting, admits |-> admitting]

NeedsType(p, plan) == plan.auto /\ proc[p].type # "Automatic"
NeedsStart(p, plan) == plan.start /\ ~proc[p].running
NeedsService(p, plan) == NeedsType(p, plan) \/ NeedsStart(p, plan)

\* What is converged or unchanged, a changed rule and a receipt of another plan end
\* an apply here.
PlanApply(p) ==
  /\ At(p, "plan") /\ ~proc[p].remove
  /\ LET plan == PlanOf(p)
         create == plan.rule /\ rule = "absent"
         converged == ~NeedsService(p, plan) /\ ~create
                        /\ (Live(proc[p].got) => proc[p].got.state = "applied")
         refused == (plan.rule /\ rule = "modified")
                      \/ (Live(proc[p].got) /\ proc[p].got.plan # plan)
     IN IF converged \/ refused THEN Done(p)
        ELSE proc' = [proc EXCEPT ![p].pc = "apply", ![p].plan = plan, ![p].create = create]
  /\ UNCHANGED <<receipt, sshd, installed, lock, bounds, edited>>

Take(p, pc) == ~lock /\ lock' = TRUE /\ To(p, pc)
Give(p) == lock' = FALSE /\ Done(p)

\* Mutant: the receipt is written only when everything is done.
ApplyUnrecorded(p) ==
  /\ At(p, "apply") /\ Take(p, "type") /\ edited' = TRUE
  /\ UNCHANGED <<receipt, sshd, installed, bounds>>

\* Under the locks the receipt goes ahead of the changes.
PublishApplying(p) ==
  /\ At(p, "apply") /\ Take(p, "type")
  /\ receipt' = [state |-> "applying", plan |-> proc[p].plan] /\ edited' = TRUE
  /\ UNCHANGED <<sshd, installed, bounds>>

SetType(p) ==
  /\ At(p, "type") /\ To(p, "start")
  /\ type' = IF NeedsType(p, proc[p].plan) THEN "Automatic" ELSE type
  /\ ours' = (ours \/ NeedsType(p, proc[p].plan))
  /\ UNCHANGED <<receipt, running, rule, admitting, was, installed, lock, bounds, edited>>

StartService(p) ==
  /\ At(p, "start") /\ To(p, "rule")
  /\ running' = (running \/ NeedsStart(p, proc[p].plan))
  /\ UNCHANGED <<receipt, type, rule, admitting, was, ours, installed, lock, bounds, edited>>

\* A rule of this name that is there by now is left as it is.
CreateRule(p) ==
  /\ At(p, "rule") /\ To(p, "applied")
  /\ rule' = IF proc[p].create /\ rule = "absent" THEN "exact" ELSE rule
  /\ UNCHANGED <<receipt, type, running, admitting, was, ours, installed, lock, bounds, edited>>

PublishApplied(p) ==
  /\ At(p, "applied") /\ Give(p)
  /\ receipt' = [state |-> "applied", plan |-> proc[p].plan] /\ edited' = FALSE
  /\ UNCHANGED <<sshd, installed, bounds>>

\* Mutant: a rule that was changed stops the removal.
PlanRemoveStrict(p) ==
  /\ At(p, "plan") /\ proc[p].remove
  /\ LET got == proc[p].got IN
     IF ~Live(got) \/ (got.plan.rule /\ rule = "modified") THEN Done(p)
     ELSE proc' = [proc EXCEPT ![p].pc = "remove", ![p].plan =
                    [got.plan EXCEPT !.auto = got.plan.auto /\ proc[p].type = "Automatic",
                                     !.rule = got.plan.rule /\ rule = "exact"]]
  /\ UNCHANGED <<receipt, sshd, installed, lock, bounds, edited>>

\* Only the start type apply set and the rule as recorded are to be reverted.
PlanRemove(p) ==
  /\ At(p, "plan") /\ proc[p].remove
  /\ LET got == proc[p].got IN
     IF ~Live(got) THEN Done(p)
     ELSE proc' = [proc EXCEPT ![p].pc = "remove", ![p].plan =
                    [got.plan EXCEPT !.auto = got.plan.auto /\ proc[p].type = "Automatic",
                                     !.rule = got.plan.rule /\ rule = "exact"]]
  /\ UNCHANGED <<receipt, sshd, installed, lock, bounds, edited>>

BeginRemove(p) ==
  /\ At(p, "remove") /\ Take(p, "restore") /\ edited' = TRUE
  /\ UNCHANGED <<receipt, sshd, installed, bounds>>

RestoreType(p) ==
  /\ At(p, "restore") /\ To(p, "delete")
  /\ type' = IF proc[p].plan.auto THEN proc[p].plan.prior ELSE type
  /\ ours' = (ours /\ ~proc[p].plan.auto)
  /\ UNCHANGED <<receipt, running, rule, admitting, was, installed, lock, bounds, edited>>

\* The rule goes by its name.
DeleteRule(p) ==
  /\ At(p, "delete") /\ To(p, "removed")
  /\ rule' = IF proc[p].plan.rule THEN "absent" ELSE rule
  /\ UNCHANGED <<receipt, type, running, admitting, was, ours, installed, lock, bounds, edited>>

PublishRemoved(p) ==
  /\ At(p, "removed") /\ Give(p)
  /\ receipt' = [proc[p].got EXCEPT !.state = "removed"]
  /\ was' = IF ours THEN was ELSE type
  /\ UNCHANGED <<type, running, rule, admitting, ours, installed, bounds, edited>>

\* A failed step, a refused lock or the end of the process.
Interrupted(p) ==
  /\ ~At(p, "idle") /\ faults > 0 /\ faults' = faults - 1 /\ Done(p)
  /\ lock' = (lock /\ proc[p].pc \notin Locked)
  /\ UNCHANGED <<receipt, sshd, installed, edits, edited>>

\* The administrator, or a removal of the installation.
Edit ==
  /\ edits > 0 /\ edits' = edits - 1 /\ Alone
  /\ \/ /\ type' \in Types \ {type} /\ ours' = FALSE
        /\ was' = IF Live(receipt) THEN was ELSE type'
        /\ UNCHANGED <<running, rule, admitting, installed>>
     \/ running' = ~running /\ UNCHANGED <<type, was, ours, rule, admitting, installed>>
     \/ /\ rule = "exact" /\ rule' \in {"absent", "modified"}
        /\ UNCHANGED <<type, was, ours, running, admitting, installed>>
     \/ admitting' = ~admitting /\ UNCHANGED <<type, was, ours, running, rule, installed>>
     \/ installed /\ installed' = FALSE /\ UNCHANGED sshd
  /\ edited' = TRUE /\ UNCHANGED <<receipt, proc, lock, faults>>

Step(p) ==
  \/ ReadReceipt(p) \/ PlanApply(p) \/ PublishApplying(p) \/ SetType(p) \/ StartService(p)
  \/ CreateRule(p) \/ PublishApplied(p) \/ PlanRemove(p) \/ BeginRemove(p) \/ RestoreType(p)
  \/ DeleteRule(p) \/ PublishRemoved(p)

Next ==
  \/ \E p \in Procs :
       Command(p, TRUE) \/ Command(p, FALSE) \/ Step(p) \/ Interrupted(p)
  \/ Edit

Spec == Init /\ [][Next]_vars

\* A command takes its next step, and the operator repeats both commands.
FairSpec ==
  Spec /\ \A p \in Procs : WF_vars(Step(p)) /\ SF_vars(Command(p, TRUE))
                            /\ SF_vars(Command(p, FALSE))

\* The operator only ever repeats the apply that he has begun.
ApplySpec ==
  Init /\ [][Next /\ \A p \in Procs : ~proc'[p].remove]_vars
       /\ \A p \in Procs : WF_vars(Step(p)) /\ SF_vars(Command(p, FALSE))

-----------------------------------------------------------------------------

\* The receipt can take back all that apply has done, whatever was interrupted and
\* repeated: a start type that setup chose stands in a live receipt together with the
\* one before this preparation, and so does the rule; and a completed apply is what it
\* says until something changes.
ReceiptTrue ==
  /\ ours => Live(receipt) /\ receipt.plan.auto /\ receipt.plan.prior = was
  /\ rule = "exact" => Live(receipt) /\ receipt.plan.rule
  /\ (receipt # NoReceipt /\ receipt.state = "applied" /\ ~edited) =>
       /\ receipt.plan.auto => type = "Automatic"
       /\ receipt.plan.start => running
       /\ receipt.plan.rule => rule = "exact"

\* Repeated removal takes every preparation back, also a half-made or changed one.
RemovalEnds == Live(receipt) ~> ~Live(receipt)

\* "A retry converges": an apply that was begun and interrupted is completed by
\* repeating it.
RetryConverges ==
  (receipt # NoReceipt /\ receipt.state = "applying")
    ~> (receipt # NoReceipt /\ receipt.state = "applied")
=============================================================================
