------------------------------ MODULE UIActions ------------------------------
(***************************************************************************)
(* One batch of UI actions (src/internal/host/uiaction.go, ui_events.py):  *)
(* the task admits and delivers one action at a time, Blender injects its  *)
(* events and acknowledges them, settle may come in between, and all three *)
(* may stop at any point.  The journal of outcomes is part of the receipt, *)
(* and result/ui-actions.json repeats it as evidence.                      *)
(*                                                                         *)
(* The Run is past its Scenario call: its Session is in the Host Lock.     *)
(* .operation.lock is held by the task or by a settle, as their program    *)
(* counters say.  Indices start at 0, as in the code: action i is entry    *)
(* i+1 of the journal.                                                     *)
(***************************************************************************)
EXTENDS Naturals, Sequences

CONSTANTS
  N,        \* number of actions in the batch
  NoFile,
  Faults    \* what may go wrong, a subset of FaultKinds

\*   crash    the task dies or gives up
\*   abandon  settle dies or gives up
\*   publish  publishing the evidence file fails, before or after it is written
\*   late     the task starts or continues the batch although an interrupted settle
\*            has recorded the stop of its Session (see README.md)
FaultKinds == {"crash", "abandon", "publish", "late"}

ASSUME NAssumption == N \in Nat \ {0}
ASSUME UIFaultsAssumption == Faults \subseteq FaultKinds

VARIABLES
  state,      \* receipt.State
  begun,      \* receipt.UIActions is not nil
  journal,    \* receipt.UIActions.Receipts, as outcomes
  listed,     \* receipt.Evidence lists result/ui-actions.json
  stopped,    \* receipt.Cleanup.SessionStopped
  closed,     \* the Host Lock is released and the cleanup known
  file,       \* result/ui-actions.json
  root,       \* the Run root
  task,       \* the interactive task: pc, index of its action, outcome it got
  settle,     \* where the settle under way is
  alive,      \* the Session's Blender runs
  next,       \* Blender: the index it expects
  injecting,  \* Blender: the calls it has accepted and not answered
  sent,       \* the calls handed to the broker and not yet begun
  events,     \* what has been injected for an action
  reply,      \* Blender's answer to the call
  ack         \* ack.json, written from a timer after the reply

receiptVars == <<state, begun, journal, listed, stopped, closed>>
disk == <<file, root>>
blender == <<alive, next, injecting, sent, events, reply, ack>>
vars == <<receiptVars, disk, task, settle, blender>>

Index == 0 .. N - 1
Outcomes == {"pending", "queued", "rejected", "uncertain"}
Terminal == {"complete", "failed", "timedout"}
States == {"calling", "interacting", "collecting"} \cup Terminal
LockedPcs == {"before", "perform", "wait", "result", "publish", "write",
              "fail", "failwrite", "failbare"}
TaskPcs == {"batch", "admit", "finish", "collect", "idle"} \cup LockedPcs
SettlePcs == {"idle", "journal", "write", "strip", "disown", "rmroot", "close"}

TypeOK ==
  /\ state \in States /\ begun \in BOOLEAN /\ journal \in Seq(Outcomes)
  /\ listed \in BOOLEAN /\ stopped \in BOOLEAN /\ closed \in BOOLEAN
  /\ file \in Seq(Outcomes) \cup {NoFile}
  /\ root \in {"owned", "empty", "absent", "orphaned"}
  /\ task \in [pc : TaskPcs, index : 0 .. N, result : Outcomes \cup {"none"}]
  /\ settle \in SettlePcs
  /\ alive \in BOOLEAN /\ next \in 0 .. N
  /\ injecting \subseteq Index /\ sent \subseteq Index
  /\ events \in [Index -> {"none", "some", "all"}]
  /\ reply \in [Index -> {"none", "pending", "rejected", "uncertain"}]
  /\ ack \in [Index -> {"none", "queued", "uncertain", "lost"}]

Init ==
  /\ state = "calling" /\ begun = FALSE /\ journal = <<>>
  /\ listed = FALSE /\ stopped = FALSE /\ closed = FALSE
  /\ file = NoFile /\ root = "owned"
  /\ task = [pc |-> "batch", index |-> 0, result |-> "none"]
  /\ settle = "idle"
  /\ alive = TRUE /\ next = 0 /\ injecting = {} /\ sent = {}
  /\ events = [i \in Index |-> "none"]
  /\ reply = [i \in Index |-> "none"]
  /\ ack = [i \in Index |-> "none"]

-----------------------------------------------------------------------------
(* Shared by the task and settle *)

\* Journal.MarkUncertain
Marked(j) ==
  IF j # <<>> /\ j[Len(j)] = "pending" THEN [j EXCEPT ![Len(j)] = "uncertain"] ELSE j

\* Mutant: the evidence is written before its pending entry is decided.
PublishRaw(j) ==
  /\ file' = j
  /\ root' = IF root = "owned" THEN root ELSE "orphaned"
\* publishUIJournal; writeJSONAtomic creates the directories it needs, those of a
\* removed Run root included.
Publish(j) ==
  /\ file' = Marked(j)
  /\ root' = IF root = "owned" THEN root ELSE "orphaned"

OperationFree == settle = "idle" /\ task.pc \notin LockedPcs
Active == ~closed
\* resumeActiveExecution, but for the fault of that name.
Resumed(pc) ==
  /\ task.pc = pc /\ OperationFree /\ Active
  /\ stopped => "late" \in Faults

Goto(pc) == task' = [task EXCEPT !.pc = pc]

-----------------------------------------------------------------------------
(* The task *)

BatchStart ==
  /\ Resumed("batch")
  /\ state' = "interacting" /\ begun' = TRUE /\ journal' = <<>>
  /\ Goto("before")
  /\ UNCHANGED <<listed, stopped, closed, disk, settle, blender>>

\* The screenshot before the actions, taken under the lock, or its failure.
BeforeCapture ==
  /\ task.pc = "before" /\ (Goto("admit") \/ Goto("fail"))
  /\ UNCHANGED <<receiptVars, disk, settle, blender>>

Admissible == state = "interacting" /\ Len(journal) = task.index

\* Mutant: the pending entry is kept in memory only.
AdmitUnrecorded ==
  /\ Resumed("admit") /\ Admissible /\ Goto("perform")
  /\ UNCHANGED <<receiptVars, disk, settle, blender>>
Admit ==
  /\ Resumed("admit")
  /\ IF Admissible
       THEN journal' = Append(journal, "pending") /\ Goto("perform")
       ELSE UNCHANGED journal /\ Goto("idle")
  /\ UNCHANGED <<state, begun, listed, stopped, closed, disk, settle, blender>>

\* The call reaches the broker, or fails before.
Perform ==
  /\ task.pc = "perform"
  /\ \/ sent' = sent \cup {task.index} /\ Goto("wait")
     \/ /\ UNCHANGED sent
        /\ \E r \in {"rejected", "uncertain"} : task' = [task EXCEPT !.pc = "result", !.result = r]
  /\ UNCHANGED <<receiptVars, disk, settle, alive, next, injecting, events, reply, ack>>

\* Mutant: the task waits for Blender for ever.
AnswerOnly(r) ==
  \/ reply[task.index] = r /\ r \in {"rejected", "uncertain"}
  \/ reply[task.index] = "pending" /\ ack[task.index] = r
\* A final reply, the acknowledgement, or no valid answer within the deadline.
Answer(r) ==
  \/ reply[task.index] = r /\ r \in {"rejected", "uncertain"}
  \/ reply[task.index] = "pending" /\ ack[task.index] = r
  \/ r = "uncertain"

Answered ==
  /\ task.pc = "wait"
  /\ \E r \in {"queued", "rejected", "uncertain"} :
       Answer(r) /\ task' = [task EXCEPT !.pc = "result", !.result = r]
  /\ UNCHANGED <<receiptVars, disk, settle, blender>>

\* The receipt in memory: the pending entry holds the outcome.
Decided ==
  IF task.result = "none" THEN journal ELSE [journal EXCEPT ![Len(journal)] = task.result]

Queued ==
  /\ task.pc = "result" /\ task.result = "queued"
  /\ journal' = Decided
  /\ task' = [pc |-> IF task.index + 1 < N THEN "admit" ELSE "finish",
              index |-> task.index + 1, result |-> "none"]
  /\ UNCHANGED <<state, begun, listed, stopped, closed, disk, settle, blender>>

NotQueued ==
  /\ task.pc = "result" /\ task.result # "queued" /\ Goto("fail")
  /\ UNCHANGED <<receiptVars, disk, settle, blender>>

Finish ==
  /\ Resumed("finish") /\ Goto("publish")
  /\ UNCHANGED <<receiptVars, disk, settle, blender>>

\* publishUIJournal, whose failure fails the Run.
FinishPublish ==
  /\ task.pc = "publish"
  /\ \/ /\ IF listed THEN UNCHANGED disk ELSE Publish(journal)
        /\ Goto("write")
     \/ /\ ~listed /\ "publish" \in Faults
        /\ (UNCHANGED disk \/ Publish(journal))
        /\ Goto("fail")
  /\ UNCHANGED <<receiptVars, settle, blender>>

FinishWrite ==
  /\ task.pc = "write"
  /\ state' = "collecting" /\ listed' = TRUE /\ journal' = Marked(journal)
  /\ Goto("collect")
  /\ UNCHANGED <<begun, stopped, closed, disk, settle, blender>>

Complete ==
  /\ Resumed("collect") /\ listed
  /\ state' = "complete" /\ Goto("idle")
  /\ UNCHANGED <<begun, journal, listed, stopped, closed, disk, settle, blender>>

\* Deadlines, captures and validation fail a resumed task at any of its phases.
ResumedFails ==
  /\ \E pc \in {"batch", "admit", "finish", "collect"} : Resumed(pc)
  /\ Goto("fail")
  /\ UNCHANGED <<receiptVars, disk, settle, blender>>

\* failReceipt: the evidence file first, then the receipt, with or without it.
FailPublish ==
  /\ task.pc = "fail"
  /\ \/ /\ IF begun /\ ~listed THEN Publish(Decided) ELSE UNCHANGED disk
        /\ Goto("failwrite")
     \/ /\ begun /\ ~listed /\ "publish" \in Faults
        /\ (UNCHANGED disk \/ Publish(Decided))
        /\ Goto("failbare")
  /\ UNCHANGED <<receiptVars, settle, blender>>

FailWrite ==
  /\ task.pc \in {"failwrite", "failbare"}
  /\ state' \in {"failed", "timedout"} /\ journal' = Marked(Decided)
  /\ listed' = (listed \/ (begun /\ task.pc = "failwrite"))
  /\ Goto("idle")
  /\ UNCHANGED <<begun, stopped, closed, disk, settle, blender>>

TaskCrash ==
  /\ task.pc # "idle" /\ "crash" \in Faults /\ Goto("idle")
  /\ UNCHANGED <<receiptVars, disk, settle, blender>>

\* Mutant: a restarted task resumes the batch where its journal ends.
RestartResumes ==
  /\ task.pc = "idle" /\ OperationFree /\ Active
  /\ state = "interacting" /\ begun /\ "crash" \in Faults
  /\ task' = [pc |-> "perform", index |-> IF journal = <<>> THEN 0 ELSE Len(journal) - 1,
              result |-> "none"]
  /\ UNCHANGED <<receiptVars, disk, settle, blender>>
\* ExecutePending again: an interrupted batch is failed, never resumed.
Restart ==
  /\ task.pc = "idle" /\ OperationFree /\ Active
  /\ state = "interacting" /\ begun
  /\ task' = [task EXCEPT !.pc = "fail", !.result = "none"]
  /\ UNCHANGED <<receiptVars, disk, settle, blender>>

-----------------------------------------------------------------------------
(* Blender *)

\* ui_action refuses it: window, focus, deadline, bounds, index, or not yet ready.
Refuse(i) ==
  /\ alive /\ i \in sent /\ injecting = {}
  /\ sent' = sent \ {i} /\ reply' = [reply EXCEPT ![i] = "rejected"]
  /\ UNCHANGED <<receiptVars, disk, task, settle, alive, next, injecting, events, ack>>

\* No earlier action awaits its acknowledgement.
Ready == \A k \in Index : reply[k] = "pending" => ack[k] # "none"

Accept(i) ==
  /\ alive /\ i \in sent /\ injecting = {} /\ next = i /\ Ready
  /\ sent' = sent \ {i} /\ injecting' = {i} /\ next' = i + 1
  /\ UNCHANGED <<receiptVars, disk, task, settle, alive, events, reply, ack>>

Inject(i) ==
  /\ alive /\ i \in injecting /\ events[i] # "all"
  /\ events' = [events EXCEPT ![i] = IF @ = "none" THEN "some" ELSE "all"]
  /\ UNCHANGED <<receiptVars, disk, task, settle, alive, next, injecting, sent, reply, ack>>

\* Mutant: the error code is put in the place of the outcome.
PartialCode(i) == "delivery-failed"
\* Mutant: a partial injection is reported as rejected.
PartialRejected(i) == "rejected"
\* An exception: nothing was attempted, or nobody knows how far it got.
Partial(i) == IF events[i] = "none" THEN "rejected" ELSE "uncertain"

Reply(i) ==
  /\ alive /\ i \in injecting
  /\ \/ events[i] = "all" /\ reply' = [reply EXCEPT ![i] = "pending"]
     \/ events[i] # "all" /\ reply' = [reply EXCEPT ![i] = Partial(i)]
     \/ reply' = [reply EXCEPT ![i] = "uncertain"]
  /\ injecting' = {}
  /\ UNCHANGED <<receiptVars, disk, task, settle, alive, next, sent, events, ack>>

\* The timer, after two traversals of the event loop.
Acknowledge(i) ==
  /\ alive /\ reply[i] = "pending" /\ ack[i] = "none"
  /\ \E a \in {"queued", "uncertain", "lost"} : ack' = [ack EXCEPT ![i] = a]
  /\ UNCHANGED <<receiptVars, disk, task, settle, alive, next, injecting, sent, events, reply>>

-----------------------------------------------------------------------------
(* settle *)

\* The Session is stopped first, and Blender with it.
SettleStop ==
  /\ OperationFree /\ Active
  /\ alive' = FALSE /\ settle' = "journal"
  /\ UNCHANGED <<receiptVars, disk, task, next, injecting, sent, events, reply, ack>>

SettleJournal ==
  /\ settle = "journal"
  /\ \/ /\ IF begun /\ ~listed THEN Publish(journal) ELSE UNCHANGED disk
        /\ settle' = "write"
        /\ UNCHANGED receiptVars
     \/ /\ begun /\ ~listed /\ "publish" \in Faults
        /\ state' = IF state \in Terminal THEN state ELSE "failed"
        /\ (UNCHANGED disk \/ Publish(journal))
        /\ journal' = Marked(journal) /\ stopped' = TRUE
        /\ settle' = "idle"
        /\ UNCHANGED <<begun, listed, closed>>
  /\ UNCHANGED <<task, blender>>

\* Mutant: settle leaves the pending entry as it is.
Unmarked(j) == j
SettleMarks(j) == Marked(j)

SettleWrite ==
  /\ settle = "write"
  /\ journal' = SettleMarks(journal) /\ listed' = (listed \/ begun) /\ stopped' = TRUE
  /\ settle' = "strip"
  /\ UNCHANGED <<state, begun, closed, disk, task, blender>>

\* Everything but ownership.json goes first; without it only an empty root goes.
SettleStrip ==
  /\ settle = "strip"
  /\ \/ root = "owned" /\ file' = NoFile /\ settle' = "disown"
     \/ root = "empty" /\ settle' = "rmroot" /\ UNCHANGED file
     \/ root = "absent" /\ settle' = "close" /\ UNCHANGED file
     \/ root = "orphaned" /\ settle' = "idle" /\ UNCHANGED file
  /\ UNCHANGED <<receiptVars, root, task, blender>>

SettleDisown ==
  /\ settle = "disown" /\ root' = "empty" /\ settle' = "rmroot"
  /\ UNCHANGED <<receiptVars, file, task, blender>>

SettleRemove ==
  /\ settle = "rmroot" /\ root' = "absent" /\ settle' = "close"
  /\ UNCHANGED <<receiptVars, file, task, blender>>

SettleClose ==
  /\ settle = "close" /\ closed' = TRUE /\ settle' = "idle"
  /\ state' = IF state \in Terminal THEN state ELSE "failed"
  /\ UNCHANGED <<begun, journal, listed, stopped, disk, task, blender>>

SettleAbandon ==
  /\ settle # "idle" /\ "abandon" \in Faults /\ settle' = "idle"
  /\ UNCHANGED <<receiptVars, disk, task, blender>>

-----------------------------------------------------------------------------

TaskStep ==
  \/ BatchStart \/ BeforeCapture \/ Admit \/ Perform \/ Answered \/ Queued \/ NotQueued
  \/ Finish \/ FinishPublish \/ FinishWrite \/ Complete
  \/ ResumedFails \/ FailPublish \/ FailWrite

BlenderStep ==
  \E i \in Index : Refuse(i) \/ Accept(i) \/ Inject(i) \/ Reply(i) \/ Acknowledge(i)

SettleStep ==
  \/ SettleJournal \/ SettleWrite \/ SettleStrip \/ SettleDisown \/ SettleRemove \/ SettleClose

Next ==
  \/ TaskStep \/ TaskCrash \/ Restart \/ BlenderStep
  \/ SettleStop \/ SettleStep \/ SettleAbandon

Spec == Init /\ [][Next]_vars

\* The task's waits are bounded by its contexts.  The client repeats its stop, and no
\* step of settle is interrupted every time.  Blender owes nothing.
FairSpec ==
  /\ Spec /\ WF_vars(TaskStep) /\ SF_vars(SettleStop)
  /\ SF_vars(SettleJournal) /\ SF_vars(SettleWrite) /\ SF_vars(SettleStrip)
  /\ SF_vars(SettleDisown) /\ SF_vars(SettleRemove) /\ SF_vars(SettleClose)

-----------------------------------------------------------------------------
(* Properties *)

\* The write-ahead rule: no event is injected for an action that is not on record,
\* and none before every earlier action has been recorded as queued.
DeliveredOnRecord ==
  \A i \in Index : events[i] # "none" =>
    /\ i < Len(journal)
    /\ \A k \in 1 .. i : journal[k] = "queued"

\* The journal never claims more, or less, than happened: queued actions were
\* injected completely, rejected ones not at all, now or later.
OutcomesTrue ==
  \A i \in Index : i < Len(journal) =>
    /\ journal[i + 1] = "queued" => events[i] = "all"
    /\ journal[i + 1] = "rejected" =>
         events[i] = "none" /\ i \notin sent \cup injecting

\* What the client demands of a terminal receipt (validateUIBatchReceipt): nothing
\* is pending, and a complete Run has delivered its whole batch.
TerminalDecided ==
  /\ state \in Terminal => \A k \in 1 .. Len(journal) : journal[k] # "pending"
  /\ state \in {"collecting", "complete"} =>
       Len(journal) = N /\ \A k \in 1 .. N : journal[k] = "queued"

\* The evidence file a terminal receipt lists is that receipt's journal (the client
\* compares them after the fetch), whoever published it.
EvidenceTrue == state \in Terminal /\ listed /\ file # NoFile => file = journal

\* Whatever is in the Run root lies beside ownership.json, without which no settle
\* would remove it.
RootOwned == root # "orphaned"

\* ValidateProgress: observed journals only grow, and a decided outcome stays.
HistoryKept ==
  [][/\ Len(journal) <= Len(journal')
     /\ \A k \in 1 .. Len(journal) : journal[k] # "pending" => journal'[k] = journal[k]]_vars

\* A batch ends although Blender never answers: the task does not hold the
\* operation lock for ever.
BatchEnds == state = "interacting" ~> state # "interacting"

=============================================================================
