--------------------------- MODULE UIActions_proof ---------------------------
(***************************************************************************)
(* The journal of a UI batch tells the truth, for batches of any length.   *)
(***************************************************************************)
EXTENDS UIActions, TLAPS

-----------------------------------------------------------------------------
(* The inductive invariant *)

\* Nothing is known of an action that has not been admitted.
Untouched(i) ==
  /\ i \notin sent \cup injecting
  /\ events[i] = "none" /\ reply[i] = "none" /\ ack[i] = "none"

\* Only the last entry may be anything but queued.
Prefix == \A k \in 1 .. Len(journal) : k < Len(journal) => journal[k] = "queued"

OnRecord == \A i \in Index : i >= Len(journal) => Untouched(i)

\* Blender answers a call once, and what it answers is so.
Calls ==
  \A i \in Index :
    /\ i \in sent => i \notin injecting /\ events[i] = "none"
    /\ i \in sent \cup injecting => reply[i] = "none"
    /\ reply[i] = "none" => ack[i] = "none"
    /\ reply[i] = "pending" => events[i] = "all"
    /\ reply[i] = "rejected" => events[i] = "none"

\* What outcome o says of action i.
Tells(i, o) ==
  /\ o = "queued" => events[i] = "all" /\ i \notin sent \cup injecting
  /\ o = "rejected" => events[i] = "none" /\ i \notin sent \cup injecting

Truth == \A i \in Index : i < Len(journal) => Tells(i, journal[i + 1])

AllQueued(n) == Len(journal) = n /\ \A k \in 1 .. n : journal[k] = "queued"

Current ==
  /\ task.index < N
  /\ Len(journal) = task.index + 1 /\ journal[task.index + 1] = "pending"

FailPcs == {"fail", "failwrite", "failbare"}

TaskInv ==
  /\ task.pc \in {"batch", "before"} => AllQueued(0) /\ task.index = 0
  /\ task.pc = "admit" => AllQueued(task.index) /\ task.index < N
  /\ task.pc \in {"finish", "publish", "write", "collect"} => AllQueued(N)
  /\ task.pc = "perform" => Current /\ Untouched(task.index)
  /\ task.pc = "wait" => Current
  /\ task.pc \in {"result"} \cup FailPcs /\ task.result # "none" =>
       Current /\ task.result # "pending" /\ Tells(task.index, task.result)
  /\ task.pc \in FailPcs => task.result # "queued"
  /\ task.pc = "result" => task.result # "none"
  /\ task.pc \notin {"idle", "result"} \cup FailPcs => task.result = "none"

NoPending == \A k \in 1 .. Len(journal) : journal[k] # "pending"

ReceiptInv ==
  /\ state \in Terminal => NoPending
  /\ state \in {"collecting", "complete"} => AllQueued(N)
  /\ settle \in {"strip", "disown", "rmroot", "close"} => NoPending
  /\ settle # "idle" => task.pc \notin LockedPcs

Inv == TypeOK /\ Prefix /\ OnRecord /\ Calls /\ Truth /\ TaskInv /\ ReceiptInv

-----------------------------------------------------------------------------
(* The journal's operators *)

\* MarkUncertain decides the last entry, and changes no other one.
LEMMA MarkedFacts ==
  ASSUME NEW j \in Seq(Outcomes), \A k \in 1 .. Len(j) : k < Len(j) => j[k] = "queued"
  PROVE  /\ Marked(j) \in Seq(Outcomes) /\ Len(Marked(j)) = Len(j)
         /\ \A k \in 1 .. Len(j) :
              /\ Marked(j)[k] # "pending"
              /\ Marked(j)[k] = IF j[k] = "pending" THEN "uncertain" ELSE j[k]
<1>1. CASE j = <<>>
  BY <1>1 DEF Marked
<1>2. CASE j # <<>>
  <2>1. Len(j) \in Nat /\ Len(j) > 0
    BY <1>2
  <2>2. Len(j) \in 1 .. Len(j) /\ \A k \in 1 .. Len(j) : k # Len(j) => j[k] = "queued"
    BY <2>1
  <2>. QED
    BY <1>2, <2>1, <2>2 DEF Marked, Outcomes
<1>. QED
  BY <1>1, <1>2

\* The outcome of the current action replaces its pending entry.
LEMMA DecidedFacts ==
  ASSUME Inv, task.pc \in {"result"} \cup FailPcs
  PROVE  /\ Decided \in Seq(Outcomes) /\ Len(Decided) = Len(journal)
         /\ \A k \in 1 .. Len(journal) :
              Decided[k] = IF task.result # "none" /\ k = Len(journal)
                             THEN task.result ELSE journal[k]
         /\ \A k \in 1 .. Len(journal) : k < Len(journal) => Decided[k] = "queued"
<1>1. CASE task.result = "none"
  BY <1>1 DEF Inv, TypeOK, Prefix, Decided
<1>2. CASE task.result # "none"
  <2>1. task.result \in Outcomes /\ journal \in Seq(Outcomes) /\ Len(journal) \in 1 .. Len(journal)
    BY <1>2, NAssumption DEF Inv, TypeOK, TaskInv, Current
  <2>. QED
    BY <1>2, <2>1 DEF Inv, Prefix, Decided
<1>. QED
  BY <1>1, <1>2

Calm == UNCHANGED <<injecting, sent, events, reply, ack>>

\* Deciding a pending entry truthfully, with Blender at rest, keeps the journal true.
LEMMA JournalDecided ==
  ASSUME Inv, Calm, journal' \in Seq(Outcomes), Len(journal') = Len(journal),
         \A k \in 1 .. Len(journal) :
           \/ journal'[k] = journal[k]
           \/ journal[k] = "pending" /\ Tells(k - 1, journal'[k])
  PROVE  /\ Prefix' /\ OnRecord' /\ Truth' /\ Calls'
         /\ NoPending => NoPending'
         /\ \A n \in Nat : AllQueued(n) => AllQueued(n)'
<1>. Len(journal) \in Nat
  BY DEF Inv, TypeOK
<1>1. Prefix'
  BY DEF Inv, Prefix
<1>2. OnRecord' /\ Calls'
  BY DEF Inv, OnRecord, Calls, Untouched, Calm, Index
<1>3. Truth'
  <2>. SUFFICES ASSUME NEW i \in Index, i < Len(journal)
               PROVE  Tells(i, journal'[i + 1])
    BY DEF Truth, Tells, Calm, Index
  <2>1. i + 1 \in 1 .. Len(journal) /\ (i + 1) - 1 = i
    BY NAssumption DEF Index
  <2>2. Tells(i, journal[i + 1])
    BY DEF Inv, Truth
  <2>. QED
    BY <2>1, <2>2
<1>4. NoPending => NoPending'
  BY DEF NoPending
<1>5. \A n \in Nat : AllQueued(n) => AllQueued(n)'
  BY DEF AllQueued
<1>. QED
  BY <1>1, <1>2, <1>3, <1>4, <1>5

\* MarkUncertain is such a decision.
LEMMA JournalMarked ==
  ASSUME Inv, Calm, journal' = Marked(journal)
  PROVE  /\ journal' \in Seq(Outcomes)
         /\ Prefix' /\ OnRecord' /\ Truth' /\ Calls' /\ NoPending'
         /\ \A n \in Nat : AllQueued(n) => AllQueued(n)'
<1>1. /\ journal' \in Seq(Outcomes) /\ Len(journal') = Len(journal)
      /\ \A k \in 1 .. Len(journal) :
           /\ journal'[k] # "pending"
           /\ journal'[k] = IF journal[k] = "pending" THEN "uncertain" ELSE journal[k]
  BY MarkedFacts DEF Inv, TypeOK, Prefix
<1>2. \A k \in 1 .. Len(journal) : Tells(k - 1, "uncertain")
  BY DEF Tells
<1>3. NoPending'
  BY <1>1 DEF NoPending
<1>. QED
  BY <1>1, <1>2, <1>3, JournalDecided

\* Nor does a step that leaves the journal alone disturb what is known of it.
LEMMA JournalStill ==
  ASSUME Inv, Calm, journal' = journal
  PROVE  /\ Prefix' /\ OnRecord' /\ Truth' /\ Calls'
         /\ NoPending => NoPending'
         /\ \A n \in Nat : AllQueued(n) => AllQueued(n)'
<1>1. journal \in Seq(Outcomes)
  BY DEF Inv, TypeOK
<1>. QED
  BY <1>1, JournalDecided

-----------------------------------------------------------------------------
(* The task *)

LEMMA BatchStartInv == ASSUME Inv, BatchStart PROVE Inv'
<1>. USE DEF BatchStart, Resumed, Goto
<1>1. journal = <<>> /\ journal' = journal
  BY DEF Inv, TypeOK, TaskInv, AllQueued
<1>2. Calm
  BY DEF Calm, blender
<1>3. TypeOK'
  BY <1>1 DEF Inv, TypeOK, disk, blender, States, TaskPcs, LockedPcs, Terminal
<1>4. Prefix' /\ OnRecord' /\ Truth' /\ Calls'
  BY <1>1, <1>2, JournalStill
<1>5. TaskInv' /\ ReceiptInv'
  BY <1>1 DEF Inv, TypeOK, TaskInv, ReceiptInv, AllQueued, NoPending, OperationFree, FailPcs,
              Terminal, LockedPcs
<1>. QED
  BY <1>3, <1>4, <1>5 DEF Inv

\* A step of the task that leaves receipt and Blender alone: from pc to pc', with the
\* same index, and with a result that is true.
LEMMA TaskMoves ==
  ASSUME Inv, TypeOK', UNCHANGED <<receiptVars, settle>>, Calm, TaskInv',
         settle = "idle" \/ task'.pc \notin LockedPcs
  PROVE  Inv'
<1>1. Prefix' /\ OnRecord' /\ Truth' /\ Calls' /\ (NoPending => NoPending')
  BY JournalStill DEF receiptVars
<1>2. ReceiptInv'
  BY <1>1 DEF Inv, ReceiptInv, receiptVars, NoPending, AllQueued
<1>. QED
  BY <1>1, <1>2 DEF Inv

LEMMA BeforeCaptureInv == ASSUME Inv, BeforeCapture PROVE Inv'
<1>. USE DEF BeforeCapture, Goto
<1>1. TypeOK' /\ Calm
  BY DEF Inv, TypeOK, Calm, receiptVars, disk, blender, TaskPcs, LockedPcs
<1>2. TaskInv'
  BY NAssumption DEF Inv, TypeOK, TaskInv, AllQueued, receiptVars, blender, FailPcs, LockedPcs
<1>3. settle = "idle"
  BY DEF Inv, TypeOK, ReceiptInv, LockedPcs
<1>. QED
  BY <1>1, <1>2, <1>3, TaskMoves DEF TypeOK

LEMMA AdmitInv == ASSUME Inv, Admit PROVE Inv'
<1>. USE DEF Admit, Resumed, Goto
<1>. journal \in Seq(Outcomes) /\ "pending" \in Outcomes
  BY DEF Inv, TypeOK, Outcomes
<1>. journal' \in Seq(Outcomes)
  OBVIOUS
<1>1. Calm /\ TypeOK'
  BY DEF Inv, TypeOK, Calm, disk, blender, TaskPcs, LockedPcs
<1>2. CASE Admissible
  <2>1. journal' = Append(journal, "pending") /\ task' = [task EXCEPT !.pc = "perform"]
    BY <1>2
  <2>2. /\ Len(journal) = task.index /\ task.index < N /\ task.index \in Index
        /\ Len(journal') = Len(journal) + 1 /\ journal'[Len(journal) + 1] = "pending"
        /\ \A k \in 1 .. Len(journal) : journal'[k] = journal[k] /\ journal[k] = "queued"
    BY <1>2, <2>1, NAssumption DEF Inv, TypeOK, TaskInv, AllQueued, Index
  <2>3. Prefix'
    BY <2>2 DEF Prefix
  <2>4. OnRecord' /\ Calls'
    BY <1>1, <2>2 DEF Inv, OnRecord, Calls, Untouched, Calm, Index
  <2>5. Truth'
    <3>. SUFFICES ASSUME NEW i \in Index, i < Len(journal')
                 PROVE  Tells(i, journal'[i + 1])
      BY <1>1 DEF Truth, Tells, Calm, Index
    <3>1. CASE i < Len(journal)
      <4>1. i + 1 \in 1 .. Len(journal) /\ Tells(i, journal[i + 1])
        BY <3>1, NAssumption DEF Inv, Truth, Index
      <4>. QED
        BY <2>2, <4>1
    <3>2. CASE i = Len(journal)
      BY <2>2, <3>2 DEF Tells
    <3>. QED
      BY <2>2, <3>1, <3>2 DEF Index
  <2>6. TaskInv'
    BY <1>1, <2>1, <2>2 DEF Inv, TypeOK, OnRecord, TaskInv, Current, Untouched, Calm, FailPcs
  <2>7. ReceiptInv'
    BY <1>2, <2>1 DEF Inv, ReceiptInv, Admissible, OperationFree, Terminal
  <2>. QED
    BY <1>1, <2>3, <2>4, <2>5, <2>6, <2>7 DEF Inv
<1>3. CASE ~Admissible
  <2>1. UNCHANGED <<receiptVars, settle>> /\ task'.pc = "idle"
    BY <1>3 DEF Inv, TypeOK, receiptVars
  <2>2. TaskInv'
    BY <2>1 DEF TaskInv, FailPcs
  <2>. QED
    BY <1>1, <2>1, <2>2, TaskMoves DEF TypeOK, LockedPcs
<1>. QED
  BY <1>2, <1>3

LEMMA PerformInv == ASSUME Inv, Perform PROVE Inv'
<1>9. /\ task.pc = "perform"
      /\ UNCHANGED <<receiptVars, disk, settle, alive, next, injecting, events, reply, ack>>
  BY DEF Perform
<1>0. /\ task' \in [pc : TaskPcs, index : 0 .. N, result : Outcomes \cup {"none"}]
      /\ task'.index = task.index
      /\ \/ task'.pc = "wait" /\ task'.result = "none" /\ sent' = sent \cup {task.index}
         \/ /\ task'.pc = "result" /\ task'.result \in {"rejected", "uncertain"}
            /\ UNCHANGED sent
  <2>1. /\ task \in [pc : TaskPcs, index : 0 .. N, result : Outcomes \cup {"none"}]
        /\ task.result = "none"
    BY <1>9 DEF Inv, TypeOK, TaskInv, FailPcs
  <2>2. CASE sent' = sent \cup {task.index} /\ task' = [task EXCEPT !.pc = "wait"]
    <3>1. "wait" \in TaskPcs
      BY DEF TaskPcs, LockedPcs
    <3>. QED
      BY <2>1, <2>2, <3>1
  <2>3. ASSUME UNCHANGED sent, NEW r \in {"rejected", "uncertain"},
               task' = [task EXCEPT !.pc = "result", !.result = r]
        PROVE /\ task' \in [pc : TaskPcs, index : 0 .. N, result : Outcomes \cup {"none"}]
              /\ task'.index = task.index /\ task'.pc = "result" /\ task'.result = r
    <3>1. "result" \in TaskPcs /\ r \in Outcomes
      BY DEF TaskPcs, LockedPcs, Outcomes
    <3>. QED
      BY <2>1, <2>3, <3>1
  <2>. QED
    BY <2>2, <2>3 DEF Perform, Goto
<1>. Current /\ Untouched(task.index) /\ task.index \in Index
  BY <1>0, <1>9, NAssumption DEF Inv, TypeOK, TaskInv, Current, Index
<1>7. sent' \subseteq Index
  BY <1>0, <1>9 DEF Inv, TypeOK
<1>1. TypeOK'
  BY <1>0, <1>7, <1>9 DEF Inv, TypeOK, receiptVars, disk
<1>2. Prefix'
  BY <1>0, <1>9 DEF Inv, Prefix, receiptVars
<1>3. OnRecord' /\ Calls'
  BY <1>0, <1>9, NAssumption DEF Inv, TypeOK, OnRecord, Calls, Untouched, receiptVars, Current, Index
<1>4. Truth'
  BY <1>0, <1>9, NAssumption DEF Inv, TypeOK, Truth, Tells, receiptVars, Current, Index
<1>5. TaskInv'
  BY <1>0, <1>9 DEF TaskInv, Current, Untouched, Tells, receiptVars, FailPcs
<1>6. ReceiptInv'
  BY <1>0, <1>9 DEF Inv, ReceiptInv, NoPending, AllQueued, receiptVars, LockedPcs
<1>. QED
  BY <1>1, <1>2, <1>3, <1>4, <1>5, <1>6 DEF Inv

LEMMA AnsweredInv == ASSUME Inv, Answered PROVE Inv'
<1>. USE DEF Answered
<1>7. task' \in [pc : TaskPcs, index : 0 .. N, result : Outcomes \cup {"none"}]
  BY DEF Inv, TypeOK, TaskPcs, LockedPcs, Outcomes
<1>8. UNCHANGED <<receiptVars, disk, settle, blender>>
  OBVIOUS
<1>1. TypeOK' /\ Calm
  BY <1>7, <1>8 DEF Inv, TypeOK, Calm, receiptVars, disk, blender
<1>2. /\ Current /\ task.index \in Index /\ settle = "idle"
      /\ task' = [task EXCEPT !.pc = "result", !.result = task'.result]
  BY NAssumption DEF Inv, TypeOK, TaskInv, ReceiptInv, Current, Index, LockedPcs
<1>3. Tells(task.index, task'.result) /\ task'.result \in {"queued", "rejected", "uncertain"}
  BY <1>2 DEF Inv, TypeOK, Calls, Answer, Tells
<1>4. TaskInv'
  BY <1>1, <1>2, <1>3 DEF Inv, TypeOK, TaskInv, Current, Tells, Calm, receiptVars, FailPcs
<1>. QED
  BY <1>1, <1>2, <1>4, TaskMoves DEF TypeOK

LEMMA QueuedInv == ASSUME Inv, Queued PROVE Inv'
<1>. USE DEF Queued
<1>1. /\ Current /\ task.index \in Index /\ settle = "idle"
      /\ Tells(task.index, "queued") /\ Len(journal) = task.index + 1
      /\ task.index \in 0 .. N - 1 /\ N \in Nat
  BY NAssumption DEF Inv, TypeOK, TaskInv, ReceiptInv, Current, Index, LockedPcs
<1>2. /\ journal' \in Seq(Outcomes) /\ Len(journal') = Len(journal)
      /\ journal'[Len(journal)] = "queued"
      /\ \A k \in 1 .. Len(journal) : k < Len(journal) =>
           journal'[k] = journal[k] /\ journal'[k] = "queued"
  BY <1>1, DecidedFacts DEF Inv, TypeOK, Prefix, FailPcs
<1>3. Calm /\ TypeOK'
  BY <1>1, <1>2, NAssumption DEF Inv, TypeOK, Calm, disk, blender, TaskPcs, LockedPcs, Index
<1>4. \A k \in 1 .. Len(journal) :
        journal'[k] = journal[k] \/ (journal[k] = "pending" /\ Tells(k - 1, journal'[k]))
  <2>1. Tells((task.index + 1) - 1, "queued") /\ journal[task.index + 1] = "pending"
    BY <1>1 DEF Current
  <2>. QED
    BY <1>1, <1>2, <2>1
<1>5. Prefix' /\ OnRecord' /\ Truth' /\ Calls'
  BY <1>2, <1>3, <1>4, JournalDecided
<1>6. AllQueued(task.index)'
  <2>1. task'.index = task.index + 1 /\ Len(journal') = task.index + 1
    BY <1>1, <1>2 DEF Inv, TypeOK
  <2>2. \A k \in 1 .. task.index + 1 : journal'[k] = "queued"
    BY <1>1, <1>2
  <2>. QED
    BY <2>1, <2>2 DEF AllQueued
<1>7. TaskInv'
  BY <1>1, <1>6, NAssumption DEF Inv, TypeOK, TaskInv, AllQueued, Current, Index, FailPcs
<1>8. ReceiptInv'
  BY <1>1, <1>2, <1>3, <1>4, JournalDecided, NAssumption
     DEF Inv, TypeOK, ReceiptInv, NoPending, LockedPcs
<1>. QED
  BY <1>3, <1>5, <1>7, <1>8 DEF Inv

LEMMA NotQueuedInv == ASSUME Inv, NotQueued PROVE Inv'
<1>. USE DEF NotQueued, Goto
<1>1. TypeOK' /\ Calm
  BY DEF Inv, TypeOK, Calm, receiptVars, disk, blender, TaskPcs, LockedPcs
<1>2. TaskInv' /\ settle = "idle"
  BY <1>1 DEF Inv, TypeOK, TaskInv, ReceiptInv, Current, Tells, Calm, receiptVars, FailPcs,
              LockedPcs
<1>. QED
  BY <1>1, <1>2, TaskMoves DEF TypeOK

\* Resuming to the end of the batch, or to its failure.
LEMMA ResumedInv == ASSUME Inv, Finish \/ ResumedFails PROVE Inv'
<1>. USE DEF Finish, ResumedFails, Goto, Resumed, OperationFree
<1>1. TypeOK' /\ Calm
  BY DEF Inv, TypeOK, Calm, receiptVars, disk, blender, TaskPcs, LockedPcs
<1>2. TaskInv'
  BY <1>1 DEF Inv, TypeOK, TaskInv, AllQueued, receiptVars, FailPcs
<1>. QED
  BY <1>1, <1>2, TaskMoves DEF TypeOK

LEMMA PublishTypes ==
  ASSUME Inv, NEW j \in Seq(Outcomes), \A k \in 1 .. Len(j) : k < Len(j) => j[k] = "queued",
         Publish(j)
  PROVE  /\ file' \in Seq(Outcomes) \cup {NoFile}
         /\ root' \in {"owned", "empty", "absent", "orphaned"}
  BY MarkedFacts DEF Inv, TypeOK, Publish

LEMMA FinishPublishInv == ASSUME Inv, FinishPublish PROVE Inv'
<1>. USE DEF FinishPublish, Goto
<1>1. /\ file' \in Seq(Outcomes) \cup {NoFile}
      /\ root' \in {"owned", "empty", "absent", "orphaned"}
  BY PublishTypes DEF Inv, TypeOK, Prefix, disk
<1>2. TypeOK' /\ Calm
  BY <1>1 DEF Inv, TypeOK, Calm, receiptVars, blender, TaskPcs, LockedPcs
<1>3. TaskInv' /\ settle = "idle"
  BY <1>2 DEF Inv, TypeOK, TaskInv, ReceiptInv, AllQueued, receiptVars, FailPcs, LockedPcs
<1>. QED
  BY <1>2, <1>3, TaskMoves DEF TypeOK

LEMMA FinishWriteInv == ASSUME Inv, FinishWrite PROVE Inv'
<1>. USE DEF FinishWrite, Goto
<1>1. Calm
  BY DEF Calm, blender
<1>2. /\ journal' \in Seq(Outcomes) /\ Prefix' /\ OnRecord' /\ Truth' /\ Calls' /\ NoPending'
      /\ AllQueued(N)'
  BY <1>1, JournalMarked, NAssumption DEF Inv, TypeOK, TaskInv
<1>3. TypeOK'
  BY <1>2 DEF Inv, TypeOK, disk, blender, TaskPcs, States
<1>4. TaskInv'
  BY <1>2 DEF Inv, TypeOK, TaskInv, FailPcs
<1>5. ReceiptInv'
  BY <1>2 DEF Inv, TypeOK, ReceiptInv, LockedPcs
<1>. QED
  BY <1>2, <1>3, <1>4, <1>5 DEF Inv

LEMMA CompleteInv == ASSUME Inv, Complete PROVE Inv'
<1>. USE DEF Complete, Goto, Resumed
<1>1. Calm /\ TypeOK'
  BY DEF Inv, TypeOK, Calm, disk, blender, TaskPcs, States, Terminal
<1>2. Prefix' /\ OnRecord' /\ Truth' /\ Calls'
  BY <1>1, JournalStill
<1>3. TaskInv'
  BY DEF Inv, TypeOK, TaskInv, FailPcs
<1>4. AllQueued(N)' /\ NoPending'
  BY DEF Inv, TaskInv, AllQueued, NoPending
<1>5. ReceiptInv'
  BY <1>4 DEF Inv, TypeOK, ReceiptInv, LockedPcs
<1>. QED
  BY <1>1, <1>2, <1>3, <1>5 DEF Inv

LEMMA FailPublishInv == ASSUME Inv, FailPublish PROVE Inv'
<1>. USE DEF FailPublish, Goto
<1>1. /\ Decided \in Seq(Outcomes)
      /\ \A k \in 1 .. Len(Decided) : k < Len(Decided) => Decided[k] = "queued"
  BY DecidedFacts DEF FailPcs
<1>2. /\ file' \in Seq(Outcomes) \cup {NoFile}
      /\ root' \in {"owned", "empty", "absent", "orphaned"}
  BY <1>1, PublishTypes DEF Inv, TypeOK, disk
<1>3. TypeOK' /\ Calm
  BY <1>2 DEF Inv, TypeOK, Calm, receiptVars, blender, TaskPcs, LockedPcs
<1>4. TaskInv' /\ settle = "idle"
  BY <1>3 DEF Inv, TypeOK, TaskInv, ReceiptInv, Current, Tells, Calm, receiptVars, FailPcs,
              LockedPcs
<1>. QED
  BY <1>3, <1>4, TaskMoves DEF TypeOK

LEMMA FailWriteInv == ASSUME Inv, FailWrite PROVE Inv'
<1>. USE DEF FailWrite, Goto
<1>1. Calm /\ settle = "idle"
  BY DEF Inv, TypeOK, ReceiptInv, LockedPcs, Calm, blender
<1>2. /\ Decided \in Seq(Outcomes) /\ Len(Decided) = Len(journal)
      /\ \A k \in 1 .. Len(journal) :
           Decided[k] = IF task.result # "none" /\ k = Len(journal)
                          THEN task.result ELSE journal[k]
      /\ \A k \in 1 .. Len(journal) : k < Len(journal) => Decided[k] = "queued"
  BY DecidedFacts DEF FailPcs
<1>3. /\ journal' \in Seq(Outcomes) /\ Len(journal') = Len(journal)
      /\ \A k \in 1 .. Len(journal) :
           /\ journal'[k] # "pending"
           /\ journal'[k] = IF Decided[k] = "pending" THEN "uncertain" ELSE Decided[k]
  BY <1>2, MarkedFacts
<1>4. \A k \in 1 .. Len(journal) :
        journal'[k] = journal[k] \/ (journal[k] = "pending" /\ Tells(k - 1, journal'[k]))
  <2>. SUFFICES ASSUME NEW k \in 1 .. Len(journal)
               PROVE  \/ journal'[k] = journal[k]
                      \/ journal[k] = "pending" /\ Tells(k - 1, journal'[k])
    OBVIOUS
  <2>1. CASE task.result # "none" /\ k = Len(journal)
    <3>1. /\ Current /\ Tells(task.index, task.result) /\ task.result # "pending"
          /\ k - 1 = task.index
      BY <2>1 DEF Inv, TypeOK, TaskInv, FailPcs, Current
    <3>. QED
      BY <1>2, <1>3, <2>1, <3>1 DEF Current
  <2>2. CASE ~(task.result # "none" /\ k = Len(journal))
    <3>1. Decided[k] = journal[k] /\ Tells(k - 1, "uncertain")
      BY <1>2, <2>2 DEF Tells
    <3>. QED
      BY <1>3, <3>1
  <2>. QED
    BY <2>1, <2>2
<1>5. Prefix' /\ OnRecord' /\ Truth' /\ Calls'
  BY <1>1, <1>3, <1>4, JournalDecided
<1>6. NoPending'
  BY <1>3 DEF NoPending
<1>7. TypeOK'
  BY <1>3 DEF Inv, TypeOK, disk, blender, TaskPcs, States, Terminal
<1>8. TaskInv' /\ ReceiptInv'
  BY <1>1, <1>6 DEF Inv, TypeOK, TaskInv, ReceiptInv, FailPcs
<1>. QED
  BY <1>5, <1>7, <1>8 DEF Inv

LEMMA InterruptionInv == ASSUME Inv, TaskCrash \/ Restart PROVE Inv'
<1>. USE DEF TaskCrash, Restart, Goto
<1>7. task' \in [pc : TaskPcs, index : 0 .. N, result : Outcomes \cup {"none"}]
  BY DEF Inv, TypeOK, TaskPcs, LockedPcs, Outcomes
<1>8. UNCHANGED <<receiptVars, disk, settle, blender>>
  OBVIOUS
<1>1. TypeOK' /\ Calm
  BY <1>7, <1>8 DEF Inv, TypeOK, Calm, receiptVars, disk, blender
<1>2. \/ task'.pc = "idle"
      \/ task'.pc = "fail" /\ task'.result = "none" /\ OperationFree
  BY DEF Inv, TypeOK
<1>9. TaskInv' /\ (settle = "idle" \/ task'.pc \notin LockedPcs)
  BY <1>2 DEF TaskInv, OperationFree, FailPcs, LockedPcs
<1>. QED
  BY <1>1, <1>9, TaskMoves DEF TypeOK

-----------------------------------------------------------------------------
(* Blender: it touches no receipt, and what it learns to answer is true *)

\* A step about call i, which is on record, keeps what is known of every other call.
LEMMA BlenderInv ==
  ASSUME Inv, NEW i \in Index, Refuse(i) \/ Accept(i) \/ Inject(i) \/ Reply(i) \/ Acknowledge(i)
  PROVE  Inv'
<1>. USE DEF Refuse, Accept, Inject, Reply, Acknowledge
<1>1. ~Untouched(i) /\ i < Len(journal)
  BY NAssumption DEF Inv, TypeOK, OnRecord, Untouched, Index
<1>2. TypeOK'
  <2>. TypeOK /\ i + 1 \in 0 .. N
    BY NAssumption DEF Inv, Index
  <2>1. CASE Refuse(i)
    BY <2>1 DEF TypeOK, receiptVars, disk
  <2>2. CASE Accept(i)
    BY <2>2 DEF TypeOK, receiptVars, disk
  <2>3. CASE Inject(i)
    BY <2>3 DEF TypeOK, receiptVars, disk
  <2>4. CASE Reply(i)
    BY <2>4 DEF TypeOK, receiptVars, disk, Partial
  <2>5. CASE Acknowledge(i)
    BY <2>5 DEF TypeOK, receiptVars, disk
  <2>. QED
    BY <2>1, <2>2, <2>3, <2>4, <2>5
<1>3. Prefix'
  BY DEF Inv, Prefix, receiptVars
<1>4. OnRecord'
  <2>. SUFFICES ASSUME NEW k \in Index, k >= Len(journal)
               PROVE  Untouched(k)'
    BY DEF OnRecord, receiptVars
  <2>1. Untouched(k) /\ k # i
    BY <1>1 DEF Inv, OnRecord
  <2>. QED
    BY <2>1 DEF Inv, TypeOK, Untouched
<1>5. Calls'
  BY DEF Inv, TypeOK, Calls, Partial
<1>6. \A k \in Index, o \in Outcomes : Tells(k, o) => Tells(k, o)'
  BY DEF Inv, TypeOK, Calls, Tells
<1>7. Truth'
  <2>1. \A k \in Index : k < Len(journal) => journal[k + 1] \in Outcomes
    BY NAssumption DEF Inv, TypeOK, Index
  <2>. QED
    BY <1>6, <2>1 DEF Inv, Truth, receiptVars
<1>8. TaskInv'
  <2>1. task.pc = "perform" => task.index \in Index /\ task.index # i
    BY <1>1, NAssumption DEF Inv, TypeOK, TaskInv, Current, Index
  <2>2. task.pc = "perform" => Untouched(task.index)'
    BY <2>1 DEF Inv, TypeOK, TaskInv, Untouched
  <2>3. task.pc \in {"result"} \cup FailPcs /\ task.result # "none" =>
          Tells(task.index, task.result)'
    <3>. SUFFICES ASSUME task.pc \in {"result"} \cup FailPcs, task.result # "none"
                 PROVE  Tells(task.index, task.result)'
      OBVIOUS
    <3>1. task.index \in Index /\ task.result \in Outcomes /\ Tells(task.index, task.result)
      BY NAssumption DEF Inv, TypeOK, TaskInv, Current, Index
    <3>. QED
      BY <1>6, <3>1 DEF Tells
  <2>. QED
    BY <2>2, <2>3 DEF Inv, TaskInv, AllQueued, Current, receiptVars
<1>9. ReceiptInv'
  BY DEF Inv, ReceiptInv, NoPending, AllQueued, receiptVars
<1>. QED
  BY <1>2, <1>3, <1>4, <1>5, <1>7, <1>8, <1>9 DEF Inv

-----------------------------------------------------------------------------
(* settle: the task is in a phase that holds no lock *)

\* The task's own facts survive whatever keeps the queued entries.
LEMMA TaskKept ==
  ASSUME Inv, task.pc \notin LockedPcs, UNCHANGED task,
         \A n \in Nat : AllQueued(n) => AllQueued(n)'
  PROVE  TaskInv'
<1>1. task.index \in Nat /\ N \in Nat /\ 0 \in Nat
  BY NAssumption DEF Inv, TypeOK
<1>. QED
  BY <1>1 DEF Inv, TypeOK, TaskInv, LockedPcs, FailPcs

\* The steps that change neither journal nor run state.
LEMMA SettlePlainInv ==
  ASSUME Inv,
         SettleStop \/ SettleStrip \/ SettleDisown \/ SettleRemove \/ SettleClose \/ SettleAbandon
  PROVE  Inv'
<1>. USE DEF SettleStop, SettleStrip, SettleDisown, SettleRemove, SettleClose, SettleAbandon
<1>1. Calm /\ UNCHANGED task /\ journal' = journal /\ TypeOK'
  <2>1. Calm /\ UNCHANGED <<task, journal, begun, listed, stopped, next>>
    BY DEF Calm, receiptVars, disk, blender
  <2>2. /\ settle' \in SettlePcs /\ root' \in {"owned", "empty", "absent", "orphaned"}
        /\ closed' \in BOOLEAN /\ alive' \in BOOLEAN
    BY DEF Inv, TypeOK, receiptVars, disk, blender, SettlePcs
  <2>3. state' \in States
    <3>1. state' = state \/ state' = "failed"
      BY DEF receiptVars
    <3>. QED
      BY <3>1 DEF Inv, TypeOK, States, Terminal
  <2>4. file' \in Seq(Outcomes) \cup {NoFile}
    BY DEF Inv, TypeOK, disk
  <2>. QED
    BY <2>1, <2>2, <2>3, <2>4 DEF Inv, TypeOK, Calm
<1>2. task.pc \notin LockedPcs
  BY DEF Inv, ReceiptInv, OperationFree
<1>3. /\ Prefix' /\ OnRecord' /\ Truth' /\ Calls' /\ (NoPending => NoPending')
      /\ \A n \in Nat : AllQueued(n) => AllQueued(n)'
  BY <1>1, JournalStill
<1>4. TaskInv'
  BY <1>1, <1>2, <1>3, TaskKept
<1>5. ReceiptInv'
  BY <1>1, <1>2, <1>3, NAssumption DEF Inv, TypeOK, ReceiptInv, receiptVars, Terminal
<1>. QED
  BY <1>1, <1>3, <1>4, <1>5 DEF Inv

LEMMA SettleJournalInv == ASSUME Inv, SettleJournal PROVE Inv'
<1>. USE DEF SettleJournal
<1>1. Calm /\ UNCHANGED task /\ task.pc \notin LockedPcs
  BY DEF Inv, ReceiptInv, Calm, blender
<1>2. CASE settle' = "write"
  <2>1. UNCHANGED receiptVars
    BY <1>2
  <2>2. /\ file' \in Seq(Outcomes) \cup {NoFile}
        /\ root' \in {"owned", "empty", "absent", "orphaned"}
    BY <1>2, PublishTypes DEF Inv, TypeOK, Prefix, disk
  <2>3. TypeOK'
    BY <1>2, <2>1, <2>2 DEF Inv, TypeOK, receiptVars, blender, SettlePcs
  <2>4. /\ Prefix' /\ OnRecord' /\ Truth' /\ Calls' /\ (NoPending => NoPending')
        /\ \A n \in Nat : AllQueued(n) => AllQueued(n)'
    BY <1>1, <2>1, JournalStill DEF receiptVars
  <2>5. TaskInv'
    BY <1>1, <2>4, TaskKept
  <2>6. ReceiptInv'
    BY <1>1, <1>2, <2>1, <2>4, NAssumption DEF Inv, ReceiptInv, receiptVars
  <2>. QED
    BY <2>3, <2>4, <2>5, <2>6 DEF Inv
<1>3. CASE settle' = "idle"
  <2>1. /\ journal' = Marked(journal) /\ state' \in Terminal
        /\ UNCHANGED <<begun, listed, closed>>
    BY <1>3 DEF Terminal
  <2>2. /\ journal' \in Seq(Outcomes) /\ Prefix' /\ OnRecord' /\ Truth' /\ Calls' /\ NoPending'
        /\ \A n \in Nat : AllQueued(n) => AllQueued(n)'
    BY <1>1, <2>1, JournalMarked
  <2>3. TypeOK'
    <3>1. /\ file' \in Seq(Outcomes) \cup {NoFile}
          /\ root' \in {"owned", "empty", "absent", "orphaned"}
      BY <1>3, PublishTypes DEF Inv, TypeOK, Prefix, disk
    <3>. QED
      BY <1>3, <2>1, <2>2, <3>1 DEF Inv, TypeOK, blender, SettlePcs, States
  <2>4. TaskInv'
    BY <1>1, <2>2, TaskKept
  <2>5. state' \in {"collecting", "complete"} => state' = state
    BY <1>3 DEF Terminal
  <2>6. ReceiptInv'
    BY <1>3, <2>2, <2>5, NAssumption DEF Inv, ReceiptInv
  <2>. QED
    BY <2>2, <2>3, <2>4, <2>6 DEF Inv
<1>. QED
  BY <1>2, <1>3

LEMMA SettleWriteInv == ASSUME Inv, SettleWrite PROVE Inv'
<1>. USE DEF SettleWrite, SettleMarks
<1>1. Calm /\ UNCHANGED task /\ task.pc \notin LockedPcs
  BY DEF Inv, ReceiptInv, Calm, blender
<1>2. /\ journal' \in Seq(Outcomes) /\ Prefix' /\ OnRecord' /\ Truth' /\ Calls' /\ NoPending'
      /\ \A n \in Nat : AllQueued(n) => AllQueued(n)'
  BY <1>1, JournalMarked
<1>3. TypeOK'
  BY <1>2 DEF Inv, TypeOK, disk, blender, SettlePcs
<1>4. TaskInv'
  BY <1>1, <1>2, TaskKept
<1>5. ReceiptInv'
  BY <1>1, <1>2, NAssumption DEF Inv, ReceiptInv
<1>. QED
  BY <1>2, <1>3, <1>4, <1>5 DEF Inv

-----------------------------------------------------------------------------
(* The theorems *)

LEMMA InitInv == Init => Inv
<1>. SUFFICES ASSUME Init PROVE Inv
  OBVIOUS
<1>. USE DEF Init
<1>1. TypeOK
  <2>1. task \in [pc : TaskPcs, index : 0 .. N, result : Outcomes \cup {"none"}]
    BY NAssumption DEF TaskPcs
  <2>2. journal \in Seq(Outcomes) /\ state \in States /\ settle \in SettlePcs /\ next \in 0 .. N
    BY NAssumption DEF States, SettlePcs
  <2>. QED
    BY <2>1, <2>2 DEF TypeOK
<1>2. Prefix /\ OnRecord /\ Calls /\ Truth
  BY NAssumption DEF Prefix, OnRecord, Untouched, Calls, Truth, Index
<1>3. TaskInv
  BY DEF TaskInv, AllQueued, FailPcs
<1>4. ReceiptInv
  BY DEF ReceiptInv, Terminal
<1>. QED
  BY <1>1, <1>2, <1>3, <1>4 DEF Inv

LEMMA StutterInv == ASSUME Inv, UNCHANGED vars PROVE Inv'
<1>. USE DEF vars, receiptVars, disk, blender
<1>1. TypeOK' /\ Prefix'
  BY DEF Inv, TypeOK, Prefix
<1>2. OnRecord' /\ Calls' /\ Truth'
  BY DEF Inv, OnRecord, Untouched, Calls, Truth, Tells
<1>3. TaskInv' /\ ReceiptInv'
  BY DEF Inv, TaskInv, ReceiptInv, AllQueued, NoPending, Current, Untouched, Tells
<1>. QED
  BY <1>1, <1>2, <1>3 DEF Inv

LEMMA NextInv == Inv /\ [Next]_vars => Inv'
<1>. SUFFICES ASSUME Inv, [Next]_vars PROVE Inv'
  OBVIOUS
<1>1. CASE TaskStep
  BY <1>1, BatchStartInv, BeforeCaptureInv, AdmitInv, PerformInv, AnsweredInv, QueuedInv,
     NotQueuedInv, ResumedInv, FinishPublishInv, FinishWriteInv, CompleteInv, FailPublishInv,
     FailWriteInv DEF TaskStep
<1>2. CASE TaskCrash \/ Restart
  BY <1>2, InterruptionInv
<1>3. CASE BlenderStep
  BY <1>3, BlenderInv DEF BlenderStep
<1>4. CASE SettleStop \/ SettleStep \/ SettleAbandon
  BY <1>4, SettlePlainInv, SettleJournalInv, SettleWriteInv DEF SettleStep
<1>5. CASE UNCHANGED vars
  BY <1>5, StutterInv
<1>. QED
  BY <1>1, <1>2, <1>3, <1>4, <1>5 DEF Next

\* The inductive invariant holds in every state the task, Blender and settle reach.
THEOREM Invariant == Spec => []Inv
BY InitInv, NextInv, PTL DEF Spec

\* Every variable keeps its type, whatever the length of the batch.
THEOREM Typed == Spec => []TypeOK
<1>1. Inv => TypeOK
  BY DEF Inv
<1>. QED
  BY <1>1, Invariant, PTL

\* runUIActions writes the pending entry before it calls the broker: no event is
\* injected for an action the receipt does not name.
THEOREM OnRecordFirst == Spec => []DeliveredOnRecord
<1>1. Inv => DeliveredOnRecord
  <2>. SUFFICES ASSUME Inv, NEW i \in Index, events[i] # "none"
               PROVE  i < Len(journal) /\ \A k \in 1 .. i : journal[k] = "queued"
    BY DEF DeliveredOnRecord
  <2>1. Len(journal) \in Nat /\ i < Len(journal)
    BY NAssumption DEF Inv, TypeOK, OnRecord, Untouched, Index
  <2>. QED
    BY <2>1, NAssumption DEF Inv, Prefix, Index
<1>. QED
  BY <1>1, Invariant, PTL

\* What executeUIAction and ui_events.py report of an action is what Blender did.
THEOREM JournalTrue == Spec => []OutcomesTrue
<1>1. Inv => OutcomesTrue
  BY DEF Inv, Truth, Tells, OutcomesTrue
<1>. QED
  BY <1>1, Invariant, PTL

\* A terminal receipt passes the client's validateUIBatchReceipt.
THEOREM TerminalIsDecided == Spec => []TerminalDecided
<1>1. Inv => TerminalDecided
  BY DEF Inv, ReceiptInv, NoPending, AllQueued, TerminalDecided
<1>. QED
  BY <1>1, Invariant, PTL

\* No step of the task or of settle takes back what an observed receipt said.
THEOREM HistoryIsKept == Spec => HistoryKept
<1> DEFINE Kept == /\ Len(journal) <= Len(journal')
                   /\ \A k \in 1 .. Len(journal) :
                        journal[k] # "pending" => journal'[k] = journal[k]
<1>1. ASSUME Inv, [Next]_vars PROVE Kept
  <2>. journal \in Seq(Outcomes) /\ Len(journal) \in Nat
    BY <1>1 DEF Inv, TypeOK
  <2>1. CASE journal' = journal
    BY <2>1
  <2>2. CASE BatchStart
    BY <1>1, <2>2 DEF BatchStart, Resumed, Inv, TaskInv, AllQueued
  <2>3. CASE Admit /\ journal' = Append(journal, "pending")
    BY <2>3
  <2>4. CASE journal' = Marked(journal)
    BY <1>1, <2>4, MarkedFacts DEF Inv, Prefix
  <2>5. CASE Queued
    <3>1. /\ Len(Decided) = Len(journal)
          /\ \A k \in 1 .. Len(journal) : k < Len(journal) => Decided[k] = journal[k]
      BY <1>1, <2>5, DecidedFacts DEF Inv, Prefix, Queued
    <3>2. journal[Len(journal)] = "pending"
      BY <1>1, <2>5 DEF Inv, TypeOK, TaskInv, Current, Queued
    <3>. QED
      BY <2>5, <3>1, <3>2 DEF Queued
  <2>6. CASE FailWrite
    <3>1. /\ Decided \in Seq(Outcomes) /\ Len(Decided) = Len(journal)
          /\ \A k \in 1 .. Len(journal) : k < Len(journal) => Decided[k] = "queued"
          /\ \A k \in 1 .. Len(journal) : journal[k] # "pending" => Decided[k] = journal[k]
      <4>1. task.pc \in FailPcs
        BY <2>6 DEF FailWrite, FailPcs
      <4>2. task.result # "none" => journal[Len(journal)] = "pending"
        BY <1>1, <4>1 DEF Inv, TypeOK, TaskInv, Current
      <4>. QED
        BY <1>1, <4>1, <4>2, DecidedFacts DEF Inv, Prefix
    <3>2. \A k \in 1 .. Len(journal) : journal[k] # "pending" => Marked(Decided)[k] = journal[k]
      BY <3>1, MarkedFacts
    <3>3. Len(Marked(Decided)) = Len(journal)
      BY <3>1, MarkedFacts
    <3>. QED
      BY <2>6, <3>2, <3>3 DEF FailWrite
  <2>7. \/ journal' = journal \/ BatchStart \/ journal' = Marked(journal) \/ Queued \/ FailWrite
        \/ Admit /\ journal' = Append(journal, "pending")
    <3>1. CASE TaskStep
      BY <3>1 DEF TaskStep, BeforeCapture, Admit, Perform, Answered, NotQueued, Finish,
                  FinishPublish, FinishWrite, Complete, ResumedFails, FailPublish, receiptVars
    <3>2. CASE TaskCrash \/ Restart \/ SettleStop \/ SettleStep \/ SettleAbandon
      BY <3>2 DEF TaskCrash, Restart, SettleStop, SettleStep, SettleAbandon, SettleJournal,
                  SettleWrite, SettleMarks, SettleStrip, SettleDisown, SettleRemove, SettleClose,
                  receiptVars
    <3>3. CASE BlenderStep \/ UNCHANGED vars
      BY <3>3 DEF BlenderStep, Refuse, Accept, Inject, Reply, Acknowledge, vars, receiptVars
    <3>. QED
      BY <1>1, <3>1, <3>2, <3>3 DEF Next
  <2>. QED
    BY <2>1, <2>2, <2>3, <2>4, <2>5, <2>6, <2>7
<1>2. Inv /\ [Next]_vars => [Kept]_vars
  BY <1>1
<1>. QED
  BY <1>2, Invariant, PTL DEF Spec, HistoryKept

-----------------------------------------------------------------------------
(* The evidence file, when no task goes on with a Session whose stop is recorded *)

\* A listed evidence file is the journal, which nobody changes any more; an unlisted one
\* that is about to be listed is the journal as the receipt will have it.
Published ==
  /\ listed =>
       /\ NoPending /\ file \in {NoFile, journal}
       /\ task.pc \notin {"before", "perform", "wait", "result", "publish", "write"}
       /\ task.pc \in {"batch", "admit", "finish"} => stopped
  /\ task.pc = "write" => file = Marked(journal)
  /\ task.pc = "failwrite" /\ begun /\ ~listed => file = Marked(Decided)
  /\ settle = "write" /\ begun /\ ~listed => file = Marked(journal)

\* MarkUncertain has nothing to do on a journal that is decided.
LEMMA MarkedSame == ASSUME Inv, NoPending PROVE Marked(journal) = journal
<1>1. journal \in Seq(Outcomes)
  BY DEF Inv, TypeOK
<1>2. journal # <<>> => Len(journal) \in 1 .. Len(journal)
  BY <1>1
<1> QED
  BY <1>2 DEF Marked, NoPending

\* MarkUncertain leaves nothing pending: a listed file equal to it stays equal.
LEMMA MarkedDecides ==
  ASSUME Inv, journal' = Marked(journal) PROVE NoPending'
<1>1. \A k \in 1 .. Len(journal) : journal'[k] # "pending"
  BY MarkedFacts DEF Inv, TypeOK, Prefix
<1>2. Len(journal') = Len(journal)
  BY MarkedFacts DEF Inv, TypeOK, Prefix
<1> QED
  BY <1>1, <1>2 DEF NoPending

LEMMA PublishedTask ==
  ASSUME "late" \notin Faults, Inv, Published,
         BatchStart \/ BeforeCapture \/ Admit \/ Perform \/ Answered \/ Queued \/ NotQueued
  PROVE Published'
<1>1. ~listed /\ listed' = FALSE
  BY DEF Inv, Published, BatchStart, BeforeCapture, Admit, Perform, Answered, Queued,
         NotQueued, Resumed, Goto, receiptVars, TypeOK
<1>2. task'.pc \notin {"write", "failwrite"} /\ settle' # "write"
  <2>1. CASE BatchStart
    BY <2>1 DEF Inv, TypeOK, BatchStart, Resumed, OperationFree, Goto
  <2>2. CASE BeforeCapture
    BY <2>2 DEF Inv, TypeOK, ReceiptInv, LockedPcs, BeforeCapture, Goto
  <2>3. CASE Admit
    BY <2>3 DEF Inv, TypeOK, Admit, Resumed, OperationFree, Goto
  <2>4. CASE Perform
    BY <2>4 DEF Inv, TypeOK, ReceiptInv, LockedPcs, Perform, Goto
  <2>5. CASE Answered
    BY <2>5 DEF Inv, TypeOK, ReceiptInv, LockedPcs, Answered
  <2>6. CASE Queued
    BY <2>6 DEF Inv, TypeOK, ReceiptInv, LockedPcs, Queued
  <2>7. CASE NotQueued
    BY <2>7 DEF Inv, TypeOK, ReceiptInv, LockedPcs, NotQueued, Goto
  <2> QED
    BY <2>1, <2>2, <2>3, <2>4, <2>5, <2>6, <2>7
<1> QED
  BY <1>1, <1>2 DEF Published

\* A resumed task finishes, completes or fails; what is listed stays as it is.
LEMMA PublishedResumed ==
  ASSUME "late" \notin Faults, Inv, Published, Finish \/ Complete \/ ResumedFails
  PROVE Published'
<1>1. /\ UNCHANGED <<begun, journal, listed, stopped, file>> /\ NoPending' = NoPending
      /\ settle = "idle" /\ settle' = "idle"
      /\ task.pc \in {"batch", "admit", "finish", "collect"}
      /\ task.pc # "collect" => ~stopped
  BY DEF Finish, Complete, ResumedFails, Resumed, OperationFree, receiptVars, disk, NoPending
<1>2. task'.pc \in {"publish", "idle", "fail"} /\ (task'.pc = "publish" => task.pc = "finish")
  BY DEF Inv, TypeOK, Finish, Complete, ResumedFails, Resumed, Goto
<1> QED
  BY <1>1, <1>2 DEF Published

LEMMA PublishedFinish ==
  ASSUME Inv, Published, FinishPublish \/ FinishWrite PROVE Published'
<1>1. ~listed /\ settle # "write" /\ settle' = settle
  BY DEF Inv, ReceiptInv, LockedPcs, Published, FinishPublish, FinishWrite, Goto
<1>2. CASE FinishPublish
  <2>1. listed' = FALSE /\ journal' = journal
        /\ \/ task'.pc = "write" /\ file' = Marked(journal)
           \/ task'.pc = "fail"
    BY <1>1, <1>2 DEF Inv, TypeOK, FinishPublish, Publish, Goto, receiptVars
  <2>2. Marked(journal)' = Marked(journal)
    BY <2>1 DEF Marked
  <2> QED
    BY <1>1, <2>1, <2>2 DEF Published
<1>3. CASE FinishWrite
  <2>1. /\ task'.pc = "collect" /\ file' = file /\ file = Marked(journal)
        /\ journal' = Marked(journal)
    BY <1>3 DEF Inv, TypeOK, Published, FinishWrite, Goto, disk
  <2>2. NoPending'
    BY <2>1, MarkedDecides
  <2> QED
    BY <1>1, <2>1, <2>2 DEF Published
<1> QED
  BY <1>2, <1>3

\* A failing task whose file is listed has nothing left to decide.
LEMMA PublishedFail ==
  ASSUME Inv, Published, FailPublish \/ FailWrite PROVE Published'
<1>1. /\ task.pc \in FailPcs /\ settle # "write" /\ settle' = settle
      /\ begun' = begun /\ stopped' = stopped
  BY DEF Inv, ReceiptInv, LockedPcs, FailPcs, FailPublish, FailWrite, receiptVars
<1>2. listed => Decided = journal /\ Marked(journal) = journal
  <2>1. ASSUME listed, task.result # "none" PROVE FALSE
    <3>1. Current /\ journal \in Seq(Outcomes)
      BY <1>1, <2>1 DEF Inv, TypeOK, TaskInv
    <3>2. Len(journal) \in 1 .. Len(journal) /\ journal[Len(journal)] = "pending"
      BY <3>1, NAssumption DEF Current, Inv, TypeOK
    <3> QED
      BY <2>1, <3>2 DEF Published, NoPending
  <2> QED
    BY <2>1, MarkedSame DEF Published, Decided
<1>3. CASE FailPublish
  <2>1. /\ journal' = journal /\ listed' = listed /\ NoPending' = NoPending
        /\ task' = [task EXCEPT !.pc = task'.pc]
        /\ \/ task'.pc = "failwrite" /\ (begun /\ ~listed => file' = Marked(Decided))
           \/ task'.pc = "failbare" /\ ~listed
        /\ listed => file' = file
    BY <1>3 DEF Inv, TypeOK, FailPublish, Publish, Goto, receiptVars, NoPending, disk
  <2>2. task'.result = task.result
    BY <2>1 DEF Inv, TypeOK
  <2>3. Marked(Decided)' = Marked(Decided)
    BY <2>1, <2>2 DEF Marked, Decided
  <2> QED
    BY <1>1, <2>1, <2>3 DEF Published
<1>4. CASE FailWrite
  <2>1. /\ journal' = Marked(Decided) /\ task'.pc = "idle" /\ file' = file
        /\ listed' => listed \/ (begun /\ task.pc = "failwrite")
    BY <1>4 DEF Inv, TypeOK, FailWrite, Goto, disk
  <2>2. NoPending'
    <3>1. /\ Decided \in Seq(Outcomes)
          /\ \A k \in 1 .. Len(Decided) : k < Len(Decided) => Decided[k] = "queued"
      BY <1>1, DecidedFacts
    <3> QED
      BY <2>1, <3>1, MarkedFacts DEF NoPending
  <2>3. listed' => file \in {NoFile, journal'}
    BY <1>2, <2>1 DEF Published
  <2> QED
    BY <1>1, <2>1, <2>2, <2>3 DEF Published
<1> QED
  BY <1>3, <1>4

\* An interrupted batch is only ever failed.
LEMMA PublishedInterruption ==
  ASSUME Inv, Published, TaskCrash \/ Restart PROVE Published'
<1>1. /\ UNCHANGED <<begun, journal, listed, stopped, file, settle>>
      /\ task'.pc \in {"idle", "fail"} /\ NoPending' = NoPending
  BY DEF Inv, TypeOK, TaskCrash, Restart, Goto, receiptVars, disk, NoPending
<1>2. Marked(journal)' = Marked(journal)
  BY <1>1 DEF Marked
<1> QED
  BY <1>1, <1>2 DEF Published

\* settle and the task exclude each other.
LEMMA PublishedSettle ==
  ASSUME Inv, Published, SettleStop \/ SettleStep \/ SettleAbandon PROVE Published'
<1> DEFINE Quiet == UNCHANGED <<begun, journal, listed, stopped, task>>
<1>1. /\ task' = task /\ task.pc \notin LockedPcs /\ begun' = begun
  BY DEF Inv, ReceiptInv, OperationFree, SettleStop, SettleAbandon, SettleStep, SettleJournal,
         SettleWrite, SettleStrip, SettleDisown, SettleRemove, SettleClose, receiptVars
<1>2. CASE SettleJournal
  <2>1. CASE settle' = "write"
    <3>1. /\ UNCHANGED <<listed, journal, stopped>> /\ NoPending' = NoPending
          /\ IF begun /\ ~listed THEN file' = Marked(journal) ELSE file' = file
      BY <1>2, <2>1 DEF SettleJournal, Publish, receiptVars, disk, NoPending
    <3>2. Marked(journal)' = Marked(journal)
      BY <3>1 DEF Marked
    <3> QED
      BY <1>1, <3>1, <3>2 DEF Published, LockedPcs
  <2>2. CASE settle' # "write"
    <3>1. ~listed /\ listed' = listed /\ settle' = "idle"
      BY <1>2, <2>2 DEF SettleJournal
    <3> QED
      BY <1>1, <3>1 DEF Published, LockedPcs
  <2> QED
    BY <2>1, <2>2
<1>3. CASE SettleWrite
  <2>1. /\ journal' = Marked(journal) /\ settle' = "strip" /\ file' = file
        /\ listed' = (listed \/ begun) /\ stopped' = TRUE /\ settle = "write"
    BY <1>3 DEF SettleWrite, SettleMarks, disk
  <2>2. NoPending'
    BY <2>1, MarkedDecides
  <2>3. listed' => file' \in {NoFile, journal'}
    BY <2>1, MarkedSame DEF Published
  <2> QED
    BY <1>1, <2>1, <2>2, <2>3 DEF Published, LockedPcs
<1>4. CASE SettleStop \/ SettleAbandon \/ SettleStrip \/ SettleDisown \/ SettleRemove
           \/ SettleClose
  <2>1. /\ UNCHANGED <<begun, journal, listed, stopped>> /\ file' \in {file, NoFile}
        /\ settle' # "write" /\ NoPending' = NoPending
    BY <1>4 DEF SettleStop, SettleAbandon, SettleStrip, SettleDisown, SettleRemove,
                SettleClose, receiptVars, disk, NoPending
  <2> QED
    BY <1>1, <2>1 DEF Published, LockedPcs
<1> QED
  BY <1>2, <1>3, <1>4 DEF SettleStep

LEMMA PublishedElse ==
  ASSUME Inv, Published, BlenderStep \/ UNCHANGED vars PROVE Published'
<1>1. UNCHANGED <<begun, journal, listed, stopped, file, settle, task>>
  BY DEF BlenderStep, Refuse, Accept, Inject, Reply, Acknowledge, vars, receiptVars, disk
<1>2. /\ Marked(journal)' = Marked(journal) /\ Marked(Decided)' = Marked(Decided)
      /\ NoPending' = NoPending
  BY <1>1 DEF Marked, Decided, NoPending
<1> QED
  BY <1>1, <1>2 DEF Published

\* Whoever publishes the evidence of a terminal receipt, the task or a settle, and whatever
\* interrupts them: the file is the journal, unless a task continued (`late').
THEOREM EvidenceIsTrue == "late" \notin Faults => (Spec => []EvidenceTrue)
<1> SUFFICES ASSUME "late" \notin Faults PROVE Spec => []EvidenceTrue
  OBVIOUS
<1>1. Init => Published
  BY DEF Init, Published
<1>2. Inv /\ Published /\ [Next]_vars => Published'
  <2> SUFFICES ASSUME Inv, Published, [Next]_vars PROVE Published'
    OBVIOUS
  <2>1. CASE TaskStep
    BY <2>1, PublishedTask, PublishedResumed, PublishedFinish, PublishedFail DEF TaskStep
  <2> QED
    BY <2>1, PublishedInterruption, PublishedSettle, PublishedElse DEF Next
<1>3. Published => EvidenceTrue
  BY DEF Published, EvidenceTrue
<1> QED
  BY <1>1, <1>2, <1>3, Invariant, PTL DEF Spec
=============================================================================
