--------------------------- MODULE PairingHost_proof ---------------------------
(* Proofs about PairingHost, for any pairs, keys, requests and processes, as   *)
(* long as nobody edits the keys file between the last comparison and the swap *)
(* (NoEditInSwap): what is on record, that a revoked line is gone, and that    *)
(* the files implement PairingAccess.                                          *)
(*                                                                             *)
(* The argument: commands exclude each other, so what one has read under the   *)
(* lock still holds at its later steps (Held, Knows); while the file is being  *)
(* replaced it, or the backup, is what was read (Swaps); and no line that the  *)
(* host wrote is without its grant or belongs to a revoked pair (Sound).       *)
EXTENDS PairingHost, TLAPS

NoEditInSwap == EditInSwap = FALSE

\* The steps after the grant or the tombstone is on record.
Later == {"scan", "compare", "swapout", "swapin", "verify"}

\* A pair ID has a request of its own.
Bound == \A p \in Pairs : grant[p] # NoIntent => PairOf[grant[p]] = p

Named ==
  /\ \A i \in issued : grant[PairOf[i]] = i
  /\ \A p \in revoked : grant[p] # NoIntent /\ p \in tomb

\* A file that is not there has no lines, there is never a file besides its backup, and
\* the one that is there has every edit.
Shape ==
  /\ ~file.exists => file = NoFile
  /\ ~bak.exists => bak = NoFile
  /\ ~file.exists \/ ~bak.exists
  /\ file.exists => file.other = edits
  /\ bak.exists => bak.other = edits
  /\ (~file.exists /\ ~bak.exists) => edits = 0

Held ==
  /\ \A q \in Procs : op[q].pc \in LockedPcs <=> maint = q
  /\ maint # NoProc => ~running

\* A line of the host's is that of a grant that is not reported as revoked.
Accounted(l) ==
  l.pair \in Pairs /\ grant[l.pair] # NoIntent /\ LineOf(grant[l.pair]) = l /\ l.pair \notin revoked
Sound(f) == \A l \in Lines : f.lines[l] > 0 => l \in byHand \/ Accounted(l)

\* What a command knows of the records.
Knows(q) ==
  LET i == op[q].intent
      p == PairOf[i]
  IN  op[q].pc # "idle" =>
        /\ i \in Intents /\ op[q].kind \in {"enroll", "revoke"}
        /\ (op[q].exists \/ op[q].kind = "revoke" \/ op[q].pc \in Later) => grant[p] = i
        /\ (op[q].pc \in Later /\ op[q].kind = "revoke") => p \in tomb
        /\ (op[q].pc \in Later \ {"scan"} /\ op[q].kind = "enroll") => p \notin tomb

\* What it knows of the keys file.
Swaps(q) ==
  /\ (op[q].pc \in {"compare", "swapout", "swapin"} /\ op[q].kind = "revoke") =>
       op[q].seen.lines[LineOf(op[q].intent)] = 1
  /\ op[q].pc = "swapout" => file = op[q].seen /\ file.exists
  /\ op[q].pc = "swapin" => bak = op[q].seen /\ ~file.exists /\ Sound(bak)

Inv ==
  /\ TypeOK /\ Bound /\ Named /\ Shape /\ Held /\ Sound(file)
  /\ \A q \in Procs : Knows(q) /\ Swaps(q)

-----------------------------------------------------------------------------
(* The effects of the helpers. *)

LEMMA NoFileTyped == NoFile \in Files /\ EmptyFile \in Files
BY DEF NoFile, EmptyFile, Files

LEMMA IdleTyped == Idle \in Ops /\ Idle.pc = "idle"
BY NoFileTyped DEF Idle, Ops, OpPcs

LEMMA GotoEffect ==
  ASSUME op \in [Procs -> Ops], NEW q \in Procs, NEW pc \in OpPcs, Goto(q, pc)
  PROVE  /\ op' \in [Procs -> Ops] /\ \A r \in Procs : r # q => op'[r] = op[r]
         /\ op'[q].pc = pc /\ op'[q].kind = op[q].kind /\ op'[q].intent = op[q].intent
         /\ op'[q].exists = (op[q].exists /\ pc = "record")
         /\ op'[q].seen = IF pc = "verify" THEN NoFile ELSE op[q].seen
<1> DEFINE n == [op[q] EXCEPT !.pc = pc, !.exists = op[q].exists /\ pc = "record",
                              !.seen = IF pc = "verify" THEN NoFile ELSE op[q].seen]
<1>1. op' = [op EXCEPT ![q] = n]
  BY DEF Goto
<1>2. /\ n \in Ops /\ n.pc = pc /\ n.kind = op[q].kind /\ n.intent = op[q].intent
      /\ n.exists = (op[q].exists /\ pc = "record")
      /\ n.seen = IF pc = "verify" THEN NoFile ELSE op[q].seen
  BY NoFileTyped DEF Ops
<1> HIDE DEF n
<1> QED
  BY <1>1, <1>2

LEMMA ScannedEffect ==
  ASSUME op \in [Procs -> Ops], file \in Files, NEW q \in Procs, NEW pc \in OpPcs, Scanned(q, pc)
  PROVE  /\ op' \in [Procs -> Ops] /\ \A r \in Procs : r # q => op'[r] = op[r]
         /\ op'[q].pc = pc /\ op'[q].kind = op[q].kind /\ op'[q].intent = op[q].intent
         /\ op'[q].exists = op[q].exists
         /\ op'[q].seen = IF pc = "verify" THEN NoFile ELSE file
<1> DEFINE n == [op[q] EXCEPT !.pc = pc, !.seen = IF pc = "verify" THEN NoFile ELSE file]
<1>1. op' = [op EXCEPT ![q] = n]
  BY DEF Scanned
<1>2. /\ n \in Ops /\ n.pc = pc /\ n.kind = op[q].kind /\ n.intent = op[q].intent
      /\ n.exists = op[q].exists /\ n.seen = IF pc = "verify" THEN NoFile ELSE file
  BY NoFileTyped DEF Ops
<1> HIDE DEF n
<1> QED
  BY <1>1, <1>2

LEMMA LeaveEffect ==
  ASSUME op \in [Procs -> Ops], NEW q \in Procs, op' = [op EXCEPT ![q] = Idle]
  PROVE  /\ op' \in [Procs -> Ops] /\ \A r \in Procs : r # q => op'[r] = op[r]
         /\ op'[q].pc = "idle"
BY IdleTyped

LEMMA BeginEffect ==
  ASSUME op \in [Procs -> Ops], NEW q \in Procs, NEW kind \in {"enroll", "revoke"},
         NEW i \in Intents, NEW known \in BOOLEAN,
         op' = [op EXCEPT ![q] = [Idle EXCEPT !.pc = "maintain", !.kind = kind, !.intent = i,
                                              !.exists = known]]
  PROVE  /\ op' \in [Procs -> Ops] /\ \A r \in Procs : r # q => op'[r] = op[r]
         /\ op'[q].pc = "maintain" /\ op'[q].kind = kind /\ op'[q].intent = i
         /\ op'[q].exists = known
<1> DEFINE n == [Idle EXCEPT !.pc = "maintain", !.kind = kind, !.intent = i, !.exists = known]
<1>1. n \in Ops /\ n.pc = "maintain" /\ n.kind = kind /\ n.intent = i /\ n.exists = known
  BY NoFileTyped DEF Idle, Ops, OpPcs
<1>2. op' = [op EXCEPT ![q] = n]
  OBVIOUS
<1> HIDE DEF n
<1> QED
  BY <1>1, <1>2

LEMMA LineTyped == ASSUME NEW i \in Intents
                   PROVE  LineOf(i) \in Lines /\ LineOf(i).pair = PairOf[i] /\ PairOf[i] \in Pairs
BY RequestsAssumption DEF LineOf, Lines

-----------------------------------------------------------------------------
(* What a step of one command leaves of the others' knowledge. *)

GrantsStay == \A p \in Pairs : grant[p] # NoIntent => grant'[p] = grant[p]

LEMMA OthersWait ==
  ASSUME Inv, NEW q \in Procs, maint = q
  PROVE  \A r \in Procs : r # q => op[r].pc \in {"idle", "maintain"}
BY DEF Inv, TypeOK, Ops, Held, LockedPcs

LEMMA WaitingKnows ==
  ASSUME Inv, NEW r \in Procs, op[r].pc \in {"idle", "maintain"}, op'[r] = op[r], GrantsStay
  PROVE  Knows(r)' /\ Swaps(r)'
<1>1. Knows(r)
  BY DEF Inv
<1>2. Knows(r)'
  BY <1>1, RequestsAssumption, PairingNulls DEF Knows, Later, GrantsStay
<1>3. Swaps(r)'
  BY DEF Swaps
<1> QED
  BY <1>2, <1>3

LEMMA SameKnows ==
  ASSUME Inv, NEW r \in Procs, op'[r] = op[r], UNCHANGED <<grant, tomb>>,
         op[r].pc \notin {"swapout", "swapin"} \/ UNCHANGED <<file, bak, byHand, revoked>>
  PROVE  Knows(r)' /\ Swaps(r)'
<1>1. Knows(r) /\ Swaps(r)
  BY DEF Inv
<1>2. Knows(r)'
  BY <1>1 DEF Knows
<1>3. Swaps(r)'
  BY <1>1 DEF Swaps, Sound, Accounted, LineOf
<1> QED
  BY <1>2, <1>3

\* A step of the command that holds the lock.
LEMMA LockedStep ==
  ASSUME Inv, NEW q \in Procs, maint = q, op' \in [Procs -> Ops],
         \A r \in Procs : r # q => op'[r] = op[r],
         \/ op'[q].pc \in LockedPcs /\ maint' = q /\ Knows(q)' /\ Swaps(q)'
         \/ op'[q].pc = "idle" /\ maint' = NoProc,
         running' = running, GrantsStay
  PROVE  Held' /\ \A r \in Procs : Knows(r)' /\ Swaps(r)'
<1>1. \A r \in Procs : r # q => op[r].pc \in {"idle", "maintain"}
  BY OthersWait
<1>2. Held'
  BY <1>1, PairingNulls DEF Inv, Held, LockedPcs
<1>3. \A r \in Procs : r # q => Knows(r)' /\ Swaps(r)'
  BY <1>1, WaitingKnows
<1>4. Knows(q)' /\ Swaps(q)'
  BY DEF Knows, Swaps
<1> QED
  BY <1>2, <1>3, <1>4

\* Steps that leave all files alone.
LEMMA FilesSame ==
  ASSUME Inv, UNCHANGED <<grant, file, bak, byHand, revoked, edits>>
  PROVE  Bound' /\ Shape' /\ Sound(file)'
BY DEF Inv, Bound, Shape, Sound, Accounted, LineOf

\* ... and the records.
LEMMA OnlyOp ==
  ASSUME Inv, UNCHANGED <<records, file, bak, reports, edits, byHand>>, op' \in [Procs -> Ops],
         maint' \in Procs \cup {NoProc}, running' \in BOOLEAN, Held',
         \A r \in Procs : Knows(r)' /\ Swaps(r)'
  PROVE  Inv'
<1>1. Bound' /\ Shape' /\ Sound(file)'
  BY FilesSame DEF records, reports
<1>2. TypeOK' /\ Named'
  BY DEF Inv, TypeOK, Named, records, reports
<1> QED
  BY <1>1, <1>2 DEF Inv

-----------------------------------------------------------------------------
(* Commands before and after they hold the lock. *)

LEMMA EnrollBeginStep == ASSUME Inv, NEW q \in Procs, NEW i \in Intents, EnrollBegin(q, i) PROVE Inv'
<1>1. op[q].pc = "idle" /\ op \in [Procs -> Ops] /\ PairOf[i] \in Pairs
  BY RequestsAssumption DEF EnrollBegin, Inv, TypeOK
<1>2. UNCHANGED <<records, file, bak, maint, running, reports, edits, byHand>>
      /\ UNCHANGED <<grant, tomb, revoked>>
  BY DEF EnrollBegin, records, reports
<1>3. /\ op' \in [Procs -> Ops] /\ \A r \in Procs : r # q => op'[r] = op[r]
      /\ op'[q].pc = "maintain" /\ op'[q].kind = "enroll" /\ op'[q].intent = i
      /\ op'[q].exists = (grant[PairOf[i]] # NoIntent)
  BY <1>1, BeginEffect DEF EnrollBegin
<1>4. grant[PairOf[i]] # NoIntent => grant[PairOf[i]] = i
  BY DEF EnrollBegin
<1>5. Knows(q)' /\ Swaps(q)'
  BY <1>2, <1>3, <1>4 DEF Knows, Swaps, Later
<1>6. Held'
  BY <1>1, <1>2, <1>3 DEF Inv, Held, LockedPcs
<1>7. \A r \in Procs : r # q => Knows(r)' /\ Swaps(r)'
  BY <1>2, <1>3, SameKnows
<1> QED
  BY <1>2, <1>3, <1>5, <1>6, <1>7, OnlyOp DEF Inv, TypeOK

LEMMA RevokeBeginStep ==
  ASSUME Inv, NEW q \in Procs, NEW p \in Pairs, NEW by \in Keys \cup {Operator}, RevokeBegin(q, p, by)
  PROVE  Inv'
<1> DEFINE i == grant[p]
<1>1. op[q].pc = "idle" /\ op \in [Procs -> Ops] /\ i \in Intents /\ PairOf[i] = p
  BY DEF RevokeBegin, Inv, TypeOK, Bound
<1>2. UNCHANGED <<records, file, bak, maint, running, reports, edits, byHand>>
      /\ UNCHANGED <<grant, tomb, revoked>>
  BY DEF RevokeBegin, records, reports
<1>3. /\ op' \in [Procs -> Ops] /\ \A r \in Procs : r # q => op'[r] = op[r]
      /\ op'[q].pc = "maintain" /\ op'[q].kind = "revoke" /\ op'[q].intent = i
      /\ op'[q].exists
  BY <1>1, BeginEffect DEF RevokeBegin
<1>5. Knows(q)' /\ Swaps(q)'
  BY <1>1, <1>2, <1>3 DEF Knows, Swaps, Later
<1>6. Held'
  BY <1>1, <1>2, <1>3 DEF Inv, Held, LockedPcs
<1>7. \A r \in Procs : r # q => Knows(r)' /\ Swaps(r)'
  BY <1>2, <1>3, SameKnows
<1> QED
  BY <1>2, <1>3, <1>5, <1>6, <1>7, OnlyOp DEF Inv, TypeOK

LEMMA MaintainStep == ASSUME Inv, NEW q \in Procs, Maintain(q) PROVE Inv'
<1>1. op[q].pc = "maintain" /\ op \in [Procs -> Ops] /\ maint = NoProc /\ maint' = q /\ ~running
  BY DEF Maintain, Inv, TypeOK
<1>2. UNCHANGED <<records, file, bak, running, reports, edits, byHand>>
      /\ UNCHANGED <<grant, tomb, revoked>>
  BY DEF Maintain, records, reports
<1>3. /\ op' \in [Procs -> Ops] /\ \A r \in Procs : r # q => op'[r] = op[r]
      /\ op'[q].pc = "record" /\ op'[q].kind = op[q].kind /\ op'[q].intent = op[q].intent
      /\ op'[q].exists = (op[q].exists /\ "record" = "record")
  BY <1>1, GotoEffect DEF Maintain, OpPcs
<1>4. Knows(q)
  BY DEF Inv
<1>5. Knows(q)' /\ Swaps(q)'
  BY <1>1, <1>2, <1>3, <1>4 DEF Knows, Swaps, Later
<1>6. \A r \in Procs : op[r].pc \notin LockedPcs
  BY <1>1, PairingNulls DEF Inv, Held
<1>7. Held'
  BY <1>1, <1>2, <1>3, <1>6, PairingNulls DEF Held, LockedPcs, OpPcs
<1>8. \A r \in Procs : r # q => Knows(r)' /\ Swaps(r)'
  BY <1>2, <1>3, SameKnows
<1> QED
  BY <1>1, <1>2, <1>3, <1>5, <1>7, <1>8, OnlyOp DEF Inv, TypeOK

LEMMA RefusedStep == ASSUME Inv, NEW q \in Procs, Refused(q) PROVE Inv'
<1>1. op[q].pc = "maintain" /\ op \in [Procs -> Ops]
  BY DEF Refused, Inv, TypeOK
<1>2. UNCHANGED <<records, file, bak, maint, running, reports, edits, byHand>>
      /\ UNCHANGED <<grant, tomb, revoked>>
  BY DEF Refused, records, reports
<1>3. /\ op' \in [Procs -> Ops] /\ \A r \in Procs : r # q => op'[r] = op[r]
      /\ op'[q].pc = "idle"
  BY <1>1, LeaveEffect DEF Refused
<1>4. Knows(q)' /\ Swaps(q)'
  BY <1>3 DEF Knows, Swaps
<1>5. Held'
  BY <1>1, <1>2, <1>3 DEF Inv, Held, LockedPcs
<1>6. \A r \in Procs : r # q => Knows(r)' /\ Swaps(r)'
  BY <1>2, <1>3, SameKnows
<1> QED
  BY <1>2, <1>3, <1>4, <1>5, <1>6, OnlyOp DEF Inv, TypeOK

\* What a locked command knows.
LEMMA Locked ==
  ASSUME Inv, NEW q \in Procs, op[q].pc \in LockedPcs
  PROVE  /\ maint = q /\ op \in [Procs -> Ops] /\ op[q].intent \in Intents
         /\ op[q].kind \in {"enroll", "revoke"}
         /\ PairOf[op[q].intent] \in Pairs /\ LineOf(op[q].intent) \in Lines
         /\ LineOf(op[q].intent).pair = PairOf[op[q].intent]
         /\ Knows(q) /\ Swaps(q)
<1>1. maint = q /\ op \in [Procs -> Ops] /\ Knows(q) /\ Swaps(q)
  BY DEF Inv, TypeOK, Held
<1>2. op[q].intent \in Intents /\ op[q].kind \in {"enroll", "revoke"}
  BY <1>1 DEF Knows, LockedPcs
<1> QED
  BY <1>1, <1>2, LineTyped

LEMMA AbortStep == ASSUME Inv, NEW q \in Procs, Abort(q) PROVE Inv'
<1>1. maint = q /\ op \in [Procs -> Ops]
  BY Locked DEF Abort
<1>2. UNCHANGED <<records, file, bak, running, reports, edits, byHand>>
      /\ UNCHANGED <<grant, tomb, revoked>> /\ maint' = NoProc
  BY DEF Abort, Leave, records, reports
<1>3. /\ op' \in [Procs -> Ops] /\ \A r \in Procs : r # q => op'[r] = op[r]
      /\ op'[q].pc = "idle"
  BY <1>1, LeaveEffect DEF Abort, Leave
<1>4. Held' /\ \A r \in Procs : Knows(r)' /\ Swaps(r)'
  BY <1>1, <1>2, <1>3, LockedStep DEF GrantsStay
<1> QED
  BY <1>2, <1>3, <1>4, OnlyOp DEF Inv, TypeOK

-----------------------------------------------------------------------------
(* Commands with the lock. *)

LEMMA RecordGrantStep == ASSUME Inv, NEW q \in Procs, RecordGrant(q) PROVE Inv'
<1> DEFINE i == op[q].intent
           p == PairOf[i]
<1>1. /\ op[q].pc = "record" /\ op[q].kind = "enroll" /\ maint = q /\ op \in [Procs -> Ops]
      /\ i \in Intents /\ p \in Pairs
  BY Locked DEF RecordGrant, LockedPcs, OpPcs
<1>2. UNCHANGED <<offer, tomb, file, bak, maint, running, issued, revoked, edits, byHand>>
  BY DEF RecordGrant, reports
<1>3. /\ op' \in [Procs -> Ops] /\ \A r \in Procs : r # q => op'[r] = op[r]
      /\ op'[q].pc = "scan" /\ op'[q].kind = "enroll" /\ op'[q].intent = i
  BY <1>1, GotoEffect DEF RecordGrant, OpPcs
<1>4. grant \in [Pairs -> Intents \cup {NoIntent}]
  BY DEF Inv, TypeOK
<1>5. op[q].exists => grant[p] = i
  BY <1>1 DEF Inv, Knows
<1>6. /\ grant' \in [Pairs -> Intents \cup {NoIntent}] /\ grant'[p] = i
      /\ \A b \in Pairs : b # p => grant'[b] = grant[b]
      /\ grant[p] \in {NoIntent, i}
  BY <1>1, <1>4, <1>5 DEF RecordGrant
<1>7. GrantsStay
  BY <1>6 DEF GrantsStay
<1>8. Knows(q)' /\ Swaps(q)'
  BY <1>1, <1>3, <1>6 DEF Knows, Swaps, Later
<1>9. Held' /\ \A r \in Procs : Knows(r)' /\ Swaps(r)'
  BY <1>1, <1>2, <1>3, <1>7, <1>8, LockedStep DEF LockedPcs, OpPcs
<1>10. Bound' /\ Shape'
  BY <1>2, <1>6 DEF Inv, Bound, Shape
<1>11. Named'
  BY <1>2, <1>4, <1>7, RequestsAssumption, PairingNulls DEF Inv, TypeOK, Named, GrantsStay
<1>12. Sound(file)'
  BY <1>2, <1>7 DEF Inv, Sound, Accounted, GrantsStay, LineOf
<1>13. TypeOK'
  BY <1>2, <1>3, <1>6 DEF Inv, TypeOK
<1> QED
  BY <1>9, <1>10, <1>11, <1>12, <1>13 DEF Inv

LEMMA RecordTombstoneStep == ASSUME Inv, NEW q \in Procs, RecordTombstone(q) PROVE Inv'
<1> DEFINE i == op[q].intent
           p == PairOf[i]
<1>1. /\ op[q].pc = "record" /\ op[q].kind = "revoke" /\ maint = q /\ op \in [Procs -> Ops]
      /\ i \in Intents /\ p \in Pairs /\ grant[p] = i
  BY Locked DEF RecordTombstone, LockedPcs, OpPcs, Knows
<1>2. UNCHANGED <<offer, grant, file, bak, maint, running, issued, revoked, edits, byHand>>
      /\ tomb' = tomb \cup {p}
  BY DEF RecordTombstone, reports
<1>3. /\ op' \in [Procs -> Ops] /\ \A r \in Procs : r # q => op'[r] = op[r]
      /\ op'[q].pc = "scan" /\ op'[q].kind = "revoke" /\ op'[q].intent = i
  BY <1>1, GotoEffect DEF RecordTombstone, OpPcs
<1>4. Knows(q)' /\ Swaps(q)'
  BY <1>1, <1>2, <1>3 DEF Knows, Swaps, Later
<1>5. Held' /\ \A r \in Procs : Knows(r)' /\ Swaps(r)'
  BY <1>1, <1>2, <1>3, <1>4, LockedStep DEF LockedPcs, OpPcs, GrantsStay
<1>6. Bound' /\ Shape' /\ Sound(file)'
  BY <1>2, FilesSame
<1>7. TypeOK' /\ Named'
  BY <1>1, <1>2, <1>3 DEF Inv, TypeOK, Named
<1> QED
  BY <1>5, <1>6, <1>7 DEF Inv

LEMMA EnrollScanStep == ASSUME Inv, NEW q \in Procs, EnrollScan(q) PROVE Inv'
<1> DEFINE i == op[q].intent
           pc == IF Exact(file, LineOf(i)) = 0 THEN "compare" ELSE "verify"
<1>1. /\ op[q].pc = "scan" /\ op[q].kind = "enroll" /\ maint = q /\ op \in [Procs -> Ops]
      /\ i \in Intents /\ PairOf[i] \notin tomb /\ Knows(q) /\ file \in Files
  BY Locked DEF EnrollScan, LockedPcs, OpPcs, Inv, TypeOK
<1>2. UNCHANGED <<records, file, bak, maint, running, reports, edits, byHand>>
      /\ UNCHANGED <<grant, tomb, revoked>>
  BY DEF EnrollScan, Scanned, records, reports
<1>3. /\ op' \in [Procs -> Ops] /\ \A r \in Procs : r # q => op'[r] = op[r]
      /\ op'[q].pc \in {"compare", "verify"} /\ op'[q].kind = "enroll" /\ op'[q].intent = i
  <2>1. pc \in OpPcs /\ pc \in {"compare", "verify"} /\ Scanned(q, pc)
    BY DEF OpPcs, EnrollScan
  <2> HIDE DEF pc
  <2> QED
    BY <1>1, <2>1, ScannedEffect
<1>4. Knows(q)' /\ Swaps(q)'
  BY <1>1, <1>2, <1>3 DEF Knows, Swaps, Later
<1>5. Held' /\ \A r \in Procs : Knows(r)' /\ Swaps(r)'
  BY <1>1, <1>2, <1>3, <1>4, LockedStep DEF LockedPcs, OpPcs, GrantsStay
<1> QED
  BY <1>2, <1>3, <1>5, OnlyOp DEF Inv, TypeOK

LEMMA RevokeScanStep == ASSUME Inv, NEW q \in Procs, RevokeScan(q) PROVE Inv'
<1> DEFINE i == op[q].intent
           pc == IF Exact(file, LineOf(i)) = 1 THEN "compare" ELSE "verify"
<1>1. /\ op[q].pc = "scan" /\ op[q].kind = "revoke" /\ maint = q /\ op \in [Procs -> Ops]
      /\ i \in Intents /\ Knows(q) /\ file \in Files
  BY Locked DEF RevokeScan, LockedPcs, OpPcs, Inv, TypeOK
<1>2. UNCHANGED <<records, file, bak, maint, running, reports, edits, byHand>>
      /\ UNCHANGED <<grant, tomb, revoked>>
  BY DEF RevokeScan, Scanned, records, reports
<1>3. /\ op' \in [Procs -> Ops] /\ \A r \in Procs : r # q => op'[r] = op[r]
      /\ op'[q].pc \in {"compare", "verify"} /\ op'[q].kind = "revoke" /\ op'[q].intent = i
      /\ op'[q].pc = "compare" => op'[q].seen.lines[LineOf(i)] = 1
  <2>1. /\ pc \in OpPcs /\ pc \in {"compare", "verify"} /\ Scanned(q, pc)
        /\ pc = "compare" => file.lines[LineOf(i)] = 1
    BY DEF OpPcs, RevokeScan, Exact
  <2> HIDE DEF pc
  <2> QED
    BY <1>1, <2>1, ScannedEffect
<1>4. Knows(q)' /\ Swaps(q)'
  BY <1>1, <1>2, <1>3 DEF Knows, Swaps, Later, LineOf
<1>5. Held' /\ \A r \in Procs : Knows(r)' /\ Swaps(r)'
  BY <1>1, <1>2, <1>3, <1>4, LockedStep DEF LockedPcs, OpPcs, GrantsStay
<1> QED
  BY <1>2, <1>3, <1>5, OnlyOp DEF Inv, TypeOK

LEMMA NoLines == \A l \in Lines : NoFile.lines[l] = 0
BY DEF NoFile

LEMMA CompareStep == ASSUME Inv, NEW q \in Procs, Compare(q) PROVE Inv'
<1>1. /\ op[q].pc = "compare" /\ maint = q /\ op \in [Procs -> Ops] /\ Knows(q) /\ Swaps(q)
      /\ file = op[q].seen
  BY Locked DEF Compare, LockedPcs, OpPcs
<1>2. UNCHANGED <<records, file, bak, maint, running, reports, edits, byHand>>
      /\ UNCHANGED <<grant, tomb, revoked>>
  BY DEF Compare, records, reports
<1>3. PICK pc \in {"swapout", "swapin"} :
        Goto(q, pc) /\ (pc = "swapout" => file.exists) /\ (pc = "swapin" => ~file.exists /\ ~bak.exists)
  BY DEF Compare
<1>4. /\ op' \in [Procs -> Ops] /\ \A r \in Procs : r # q => op'[r] = op[r]
      /\ op'[q].pc = pc /\ op'[q].kind = op[q].kind /\ op'[q].intent = op[q].intent
      /\ op'[q].seen = op[q].seen
  BY <1>1, <1>3, GotoEffect DEF OpPcs
<1>5. Knows(q)'
  BY <1>1, <1>2, <1>4 DEF Knows, Later
<1>6. pc = "swapin" => bak = op[q].seen /\ ~file.exists /\ Sound(bak)
  BY <1>1, <1>3, NoLines DEF Inv, Shape, Sound
<1>7. Swaps(q)'
  BY <1>1, <1>2, <1>3, <1>4, <1>6 DEF Swaps, Sound, Accounted, LineOf
<1>8. Held' /\ \A r \in Procs : Knows(r)' /\ Swaps(r)'
  BY <1>1, <1>2, <1>4, <1>5, <1>7, LockedStep DEF LockedPcs, OpPcs, GrantsStay
<1> QED
  BY <1>2, <1>4, <1>8, OnlyOp DEF Inv, TypeOK

LEMMA SwapOutStep == ASSUME Inv, NEW q \in Procs, SwapOut(q) PROVE Inv'
<1>1. /\ op[q].pc = "swapout" /\ maint = q /\ op \in [Procs -> Ops] /\ Knows(q) /\ Swaps(q)
      /\ file = op[q].seen /\ file.exists /\ Sound(file)
  BY Locked DEF SwapOut, LockedPcs, OpPcs, Swaps, Inv
<1>2. UNCHANGED <<offer, grant, tomb, maint, running, issued, revoked, edits, byHand>>
      /\ bak' = file /\ file' = NoFile
  BY DEF SwapOut, records, reports
<1>3. /\ op' \in [Procs -> Ops] /\ \A r \in Procs : r # q => op'[r] = op[r]
      /\ op'[q].pc = "swapin" /\ op'[q].kind = op[q].kind /\ op'[q].intent = op[q].intent
      /\ op'[q].seen = op[q].seen
  BY <1>1, GotoEffect DEF SwapOut, OpPcs
<1>4. Knows(q)'
  BY <1>1, <1>2, <1>3 DEF Knows, Later
<1>5. Sound(bak)' /\ ~file'.exists
  BY <1>1, <1>2 DEF Sound, Accounted, LineOf, NoFile
<1>6. Swaps(q)'
  BY <1>1, <1>2, <1>3, <1>5 DEF Swaps, LineOf
<1>7. Held' /\ \A r \in Procs : Knows(r)' /\ Swaps(r)'
  BY <1>1, <1>2, <1>3, <1>4, <1>6, LockedStep DEF LockedPcs, OpPcs, GrantsStay
<1>8. Sound(file)'
  BY <1>2, NoLines DEF Sound
<1>9. Shape'
  BY <1>1, <1>2, <1>5 DEF Inv, Shape
<1>10. TypeOK' /\ Bound' /\ Named'
  BY <1>2, <1>3, NoFileTyped DEF Inv, TypeOK, Bound, Named
<1> QED
  BY <1>7, <1>8, <1>9, <1>10 DEF Inv

\* What a replacement writes differs from what was read in the command's own line only.
LEMMA Written ==
  ASSUME Inv, NEW q \in Procs, op[q].pc = "swapin"
  PROVE  LET f == Contents(q)
             l == LineOf(op[q].intent)
         IN  /\ f \in Files /\ f.exists /\ f.other = bak.other
             /\ \A m \in Lines : m # l => f.lines[m] = bak.lines[m]
             /\ op[q].kind = "enroll" => f.lines[l] = bak.lines[l] + 1
             /\ op[q].kind = "revoke" => f.lines[l] = 0 /\ bak.lines[l] = 1
<1> DEFINE l == LineOf(op[q].intent)
<1>1. /\ l \in Lines /\ bak = op[q].seen /\ bak \in Files /\ op[q].kind \in {"enroll", "revoke"}
      /\ op[q].kind = "revoke" => bak.lines[l] = 1
  BY Locked DEF LockedPcs, OpPcs, Swaps, Inv, TypeOK
<1>2. CASE op[q].kind = "enroll"
  <2>1. Contents(q) = [bak EXCEPT !.exists = TRUE, !.lines[l] = @ + 1]
    BY <1>1, <1>2 DEF Contents, Appended
  <2>2. bak.lines \in [Lines -> Nat] /\ bak.lines[l] + 1 \in Nat
    BY <1>1 DEF Files
  <2>3. Contents(q) \in Files /\ Contents(q).exists /\ Contents(q).other = bak.other
        /\ Contents(q).lines = [bak.lines EXCEPT ![l] = bak.lines[l] + 1]
    <3> HIDE DEF l
    <3>1. [bak.lines EXCEPT ![l] = bak.lines[l] + 1] \in [Lines -> Nat]
      BY <2>2
    <3>2. Contents(q) = [exists |-> TRUE, lines |-> [bak.lines EXCEPT ![l] = bak.lines[l] + 1],
                         other |-> bak.other]
      BY <1>1, <2>1 DEF Files
    <3> QED
      BY <1>1, <3>1, <3>2 DEF Files
  <2> HIDE DEF l
  <2> QED
    BY <1>1, <1>2, <2>2, <2>3 DEF l
<1>3. CASE op[q].kind = "revoke"
  <2>1. Contents(q) = [bak EXCEPT !.lines[l] = @ - 1]
    BY <1>1, <1>3 DEF Contents, Removed
  <2>2. bak.lines \in [Lines -> Nat] /\ bak.lines[l] = 1
    BY <1>1, <1>3 DEF Files
  <2>3. Contents(q) \in Files /\ Contents(q).exists = bak.exists /\ Contents(q).other = bak.other
        /\ Contents(q).lines = [bak.lines EXCEPT ![l] = 0]
    BY <1>1, <2>1, <2>2 DEF Files
  <2>4. bak.exists
    BY <1>1, <2>2, NoLines DEF Inv, Shape
  <2> HIDE DEF l
  <2> QED
    BY <1>1, <1>3, <2>2, <2>3, <2>4 DEF l
<1> QED
  BY <1>1, <1>2, <1>3

LEMMA SwapInStep == ASSUME Inv, NEW q \in Procs, SwapIn(q) PROVE Inv'
<1> DEFINE i == op[q].intent
           l == LineOf(i)
<1>1. /\ op[q].pc = "swapin" /\ maint = q /\ op \in [Procs -> Ops] /\ Knows(q)
      /\ ~file.exists /\ Sound(bak) /\ i \in Intents /\ op[q].kind \in {"enroll", "revoke"}
      /\ l \in Lines /\ l.pair = PairOf[i] /\ PairOf[i] \in Pairs
  BY Locked DEF SwapIn, LockedPcs, OpPcs, Swaps
<1>2. UNCHANGED <<offer, grant, tomb, maint, running, issued, revoked, edits>>
      /\ file' = Contents(q) /\ bak' = NoFile /\ byHand' = {m \in byHand : file'.lines[m] > 0}
  BY DEF SwapIn, records, reports
<1>3. /\ op' \in [Procs -> Ops] /\ \A r \in Procs : r # q => op'[r] = op[r]
      /\ op'[q].pc = "verify" /\ op'[q].kind = op[q].kind /\ op'[q].intent = i
  BY <1>1, GotoEffect DEF SwapIn, OpPcs
<1>4. /\ file' \in Files /\ file'.exists /\ file'.other = bak.other
      /\ \A m \in Lines : m # l => file'.lines[m] = bak.lines[m]
      /\ op[q].kind = "revoke" => file'.lines[l] = 0
  BY <1>1, <1>2, Written
<1>5. Knows(q)' /\ Swaps(q)'
  BY <1>1, <1>2, <1>3 DEF Knows, Swaps, Later
<1>6. Held' /\ \A r \in Procs : Knows(r)' /\ Swaps(r)'
  BY <1>1, <1>2, <1>3, <1>5, LockedStep DEF LockedPcs, OpPcs, GrantsStay
<1>7. Sound(file)'
  <2> SUFFICES ASSUME NEW m \in Lines, file'.lines[m] > 0
               PROVE  m \in byHand' \/ Accounted(m)'
    BY DEF Sound
  <2>1. CASE m = l
    <3>1. op[q].kind = "enroll"
      BY <1>1, <1>4, <2>1
    <3>2. grant[PairOf[i]] = i /\ PairOf[i] \notin tomb
      BY <1>1, <3>1 DEF Knows, Later
    <3>3. PairOf[i] \notin revoked
      BY <3>2 DEF Inv, Named
    <3> QED
      BY <1>1, <1>2, <2>1, <3>2, <3>3, PairingNulls DEF Accounted, LineOf
  <2>2. CASE m # l
    <3>1. m \in byHand \/ Accounted(m)
      BY <1>1, <1>4, <2>2 DEF Sound
    <3> QED
      BY <1>2, <3>1 DEF Accounted, LineOf
  <2> QED
    BY <2>1, <2>2
<1>8. Shape'
  <2>1. bak.other = edits
    BY <1>1 DEF Inv, Shape, NoFile
  <2> QED
    BY <1>2, <1>4, <2>1 DEF Shape, NoFile
<1>9. TypeOK' /\ Bound' /\ Named'
  BY <1>2, <1>3, <1>4, NoFileTyped DEF Inv, TypeOK, Bound, Named
<1> QED
  BY <1>6, <1>7, <1>8, <1>9 DEF Inv

LEMMA SwapBackStep == ASSUME Inv, NEW q \in Procs, SwapBack(q) PROVE Inv'
<1>1. /\ op[q].pc = "swapin" /\ maint = q /\ op \in [Procs -> Ops] /\ Sound(bak) /\ bak.exists
      /\ ~file.exists
  BY Locked DEF SwapBack, LockedPcs, OpPcs, Swaps
<1>2. UNCHANGED <<offer, grant, tomb, running, issued, revoked, edits, byHand>>
      /\ file' = bak /\ bak' = NoFile /\ maint' = NoProc
  BY DEF SwapBack, Leave, records, reports
<1>3. /\ op' \in [Procs -> Ops] /\ \A r \in Procs : r # q => op'[r] = op[r]
      /\ op'[q].pc = "idle"
  BY <1>1, LeaveEffect DEF SwapBack, Leave
<1>4. Held' /\ \A r \in Procs : Knows(r)' /\ Swaps(r)'
  BY <1>1, <1>2, <1>3, LockedStep DEF GrantsStay
<1>5. Sound(file)'
  BY <1>1, <1>2 DEF Sound, Accounted, LineOf
<1>6. Shape'
  BY <1>1, <1>2 DEF Inv, Shape, NoFile
<1>7. TypeOK' /\ Bound' /\ Named'
  BY <1>2, <1>3, NoFileTyped DEF Inv, TypeOK, Bound, Named
<1> QED
  BY <1>4, <1>5, <1>6, <1>7 DEF Inv

LEMMA EnrollVerifyStep == ASSUME Inv, NEW q \in Procs, EnrollVerify(q) PROVE Inv'
<1> DEFINE i == op[q].intent
<1>1. /\ op[q].pc = "verify" /\ maint = q /\ op \in [Procs -> Ops] /\ i \in Intents
      /\ grant[PairOf[i]] = i
  BY Locked DEF EnrollVerify, LockedPcs, OpPcs, Knows, Later
<1>2. UNCHANGED <<offer, grant, tomb, file, bak, running, revoked, edits, byHand>>
      /\ issued' = issued \cup {i} /\ maint' = NoProc
  BY DEF EnrollVerify, Leave, records
<1>3. /\ op' \in [Procs -> Ops] /\ \A r \in Procs : r # q => op'[r] = op[r]
      /\ op'[q].pc = "idle"
  BY <1>1, LeaveEffect DEF EnrollVerify, Leave
<1>4. Held' /\ \A r \in Procs : Knows(r)' /\ Swaps(r)'
  BY <1>1, <1>2, <1>3, LockedStep DEF GrantsStay
<1>5. Bound' /\ Shape' /\ Sound(file)'
  BY <1>2, FilesSame
<1>6. TypeOK' /\ Named'
  BY <1>1, <1>2, <1>3 DEF Inv, TypeOK, Named
<1> QED
  BY <1>4, <1>5, <1>6 DEF Inv

LEMMA RevokeVerifyStep == ASSUME Inv, NEW q \in Procs, RevokeVerify(q) PROVE Inv'
<1> DEFINE i == op[q].intent
           p == PairOf[i]
<1>1. /\ op[q].pc = "verify" /\ maint = q /\ op \in [Procs -> Ops] /\ i \in Intents
      /\ p \in Pairs /\ grant[p] = i /\ p \in tomb
  BY Locked DEF RevokeVerify, LockedPcs, OpPcs, Knows, Later
<1>2. UNCHANGED <<offer, grant, tomb, file, bak, running, issued, edits, byHand>>
      /\ revoked' = revoked \cup {p} /\ maint' = NoProc
  BY DEF RevokeVerify, Leave, records
<1>3. /\ op' \in [Procs -> Ops] /\ \A r \in Procs : r # q => op'[r] = op[r]
      /\ op'[q].pc = "idle"
  BY <1>1, LeaveEffect DEF RevokeVerify, Leave
<1>4. Held' /\ \A r \in Procs : Knows(r)' /\ Swaps(r)'
  BY <1>1, <1>2, <1>3, LockedStep DEF GrantsStay
<1>5. file.lines[LineOf(i)] = 0
  BY DEF RevokeVerify, Exact
<1>6. Sound(file)'
  BY <1>1, <1>2, <1>5 DEF Inv, Sound, Accounted, LineOf
<1>7. Bound' /\ Shape'
  BY <1>2 DEF Inv, Bound, Shape
<1>8. TypeOK' /\ Named'
  BY <1>1, <1>2, <1>3, PairingNulls DEF Inv, TypeOK, Named
<1> QED
  BY <1>4, <1>6, <1>7, <1>8 DEF Inv

-----------------------------------------------------------------------------
(* Everybody else. *)

\* A step that is no command's.
LEMMA OutsideStep ==
  ASSUME Inv, UNCHANGED <<grant, tomb, op, maint>>, running' = running \/ maint = NoProc,
         \/ \A q \in Procs : op[q].pc \notin {"swapout", "swapin"}
         \/ UNCHANGED <<file, bak, byHand, revoked>>
  PROVE  Held' /\ \A q \in Procs : Knows(q)' /\ Swaps(q)'
<1>1. \A q \in Procs : Knows(q)' /\ Swaps(q)'
  BY SameKnows
<1>2. Held'
  BY DEF Inv, Held
<1> QED
  BY <1>1, <1>2

LEMMA OfferStep == ASSUME Inv, NEW o \in Offers, Offer(o) \/ OfferStale(o) PROVE Inv'
<1>1. UNCHANGED <<grant, tomb, file, bak, op, maint, running, issued, revoked, edits, byHand>>
  BY DEF Offer, OfferStale
<1>2. offer' \in [Offers -> {"none", "live", "stale"}]
  BY DEF Offer, OfferStale, Inv, TypeOK
<1>3. Held' /\ \A q \in Procs : Knows(q)' /\ Swaps(q)'
  BY <1>1, OutsideStep
<1>4. Bound' /\ Shape' /\ Sound(file)'
  BY <1>1, FilesSame
<1>5. TypeOK' /\ Named'
  BY <1>1, <1>2 DEF Inv, TypeOK, Named
<1> QED
  BY <1>3, <1>4, <1>5 DEF Inv

LEMMA RunStep == ASSUME Inv, RunStart \/ RunEnd PROVE Inv'
<1>1. UNCHANGED <<records, file, bak, op, maint, reports, edits, byHand>>
      /\ UNCHANGED <<grant, tomb, revoked>> /\ running' \in BOOLEAN
  BY DEF RunStart, RunEnd, records, reports
<1>2. maint = NoProc
  BY DEF RunStart, RunEnd, Inv, Held
<1>3. Held' /\ \A q \in Procs : Knows(q)' /\ Swaps(q)'
  BY <1>1, <1>2, OutsideStep
<1> QED
  BY <1>1, <1>3, OnlyOp DEF Inv, TypeOK

LEMMA HandEditStep ==
  ASSUME NoEditInSwap, Inv, NEW lines \in [Lines -> Nat], NEW hand \in SUBSET Lines,
         HandEdit(lines, hand),
         \A m \in Lines : lines[m] > 0 => m \in hand \/ (file.lines[m] > 0 /\ m \notin byHand)
  PROVE  Inv'
<1>1. /\ file.exists /\ \A q \in Procs : op[q].pc \notin {"swapout", "swapin"}
      /\ edits' = edits + 1 /\ byHand' = hand
      /\ file' = [file EXCEPT !.lines = lines, !.other = edits + 1]
  BY DEF HandEdit, NoEditInSwap, Swapping
<1>2. UNCHANGED <<offer, grant, tomb, bak, op, maint, running, issued, revoked>>
  BY DEF HandEdit, records, reports
<1>3. edits \in Nat /\ file \in Files
  BY DEF Inv, TypeOK
<1>4. /\ file' \in Files /\ file'.exists /\ file'.lines = lines /\ file'.other = edits'
  <2>1. edits + 1 \in Nat
    BY <1>3
  <2>2. file' = [exists |-> TRUE, lines |-> lines, other |-> edits + 1]
    BY <1>1, <1>3 DEF Files
  <2> QED
    BY <1>1, <2>1, <2>2 DEF Files
<1>5. Held' /\ \A q \in Procs : Knows(q)' /\ Swaps(q)'
  BY <1>1, <1>2, OutsideStep
<1>6. Sound(file)'
  BY <1>1, <1>2, <1>4 DEF Inv, Sound, Accounted, LineOf
<1>7. Shape'
  BY <1>1, <1>2, <1>4 DEF Inv, Shape
<1>8. TypeOK' /\ Bound' /\ Named'
  BY <1>1, <1>2, <1>3, <1>4 DEF Inv, TypeOK, Bound, Named
<1> QED
  BY <1>5, <1>6, <1>7, <1>8 DEF Inv

LEMMA EditsStep ==
  ASSUME NoEditInSwap, Inv, EditOther \/ \E l \in Lines : AddByHand(l) \/ DeleteByHand(l)
  PROVE  Inv'
<1>1. file.lines \in [Lines -> Nat] /\ byHand \subseteq Lines
  BY DEF Inv, TypeOK, Files
<1>2. CASE EditOther
  BY <1>1, <1>2, HandEditStep DEF EditOther
<1>3. ASSUME NEW l \in Lines, AddByHand(l) PROVE Inv'
  <2> DEFINE lines == [file.lines EXCEPT ![l] = @ + 1]
  <2>1. lines \in [Lines -> Nat] /\ \A m \in Lines : m # l => lines[m] = file.lines[m]
    BY <1>1
  <2>2. HandEdit(lines, byHand \cup {l})
    BY <1>3 DEF AddByHand
  <2> HIDE DEF lines
  <2> QED
    BY <1>1, <2>1, <2>2, HandEditStep
<1>4. ASSUME NEW l \in Lines, DeleteByHand(l) PROVE Inv'
  <2> DEFINE lines == [file.lines EXCEPT ![l] = 0]
  <2>1. /\ lines \in [Lines -> Nat] /\ lines[l] = 0
        /\ \A m \in Lines : m # l => lines[m] = file.lines[m]
    BY <1>1
  <2>2. HandEdit(lines, byHand \ {l})
    BY <1>4 DEF DeleteByHand
  <2> HIDE DEF lines
  <2>3. \A m \in Lines : lines[m] > 0 => m \in byHand \ {l} \/ (file.lines[m] > 0 /\ m \notin byHand)
    BY <2>1
  <2> QED
    BY <1>1, <2>1, <2>2, <2>3, HandEditStep
<1> QED
  BY <1>2, <1>3, <1>4

LEMMA RestoreStep == ASSUME Inv, Restore PROVE Inv'
<1>1. /\ bak.exists /\ ~file.exists /\ \A q \in Procs : op[q].pc \notin {"swapout", "swapin"}
      /\ file' = bak /\ bak' = NoFile /\ byHand' = byHand \cup {l \in Lines : bak.lines[l] > 0}
  BY DEF Restore, Swapping
<1>2. UNCHANGED <<offer, grant, tomb, op, maint, running, issued, revoked, edits>>
  BY DEF Restore, records, reports
<1>3. Held' /\ \A q \in Procs : Knows(q)' /\ Swaps(q)'
  BY <1>1, <1>2, OutsideStep
<1>4. Sound(file)'
  BY <1>1 DEF Sound
<1>5. Shape'
  BY <1>1, <1>2 DEF Inv, Shape, NoFile
<1>6. TypeOK' /\ Bound' /\ Named'
  BY <1>1, <1>2, NoFileTyped DEF Inv, TypeOK, Bound, Named
<1> QED
  BY <1>3, <1>4, <1>5, <1>6 DEF Inv

-----------------------------------------------------------------------------

LEMMA InitInv == ASSUME Init PROVE Inv
<1>1. \A q \in Procs : op[q].pc = "idle"
  BY IdleTyped DEF Init
<1>2. /\ offer \in [Offers -> {"none", "live", "stale"}]
      /\ grant \in [Pairs -> Intents \cup {NoIntent}] /\ op \in [Procs -> Ops]
      /\ file \in Files /\ bak \in Files
  BY IdleTyped, NoFileTyped DEF Init
<1>3. TypeOK
  BY <1>2 DEF Init, TypeOK
<1>4. file.other = 0 /\ \A l \in Lines : file.lines[l] = 0
  BY DEF Init, NoFile, EmptyFile
<1>5. Shape
  BY <1>4 DEF Init, Shape, NoFile, EmptyFile
<1>6. Held
  BY <1>1, PairingNulls DEF Init, Held, LockedPcs
<1>7. Sound(file)
  BY <1>4 DEF Sound
<1>8. \A q \in Procs : Knows(q) /\ Swaps(q)
  BY <1>1 DEF Knows, Swaps
<1>9. Bound /\ Named
  BY DEF Init, Bound, Named
<1> QED
  BY <1>3, <1>5, <1>6, <1>7, <1>8, <1>9 DEF Inv

LEMMA StutterInv == ASSUME Inv, UNCHANGED vars PROVE Inv'
<1>1. UNCHANGED <<records, file, bak, op, maint, running, reports, edits, byHand>>
      /\ UNCHANGED <<grant, tomb, revoked>>
  BY DEF vars, records, reports
<1>2. Held' /\ \A q \in Procs : Knows(q)' /\ Swaps(q)'
  BY <1>1, OutsideStep
<1> QED
  BY <1>1, <1>2, OnlyOp DEF Inv, TypeOK

LEMMA NextInv == ASSUME NoEditInSwap, Inv, Next PROVE Inv'
<1>1. CASE \E o \in Offers : Offer(o) \/ OfferStale(o)
  BY <1>1, OfferStep
<1>2. ASSUME NEW q \in Procs, \E i \in Intents : EnrollBegin(q, i) PROVE Inv'
  BY <1>2, EnrollBeginStep
<1>3. ASSUME NEW q \in Procs, \E p \in Pairs, by \in Keys \cup {Operator} : RevokeBegin(q, p, by)
      PROVE  Inv'
  BY <1>3, RevokeBeginStep
<1>4. ASSUME NEW q \in Procs, Step(q) PROVE Inv'
  <2>1. CASE Maintain(q) \/ Refused(q) \/ RecordGrant(q) \/ RecordTombstone(q) \/ Abort(q)
    BY <2>1, MaintainStep, RefusedStep, RecordGrantStep, RecordTombstoneStep, AbortStep
  <2>2. CASE EnrollScan(q) \/ RevokeScan(q) \/ Compare(q) \/ SwapOut(q)
    BY <2>2, EnrollScanStep, RevokeScanStep, CompareStep, SwapOutStep
  <2>3. CASE SwapIn(q) \/ SwapBack(q) \/ EnrollVerify(q) \/ RevokeVerify(q)
    BY <2>3, SwapInStep, SwapBackStep, EnrollVerifyStep, RevokeVerifyStep
  <2> QED
    BY <1>4, <2>1, <2>2, <2>3 DEF Step
<1>5. CASE RunStart \/ RunEnd
  BY <1>5, RunStep
<1>6. CASE EditOther \/ \E l \in Lines : AddByHand(l) \/ DeleteByHand(l)
  BY <1>6, EditsStep
<1>7. CASE Restore
  BY <1>7, RestoreStep
<1> QED
  BY <1>1, <1>2, <1>3, <1>4, <1>5, <1>6, <1>7 DEF Next

\* The inductive invariant of a paired host: mutual exclusion of commands, what each
\* knows of records and keys file at every step, and that the file is sound.
THEOREM Invariant == NoEditInSwap => (Spec => []Inv)
<1>1. NoEditInSwap /\ Inv /\ [Next]_vars => Inv'
  BY NextInv, StutterInv
<1>2. NoEditInSwap => (Inv /\ [Next]_vars => Inv')
  BY <1>1
<1>3. Init => Inv
  BY InitInv
<1>4. ASSUME NoEditInSwap PROVE Spec => []Inv
  <2>1. Inv /\ [Next]_vars => Inv'
    BY <1>2, <1>4
  <2> QED
    BY <1>3, <2>1, PTL DEF Spec
<1> QED
  BY <1>4

\* No command changes a grant, a tombstone or the keys file while a Run is active, or
\* while another command is at it.
THEOREM ExclusiveAccess == NoEditInSwap => (Spec => []AccessUnderMaintenance)
<1>1. Inv => AccessUnderMaintenance
  BY PairingNulls DEF Inv, Held, AccessUnderMaintenance
<1>2. ASSUME NoEditInSwap PROVE Spec => []AccessUnderMaintenance
  <2>1. Spec => []Inv
    BY <1>2, Invariant
  <2> QED
    BY <1>1, <2>1, PTL
<1> QED
  BY <1>2

\* Every file, process and ghost of the host keeps its type.
THEOREM TypeCorrect == NoEditInSwap => (Spec => []TypeOK)
<1>1. Inv => TypeOK
  BY DEF Inv
<1>2. ASSUME NoEditInSwap PROVE Spec => []TypeOK
  <2>1. Spec => []Inv
    BY <1>2, Invariant
  <2> QED
    BY <1>1, <2>1, PTL
<1> QED
  BY <1>2

\* What the host has given out is on record, for ever: a receipt names the request its
\* pair ID is bound to, and every line of the host's in the keys file has its grant.
THEOREM AlwaysOnRecord == NoEditInSwap => (Spec => []OnRecord)
<1>1. Inv => OnRecord
  BY DEF Inv, Named, Sound, Accounted, OnRecord
<1>2. ASSUME NoEditInSwap PROVE Spec => []OnRecord
  <2>1. Spec => []Inv
    BY <1>2, Invariant
  <2> QED
    BY <1>1, <2>1, PTL
<1> QED
  BY <1>2

\* A pair reported as revoked keeps no line in the keys file, however enrolments that
\* began before the revocation, crashes and retries interleave with it.
THEOREM RevokedStayGone == NoEditInSwap => (Spec => []RevokedGone)
<1>1. Inv => RevokedGone
  <2> SUFFICES ASSUME Inv, NEW p \in revoked
               PROVE  /\ grant[p] # NoIntent /\ p \in tomb
                      /\ LineOf(grant[p]) \in byHand \/ file.lines[LineOf(grant[p])] = 0
    BY DEF RevokedGone
  <2>1. p \in Pairs /\ grant[p] # NoIntent /\ p \in tomb
    BY DEF Inv, TypeOK, Named
  <2>2. grant[p] \in Intents /\ PairOf[grant[p]] = p
    BY <2>1 DEF Inv, TypeOK, Bound
  <2>3. LineOf(grant[p]) \in Lines /\ LineOf(grant[p]).pair = p
    BY <2>2, LineTyped
  <2>4. file.lines[LineOf(grant[p])] \in Nat
    BY <2>3 DEF Inv, TypeOK, Files
  <2>5. file.lines[LineOf(grant[p])] > 0 => LineOf(grant[p]) \in byHand
    BY <2>3 DEF Inv, Sound, Accounted
  <2> QED
    BY <2>1, <2>4, <2>5
<1>2. ASSUME NoEditInSwap PROVE Spec => []RevokedGone
  <2>1. Spec => []Inv
    BY <1>2, Invariant
  <2> QED
    BY <1>1, <2>1, PTL
<1> QED
  BY <1>2

\* What administrators wrote into the keys file is still there, however many commands
\* replace the file at the same time.
THEOREM EditsAreKept == NoEditInSwap => (Spec => []EditsKept)
<1>1. Inv => EditsKept
  BY DEF Inv, Shape, EditsKept
<1>2. ASSUME NoEditInSwap PROVE Spec => []EditsKept
  <2>1. Spec => []Inv
    BY <1>2, Invariant
  <2> QED
    BY <1>1, <2>1, PTL
<1> QED
  BY <1>2
-----------------------------------------------------------------------------
(* The files implement PairingAccess. *)

AccessStep == Access!Next \/ UNCHANGED Access!accessVars

\* The pairs whose line is in a keys file.
Lit(f) == {p \in Pairs : grant[p] # NoIntent /\ f.lines[LineOf(grant[p])] > 0}

LEMMA PresentIs == Present = Lit(IF file.exists THEN file ELSE bak)
BY DEF Present, Lit

LEMMA FilesSilent ==
  ASSUME UNCHANGED <<grant, tomb, file, bak, issued, revoked, edits>>
  PROVE  AccessStep
<1>1. Present' = Present
  BY DEF Present, LineOf
<1> QED
  BY <1>1 DEF AccessStep, Access!accessVars

LEMMA RecordImplements == ASSUME Inv, NEW q \in Procs, RecordGrant(q) PROVE AccessStep
<1> DEFINE i == op[q].intent
           p == PairOf[i]
<1>1. i \in Intents /\ p \in Pairs /\ Knows(q)
  BY Locked DEF RecordGrant, LockedPcs, OpPcs
<1>2. UNCHANGED <<tomb, file, bak, issued, revoked, edits>>
  BY DEF RecordGrant, reports
<1>3. CASE grant' = grant
  BY <1>2, <1>3, FilesSilent
<1>4. CASE grant' # grant
  <2>1. grant[p] \in {NoIntent, i} /\ grant' = [grant EXCEPT ![p] = i]
    BY <1>4 DEF RecordGrant
  <2>2. grant \in [Pairs -> Intents \cup {NoIntent}]
    BY DEF Inv, TypeOK
  <2>3. grant[p] = NoIntent
    BY <1>1, <1>4, <2>1, <2>2
  <2>4. \A b \in Pairs : b # p => grant'[b] = grant[b]
    BY <2>1, <2>2
  <2>5. \A b \in Pairs : b # p => (b \in Present' <=> b \in Present)
    BY <1>2, <2>4 DEF Present, LineOf
  <2>6. p \notin Present /\ Present \subseteq Pairs /\ Present' \subseteq Pairs
    BY <2>3 DEF Present
  <2>7. Present' \in {Present, Present \cup {p}}
    BY <1>1, <2>5, <2>6
  <2>8. Access!Record(i)
    BY <1>2, <2>1, <2>3, <2>7 DEF Access!Record
  <2> QED
    BY <1>1, <2>8 DEF AccessStep, Access!Next
<1> QED
  BY <1>3, <1>4

LEMMA BuryImplements == ASSUME Inv, NEW q \in Procs, RecordTombstone(q) PROVE AccessStep
<1> DEFINE p == PairOf[op[q].intent]
<1>1. p \in Pairs /\ grant[p] # NoIntent
  BY Locked, PairingNulls DEF RecordTombstone, LockedPcs, OpPcs, Knows
<1>2. UNCHANGED <<grant, file, bak, issued, revoked, edits>> /\ tomb' = tomb \cup {p}
  BY DEF RecordTombstone, reports
<1>3. Present' = Present
  BY <1>2 DEF Present, LineOf
<1>4. Access!Bury(p)
  BY <1>1, <1>2, <1>3 DEF Access!Bury
<1> QED
  BY <1>1, <1>4 DEF AccessStep, Access!Next

LEMMA SwapInImplements == ASSUME Inv, NEW q \in Procs, SwapIn(q) PROVE AccessStep
<1> DEFINE i == op[q].intent
           p == PairOf[i]
           l == LineOf(i)
<1>1. /\ op[q].pc = "swapin" /\ i \in Intents /\ p \in Pairs /\ l \in Lines
      /\ op[q].kind \in {"enroll", "revoke"} /\ Knows(q) /\ Swaps(q)
  BY Locked DEF SwapIn, LockedPcs, OpPcs
<1>2. /\ UNCHANGED <<grant, tomb, issued, revoked, edits>>
      /\ ~file.exists /\ file' = Contents(q) /\ bak' = NoFile
  BY DEF SwapIn, records, reports
<1>3. bak = op[q].seen /\ bak \in Files /\ grant[p] = i /\ i # NoIntent
  BY <1>1, PairingNulls DEF Swaps, Knows, Later, Inv, TypeOK
<1>4. bak.lines \in [Lines -> Nat]
  BY <1>3 DEF Files
<1>5. ~bak'.exists
  BY <1>2 DEF NoFile
<1>6. \A b \in Pairs : b # p /\ grant[b] # NoIntent => LineOf(grant[b]) \in Lines /\ LineOf(grant[b]) # l
  <2> SUFFICES ASSUME NEW b \in Pairs, b # p, grant[b] # NoIntent
               PROVE  LineOf(grant[b]) \in Lines /\ LineOf(grant[b]) # l
    OBVIOUS
  <2>1. grant[b] \in Intents /\ PairOf[grant[b]] = b
    BY DEF Inv, TypeOK, Bound
  <2>2. LineOf(grant[b]) \in Lines /\ LineOf(grant[b]).pair = b /\ l.pair = p
    BY <1>1, <2>1, LineTyped
  <2> QED
    BY <2>2
<1>7. Present = Lit(bak)
  BY <1>2, PresentIs
<1>8. CASE op[q].kind = "enroll"
  <2>1. p \notin tomb
    BY <1>1, <1>8 DEF Knows, Later
  <2>2. file' = [bak EXCEPT !.exists = TRUE, !.lines[l] = bak.lines[l] + 1]
    BY <1>2, <1>3, <1>8 DEF Contents, Appended
  <2>3. file'.exists /\ file'.lines = [bak.lines EXCEPT ![l] = bak.lines[l] + 1]
    BY <1>3, <2>2 DEF Files
  <2>4. file'.lines[l] > 0 /\ \A m \in Lines : m # l => file'.lines[m] = bak.lines[m]
    BY <1>1, <1>4, <2>3
  <2>5. Present' = Lit(file)'
    BY <2>3 DEF Present, Lit
  <2>6. Lit(file)' = Lit(bak) \cup {p}
    BY <1>1, <1>2, <1>3, <1>6, <2>4 DEF Lit
  <2>7. Access!Admit(p)
    BY <1>2, <1>3, <1>5, <1>7, <2>1, <2>5, <2>6 DEF Access!Admit
  <2> QED
    BY <1>1, <2>7 DEF AccessStep, Access!Next
<1>9. CASE op[q].kind = "revoke"
  <2>1. p \in tomb /\ bak.lines[l] = 1
    BY <1>1, <1>3, <1>9 DEF Knows, Later, Swaps
  <2>2. file' = [bak EXCEPT !.lines[l] = bak.lines[l] - 1]
    BY <1>2, <1>3, <1>9 DEF Contents, Removed
  <2>3. file'.lines = [bak.lines EXCEPT ![l] = bak.lines[l] - 1] /\ file'.exists = bak.exists
    BY <1>3, <2>2 DEF Files
  <2>4. file'.lines[l] = 0 /\ \A m \in Lines : m # l => file'.lines[m] = bak.lines[m]
    BY <1>1, <1>4, <2>1, <2>3
  <2>5. file'.exists
    BY <2>1, <2>3, NoLines, <1>1 DEF Inv, Shape
  <2>6. Present' = Lit(file)'
    BY <2>5 DEF Present, Lit
  <2>7. Lit(file)' = Lit(bak) \ {p}
    BY <1>1, <1>2, <1>3, <1>6, <2>4 DEF Lit
  <2>8. Access!Remove(p)
    BY <1>2, <1>5, <1>7, <2>1, <2>6, <2>7 DEF Access!Remove
  <2> QED
    BY <1>1, <2>8 DEF AccessStep, Access!Next
<1> QED
  BY <1>1, <1>8, <1>9

\* The file moves to its backup, or back.
LEMMA MoveImplements ==
  ASSUME Inv, UNCHANGED <<grant, tomb, issued, revoked, edits>>,
         \/ file.exists /\ bak' = file /\ file' = NoFile
         \/ bak.exists /\ ~file.exists /\ file' = bak /\ bak' = NoFile
  PROVE  AccessStep
<1>1. ~NoFile.exists /\ (bak'.exists <=> ~bak.exists)
  BY DEF NoFile, Inv, Shape
<1>2. (IF file'.exists THEN file' ELSE bak') = (IF file.exists THEN file ELSE bak)
  BY <1>1
<1>3. Present' = Present
  BY <1>2 DEF Present, LineOf
<1>4. bak.exists \in BOOLEAN /\ bak'.exists \in BOOLEAN
  BY NoFileTyped DEF Inv, TypeOK, Files
<1>5. bak'.exists = ~bak.exists
  BY <1>1, <1>4
<1>6. Access!Strand
  BY <1>3, <1>5 DEF Access!Strand
<1> QED
  BY <1>6 DEF AccessStep, Access!Next

LEMMA IssueImplements == ASSUME Inv, NEW q \in Procs, EnrollVerify(q) PROVE AccessStep
<1> DEFINE i == op[q].intent
           p == PairOf[i]
<1>1. /\ i \in Intents /\ p \in Pairs /\ LineOf(i) \in Lines /\ Knows(q)
      /\ op[q].pc = "verify" /\ op[q].kind = "enroll"
  BY Locked DEF EnrollVerify, LockedPcs, OpPcs
<1>2. /\ UNCHANGED <<grant, tomb, file, bak, revoked, edits>>
      /\ issued' = issued \cup {i} /\ file.lines[LineOf(i)] = 1
  BY DEF EnrollVerify, records, Exact
<1>3. grant[p] = i /\ p \notin tomb /\ i # NoIntent
  BY <1>1, PairingNulls DEF Knows, Later
<1>4. file.exists /\ ~bak.exists
  BY <1>1, <1>2, NoLines DEF Inv, Shape
<1>5. p \in Present
  BY <1>1, <1>2, <1>3, <1>4 DEF Present
<1>6. Present' = Present
  BY <1>2 DEF Present, LineOf
<1>7. Access!Issue(i)
  BY <1>2, <1>3, <1>4, <1>5, <1>6 DEF Access!Issue
<1> QED
  BY <1>1, <1>7 DEF AccessStep, Access!Next

LEMMA ReportImplements == ASSUME Inv, NEW q \in Procs, RevokeVerify(q) PROVE AccessStep
<1> DEFINE i == op[q].intent
           p == PairOf[i]
<1>1. /\ i \in Intents /\ p \in Pairs /\ LineOf(i) \in Lines /\ Knows(q)
      /\ op[q].pc = "verify" /\ op[q].kind = "revoke"
  BY Locked DEF RevokeVerify, LockedPcs, OpPcs
<1>2. /\ UNCHANGED <<grant, tomb, file, bak, issued, edits>>
      /\ revoked' = revoked \cup {p} /\ file.lines[LineOf(i)] = 0
  BY DEF RevokeVerify, records, Exact
<1>3. grant[p] = i /\ p \in tomb
  BY <1>1 DEF Knows, Later
<1>4. ~bak.exists => bak.lines[LineOf(i)] = 0
  BY <1>1, NoLines DEF Inv, Shape
<1>5. p \notin Present \/ bak.exists
  BY <1>2, <1>3, <1>4 DEF Present
<1>6. Present' = Present
  BY <1>2 DEF Present, LineOf
<1>7. Access!Report(p)
  BY <1>2, <1>3, <1>5, <1>6 DEF Access!Report
<1> QED
  BY <1>1, <1>7 DEF AccessStep, Access!Next

LEMMA EditImplements ==
  ASSUME NEW lines, NEW hand, HandEdit(lines, hand) PROVE AccessStep
<1>1. UNCHANGED <<grant, tomb, bak, issued, revoked>> /\ edits' = edits + 1
  BY DEF HandEdit, records, reports
<1>2. Present' \in SUBSET {p \in Pairs : grant[p] # NoIntent}
  BY <1>1 DEF Present
<1>3. Access!EditByHand
  BY <1>1, <1>2 DEF Access!EditByHand
<1> QED
  BY <1>3 DEF AccessStep, Access!Next

LEMMA NextImplements == ASSUME Inv, Next PROVE AccessStep
<1>1. CASE \E o \in Offers : Offer(o) \/ OfferStale(o)
  BY <1>1, FilesSilent DEF Offer, OfferStale
<1>2. ASSUME NEW q \in Procs, \E i \in Intents : EnrollBegin(q, i) PROVE AccessStep
  BY <1>2, FilesSilent DEF EnrollBegin, records, reports
<1>3. ASSUME NEW q \in Procs, \E p \in Pairs, by \in Keys \cup {Operator} : RevokeBegin(q, p, by)
      PROVE  AccessStep
  BY <1>3, FilesSilent DEF RevokeBegin, records, reports
<1>4. ASSUME NEW q \in Procs, Step(q) PROVE AccessStep
  <2>1. CASE Maintain(q) \/ Refused(q) \/ Abort(q) \/ Compare(q)
    BY <2>1, FilesSilent DEF Maintain, Refused, Abort, Compare, records, reports
  <2>2. CASE EnrollScan(q) \/ RevokeScan(q)
    BY <2>2, FilesSilent DEF EnrollScan, RevokeScan, Scanned, records, reports
  <2>3. CASE RecordGrant(q) \/ RecordTombstone(q)
    BY <2>3, RecordImplements, BuryImplements
  <2>4. CASE SwapOut(q) \/ SwapBack(q)
    BY <2>4, MoveImplements DEF SwapOut, SwapBack, records, reports
  <2>5. CASE SwapIn(q) \/ EnrollVerify(q) \/ RevokeVerify(q)
    BY <2>5, SwapInImplements, IssueImplements, ReportImplements
  <2> QED
    BY <1>4, <2>1, <2>2, <2>3, <2>4, <2>5 DEF Step
<1>5. CASE RunStart \/ RunEnd
  BY <1>5, FilesSilent DEF RunStart, RunEnd, records, reports
<1>6. CASE EditOther \/ \E l \in Lines : AddByHand(l) \/ DeleteByHand(l)
  BY <1>6, EditImplements DEF EditOther, AddByHand, DeleteByHand
<1>7. CASE Restore
  BY <1>7, MoveImplements DEF Restore, records, reports
<1> QED
  BY <1>1, <1>2, <1>3, <1>4, <1>5, <1>6, <1>7 DEF Next

\* The create-only records and the keys file, with its replacement in three steps, keep
\* what PairingAccess promises of them: every step is one of its steps, or none.
THEOREM FilesImplementAccess == NoEditInSwap => (Spec => ImplementsAccess)
<1>1. Init => Access!Init
  <2> SUFFICES ASSUME Init PROVE Access!Init
    OBVIOUS
  <2>1. ~bak.exists /\ Present = {} /\ bak.exists = FALSE
    BY DEF Init, NoFile, Present
  <2> QED
    BY <2>1 DEF Init, Access!Init
<1>2. Inv /\ [Next]_vars => [Access!Next]_Access!accessVars
  <2>1. ASSUME UNCHANGED vars PROVE AccessStep
    BY <2>1, FilesSilent DEF vars
  <2> QED
    BY <2>1, NextImplements DEF AccessStep
<1>3. ASSUME NoEditInSwap PROVE Spec => Access!Spec
  <2>1. Spec => []Inv
    BY <1>3, Invariant
  <2> QED
    BY <1>1, <1>2, <2>1, PTL DEF Spec, Access!Spec
<1> QED
  BY <1>3 DEF ImplementsAccess
=============================================================================
