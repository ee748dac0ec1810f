----------------------------- MODULE PairingHost -----------------------------
(***************************************************************************)
(* The host side of pairing (src/internal/pairing/host.go and keys.go over *)
(* windowsinstall/pairing.go and pairing_windows.go): offers, grants and   *)
(* tombstones, which are create-only files, and the authorized keys file   *)
(* that sshd reads, which is shared with the host's administrators.        *)
(*                                                                         *)
(* Enroll and Revoke run as separate processes (Procs).  Each reads its    *)
(* grant before it takes the maintenance lock, and changes files only      *)
(* while it holds it; it may die, or a step of it may fail, anywhere, and  *)
(* any command may be repeated any number of times.  The keys file is      *)
(* replaced in three steps: compare, move the old file to a backup, move   *)
(* the new one into place.                                                 *)
(***************************************************************************)
EXTENDS Naturals, FiniteSets

CONSTANTS
  Pairs,       \* pair IDs
  Keys,        \* client public keys
  Offers,      \* host offers, named by their digest
  Intents,     \* trusted enrolment requests, named by their digest
  PairOf, KeyOf, OfferOf,   \* what a request binds together
  Procs,       \* host processes that may run at the same time
  NoIntent, NoProc, NoPair, Operator,
  EditInSwap,  \* the keys file may be edited between the compare and the swap
  MaxEdits     \* bound on the edits of the keys file by hand

ASSUME RequestsAssumption ==
  /\ PairOf \in [Intents -> Pairs] /\ KeyOf \in [Intents -> Keys]
  /\ OfferOf \in [Intents -> Offers]
ASSUME PairingNulls ==
  /\ NoIntent \notin Intents /\ NoProc \notin Procs /\ NoPair \notin Pairs
  /\ Operator \notin Keys
ASSUME BoundsAssumption == EditInSwap \in BOOLEAN /\ MaxEdits \in Nat

VARIABLES
  offer,    \* pairings/offers/<sha>.json, and whether it would still be accepted
  grant,    \* pairings/grants/<pair>.json
  tomb,     \* pairings/tombstones/<pair>.json
  file,     \* the authorized keys file
  bak,      \* the backup an interrupted replacement leaves beside it
  op,       \* the command each process runs
  maint,    \* the process that holds the maintenance lock
  running,  \* a Run is active or unresolved on the host
  issued,   \* requests whose receipt the operator has been given
  revoked,  \* pairs some Revoke has reported as revoked
  edits,    \* how often the keys file was edited by hand
  byHand    \* lines that somebody other than the host put into the keys file

records == <<offer, grant, tomb>>
reports == <<issued, revoked>>
vars == <<offer, grant, tomb, file, bak, op, maint, running, issued, revoked,
          edits, byHand>>

-----------------------------------------------------------------------------
(* The keys file *)

\* A key with a pairing marker, or with none.
Lines == [pair : Pairs \cup {NoPair}, key : Keys]
LineOf(i) == [pair |-> PairOf[i], key |-> KeyOf[i]]

\* The file: how often each of those lines occurs, and which edit by hand the
\* other lines come from.
Files == [exists : BOOLEAN, lines : [Lines -> Nat], other : Nat]
NoFile == [exists |-> FALSE, lines |-> [l \in Lines |-> 0], other |-> 0]
EmptyFile == [NoFile EXCEPT !.exists = TRUE]

\* scanKeys
Exact(f, l) == f.lines[l]
ForeignKey(f, l) == \E m \in Lines : m # l /\ m.key = l.key /\ f.lines[m] > 0
ForeignMarker(f, l) == \E m \in Lines : m # l /\ m.pair = l.pair /\ f.lines[m] > 0

\* appendLine and removeLine
Appended(f, l) == [f EXCEPT !.exists = TRUE, !.lines[l] = @ + 1]
Removed(f, l) == [f EXCEPT !.lines[l] = @ - 1]

\* sshd accepts a key that some line of the keys file names.
Authenticates(k) == \E l \in Lines : l.key = k /\ file.lines[l] > 0

-----------------------------------------------------------------------------
(* State *)

OpPcs == {"idle", "maintain", "record", "scan", "compare", "swapout",
          "swapin", "verify"}
\* The steps a process takes under the maintenance lock.
LockedPcs == OpPcs \ {"idle", "maintain"}

Ops == [pc : OpPcs, kind : {"none", "enroll", "revoke"},
        intent : Intents \cup {NoIntent}, exists : BOOLEAN, seen : Files]
Idle == [pc |-> "idle", kind |-> "none", intent |-> NoIntent, exists |-> FALSE,
         seen |-> NoFile]

\* The type of every variable.
TypeOK ==
  /\ offer \in [Offers -> {"none", "live", "stale"}]
  /\ grant \in [Pairs -> Intents \cup {NoIntent}]
  /\ tomb \subseteq Pairs
  /\ file \in Files /\ bak \in Files
  /\ op \in [Procs -> Ops]
  /\ maint \in Procs \cup {NoProc}
  /\ running \in BOOLEAN
  /\ issued \subseteq Intents /\ revoked \subseteq Pairs
  /\ edits \in Nat /\ byHand \subseteq Lines

Init ==
  /\ offer = [o \in Offers |-> "none"]
  /\ grant = [p \in Pairs |-> NoIntent]
  /\ tomb = {}
  /\ file \in {NoFile, EmptyFile} /\ bak = NoFile
  /\ op = [q \in Procs |-> Idle]
  /\ maint = NoProc /\ running = FALSE
  /\ issued = {} /\ revoked = {}
  /\ edits = 0 /\ byHand = {}

-----------------------------------------------------------------------------
(* Offers *)

Offer(o) ==
  /\ offer[o] = "none"
  /\ offer' = [offer EXCEPT ![o] = "live"]
  /\ UNCHANGED <<grant, tomb, file, bak, op, maint, running, issued, revoked, edits, byHand>>

\* It expires, or the host's identity drifts from what it says.
OfferStale(o) ==
  /\ offer[o] = "live"
  /\ offer' = [offer EXCEPT ![o] = "stale"]
  /\ UNCHANGED <<grant, tomb, file, bak, op, maint, running, issued, revoked, edits, byHand>>

-----------------------------------------------------------------------------
(* Commands *)

\* What was read is kept no longer than it counts.
Goto(q, pc) ==
  op' = [op EXCEPT ![q] = [op[q] EXCEPT
           !.pc = pc, !.exists = op[q].exists /\ pc = "record",
           !.seen = IF pc = "verify" THEN NoFile ELSE op[q].seen]]
Leave(q) == op' = [op EXCEPT ![q] = Idle] /\ maint' = NoProc

\* The unlocked reads of Enroll: the grant, and the tombstone of a known pair;
\* a pair without a grant needs an offer that this host would still honour.
EnrollBegin(q, i) ==
  LET p == PairOf[i]
      known == grant[p] # NoIntent
  IN  /\ op[q].pc = "idle"
      /\ IF known THEN grant[p] = i /\ p \notin tomb ELSE offer[OfferOf[i]] = "live"
      /\ op' = [op EXCEPT ![q] = [Idle EXCEPT !.pc = "maintain", !.kind = "enroll",
                                              !.intent = i, !.exists = known]]
      /\ UNCHANGED <<records, file, bak, maint, running, reports, edits, byHand>>

\* A client that asks over SSH has logged in with a key of its own, and may
\* revoke only the pair which that key owns.
RevokeBegin(q, p, by) ==
  LET i == grant[p]
  IN  /\ op[q].pc = "idle" /\ i # NoIntent
      /\ by = Operator \/ (Authenticates(by) /\ by = KeyOf[i])
      /\ op' = [op EXCEPT ![q] = [Idle EXCEPT !.pc = "maintain", !.kind = "revoke",
                                              !.intent = i, !.exists = TRUE]]
      /\ UNCHANGED <<records, file, bak, maint, running, reports, edits, byHand>>

\* WithMaintenance: the operation lock, and no Run active or unresolved.
Maintain(q) ==
  /\ op[q].pc = "maintain" /\ maint = NoProc /\ ~running
  /\ maint' = q
  /\ Goto(q, "record")
  /\ UNCHANGED <<records, file, bak, running, reports, edits, byHand>>

\* The lock is not free in time, or InspectSetupMaintenance refuses.
Refused(q) ==
  /\ op[q].pc = "maintain"
  /\ op' = [op EXCEPT ![q] = Idle]
  /\ UNCHANGED <<records, file, bak, maint, running, reports, edits, byHand>>

\* Mutant: the grant on record is not read back after the publication.
KeepOwnGrant(q) ==
  LET i == op[q].intent
      p == PairOf[i]
  IN  /\ op[q].pc = "record" /\ op[q].kind = "enroll"
      /\ grant' = [grant EXCEPT ![p] = IF grant[p] = NoIntent THEN i ELSE grant[p]]
      /\ Goto(q, "scan")
      /\ UNCHANGED <<offer, tomb, file, bak, maint, running, reports, edits, byHand>>

\* The grant is published create-only, and read back: the pair ID may have been
\* bound to a different request since the unlocked read.
RecordGrant(q) ==
  LET i == op[q].intent
      p == PairOf[i]
  IN  /\ op[q].pc = "record" /\ op[q].kind = "enroll"
      /\ op[q].exists \/ grant[p] \in {NoIntent, i}
      /\ grant' = IF op[q].exists THEN grant
                                  ELSE [grant EXCEPT ![p] = i]
      /\ Goto(q, "scan")
      /\ UNCHANGED <<offer, tomb, file, bak, maint, running, reports, edits, byHand>>

\* Mutant: the line is removed before anything says so.
RevokeUnrecorded(q) ==
  /\ op[q].pc = "record" /\ op[q].kind = "revoke"
  /\ tomb' = tomb
  /\ Goto(q, "scan")
  /\ UNCHANGED <<offer, grant, file, bak, maint, running, reports, edits, byHand>>

\* The tombstone comes first.
RecordTombstone(q) ==
  /\ op[q].pc = "record" /\ op[q].kind = "revoke"
  /\ tomb' = tomb \cup {PairOf[op[q].intent]}
  /\ Goto(q, "scan")
  /\ UNCHANGED <<offer, grant, file, bak, maint, running, reports, edits, byHand>>

Scanned(q, pc) ==
  /\ op' = [op EXCEPT ![q] = [op[q] EXCEPT
                             !.pc = pc, !.seen = IF pc = "verify" THEN NoFile ELSE file]]
  /\ UNCHANGED <<records, file, bak, maint, running, reports, edits, byHand>>

\* Mutant: the tombstone is not looked for again under the lock.
EnrollScanOnly(q) ==
  LET l == LineOf(op[q].intent)
  IN  /\ op[q].pc = "scan" /\ op[q].kind = "enroll"
      /\ ~ForeignKey(file, l) /\ ~ForeignMarker(file, l) /\ Exact(file, l) <= 1
      /\ Scanned(q, IF Exact(file, l) = 0 THEN "compare" ELSE "verify")

\* The tombstone again, now under the lock; then the line and its rivals.
EnrollScan(q) ==
  LET l == LineOf(op[q].intent)
  IN  /\ op[q].pc = "scan" /\ op[q].kind = "enroll"
      /\ PairOf[op[q].intent] \notin tomb
      /\ ~ForeignKey(file, l) /\ ~ForeignMarker(file, l) /\ Exact(file, l) <= 1
      /\ Scanned(q, IF Exact(file, l) = 0 THEN "compare" ELSE "verify")

\* Mutant: a line that is gone is removed once more.
RevokeScanAgain(q) ==
  /\ op[q].pc = "scan" /\ op[q].kind = "revoke"
  /\ Exact(file, LineOf(op[q].intent)) <= 1
  /\ Scanned(q, "compare")

RevokeScan(q) ==
  LET l == LineOf(op[q].intent)
  IN  /\ op[q].pc = "scan" /\ op[q].kind = "revoke"
      /\ Exact(file, l) <= 1
      /\ Scanned(q, IF Exact(file, l) = 1 THEN "compare" ELSE "verify")

\* What this process writes: its own line added or removed, all else as it was read.
Contents(q) ==
  LET l == LineOf(op[q].intent)
  IN  IF op[q].kind = "enroll" THEN Appended(op[q].seen, l) ELSE Removed(op[q].seen, l)

\* Mutant: the file is replaced without a look at it.
CompareNothing(q) ==
  /\ op[q].pc = "compare"
  /\ IF file.exists THEN Goto(q, "swapout") ELSE ~bak.exists /\ Goto(q, "swapin")
  /\ UNCHANGED <<records, file, bak, maint, running, reports, edits, byHand>>

\* The file is still what was read; a missing file is created only if no
\* interrupted replacement has left a backup of it.
Compare(q) ==
  /\ op[q].pc = "compare" /\ file = op[q].seen
  /\ IF file.exists THEN Goto(q, "swapout") ELSE ~bak.exists /\ Goto(q, "swapin")
  /\ UNCHANGED <<records, file, bak, maint, running, reports, edits, byHand>>

SwapOut(q) ==
  /\ op[q].pc = "swapout" /\ file.exists
  /\ bak' = file /\ file' = NoFile
  /\ Goto(q, "swapin")
  /\ UNCHANGED <<records, maint, running, reports, edits, byHand>>

SwapIn(q) ==
  /\ op[q].pc = "swapin" /\ ~file.exists
  /\ file' = Contents(q) /\ bak' = NoFile
  /\ byHand' = {l \in byHand : file'.lines[l] > 0}
  /\ Goto(q, "verify")
  /\ UNCHANGED <<records, maint, running, reports, edits>>

\* The new file cannot be moved into place: the old one is moved back.
SwapBack(q) ==
  /\ op[q].pc = "swapin" /\ bak.exists /\ ~file.exists
  /\ file' = bak /\ bak' = NoFile
  /\ Leave(q)
  /\ UNCHANGED <<records, running, reports, edits, byHand>>

\* The file is read once more, and the receipt of the grant handed out.
EnrollVerify(q) ==
  /\ op[q].pc = "verify" /\ op[q].kind = "enroll"
  /\ Exact(file, LineOf(op[q].intent)) = 1
  /\ issued' = issued \cup {op[q].intent}
  /\ Leave(q)
  /\ UNCHANGED <<records, file, bak, running, revoked, edits, byHand>>

RevokeVerify(q) ==
  LET l == LineOf(op[q].intent)
  IN  /\ op[q].pc = "verify" /\ op[q].kind = "revoke"
      /\ Exact(file, l) = 0 /\ ~ForeignKey(file, l) /\ ~ForeignMarker(file, l)
      /\ revoked' = revoked \cup {PairOf[op[q].intent]}
      /\ Leave(q)
      /\ UNCHANGED <<records, file, bak, running, issued, edits, byHand>>

\* The process dies, or a check or a step of it fails, and its lock is free.
Abort(q) ==
  /\ op[q].pc \in LockedPcs
  /\ Leave(q)
  /\ UNCHANGED <<records, file, bak, running, reports, edits, byHand>>

-----------------------------------------------------------------------------
(* Everybody else *)

\* A Run is claimed under the same lock, and settled in its own time.
RunStart ==
  /\ ~running /\ maint = NoProc
  /\ running' = TRUE
  /\ UNCHANGED <<records, file, bak, op, maint, reports, edits, byHand>>

RunEnd ==
  /\ running /\ running' = FALSE
  /\ UNCHANGED <<records, file, bak, op, maint, reports, edits, byHand>>

Swapping == \E q \in Procs : op[q].pc \in {"swapout", "swapin"}

HandEdit(lines, hand) ==
  /\ file.exists /\ edits < MaxEdits
  /\ EditInSwap \/ ~Swapping
  /\ edits' = edits + 1
  /\ file' = [file EXCEPT !.lines = lines, !.other = edits + 1]
  /\ byHand' = hand
  /\ UNCHANGED <<records, bak, op, maint, running, reports>>

\* An administrator edits lines that have nothing to do with pairing, copies a
\* key into the file, or deletes a line.
EditOther == HandEdit(file.lines, byHand)
AddByHand(l) == HandEdit([file.lines EXCEPT ![l] = @ + 1], byHand \cup {l})
DeleteByHand(l) ==
  file.lines[l] > 0 /\ HandEdit([file.lines EXCEPT ![l] = 0], byHand \ {l})

\* The backup is put back by hand, as the refusal of a later replacement asks.
Restore ==
  /\ bak.exists /\ ~file.exists /\ ~Swapping
  /\ file' = bak /\ bak' = NoFile
  /\ byHand' = byHand \cup {l \in Lines : bak.lines[l] > 0}
  /\ UNCHANGED <<records, op, maint, running, reports, edits>>

-----------------------------------------------------------------------------

Step(q) ==
  \/ Maintain(q) \/ Refused(q)
  \/ RecordGrant(q) \/ RecordTombstone(q) \/ EnrollScan(q) \/ RevokeScan(q)
  \/ Compare(q) \/ SwapOut(q) \/ SwapIn(q) \/ SwapBack(q)
  \/ EnrollVerify(q) \/ RevokeVerify(q) \/ Abort(q)

Next ==
  \/ \E o \in Offers : Offer(o) \/ OfferStale(o)
  \/ \E q \in Procs :
       \/ \E i \in Intents : EnrollBegin(q, i)
       \/ \E p \in Pairs, by \in Keys \cup {Operator} : RevokeBegin(q, p, by)
       \/ Step(q)
  \/ RunStart \/ RunEnd
  \/ EditOther \/ Restore
  \/ \E l \in Lines : AddByHand(l) \/ DeleteByHand(l)

Spec == Init /\ [][Next]_vars

-----------------------------------------------------------------------------
(* Properties *)

\* A pair reported as revoked has no line in the keys file, unless one was put
\* there by hand: an enrolment that read its grant before the revocation, or an
\* interrupted one that is repeated after it, cannot bring the key back.
RevokedGone ==
  \A p \in revoked :
    LET l == LineOf(grant[p])
    IN  /\ grant[p] # NoIntent /\ p \in tomb
        /\ l \in byHand \/ file.lines[l] = 0

\* What the host has given out is on record.  A receipt names the request its pair ID
\* is bound to, for ever: two requests for one pair ID, both read before either was
\* recorded, never both get one.  And no pairing line is in the keys file without the
\* grant that accounts for it, so that revoke can always find the line and its owner.
OnRecord ==
  /\ \A i \in issued : grant[PairOf[i]] = i
  /\ \A l \in Lines \ byHand : file.lines[l] > 0 =>
       l.pair \in Pairs /\ grant[l.pair] # NoIntent /\ LineOf(grant[l.pair]) = l

\* What an administrator wrote into the keys file is never written over.
EditsKept == file.exists => file.other = edits

\* Access changes only while no Run is active or unresolved, and one command
\* at a time.
AccessUnderMaintenance ==
  \A q \in Procs : op[q].pc \in LockedPcs => maint = q /\ ~running

\* The files implement what a host promises about access.
Present ==
  LET f == IF file.exists THEN file ELSE bak
  IN  {p \in Pairs : grant[p] # NoIntent /\ f.lines[LineOf(grant[p])] > 0}
Access == INSTANCE PairingAccess WITH
  present <- Present,
  stranded <- bak.exists
ImplementsAccess == Access!Spec

=============================================================================
