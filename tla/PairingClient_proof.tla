-------------------------- MODULE PairingClient_proof --------------------------
(* Proofs about PairingClient, for any names, processes and offers, any crashes *)
(* and losses of power, and any behaviour of the host, as long as no command    *)
(* overlaps a revoke or a forget (NoOverlap).                                   *)
(*                                                                              *)
(* The argument: a file that is there is never replaced (Link), so what a       *)
(* command has read stays so until a removal, and a removal is alone; what a    *)
(* command has read it has also made durable, so that a loss of power cannot    *)
(* take it from under a file published on the strength of it.                   *)
EXTENDS PairingClient, TLAPS

NoOverlap == Overlap = FALSE

Alone == \A c, d \in Procs : Removing(c) /\ d # c => op[d].pc = "idle"

\* A request is published on a reservation and a seed that are durable.
Backed == mem.intent # None =>
  /\ mem.prep = ReservationOf(mem.intent) /\ mem.seed = mem.intent.key
  /\ "prep" \notin dirty /\ "seed" \notin dirty

\* What is on file of the host is what the host has said.
Confirmed ==
  /\ mem.receipt # None => mem.receipt \in issued
  /\ mem.target \in Intents =>
    /\ mem.receipt = mem.target /\ "receipt" \notin dirty
    /\ mem.target.key \in creds /\ mem.target.key \notin dirty
  /\ mem.record # None /\ mem.record[2] = "revoked" => mem.record[1] \in revoked
  /\ \A p \in Pairs : told = <<p, "revoke", "revoked">> => p \in revoked

\* What a command has read, and made durable, is still so.
Preparing(c) ==
  LET at(pcs) == op[c].pc \in pcs
  IN  /\ at({"reserved", "seed", "seedread", "keyed", "intentread"}) =>
           mem.prep = op[c].res /\ "prep" \notin dirty
      /\ at({"seed", "seedread"}) => op[c].intent \in {None, mem.intent}
      /\ at({"keyed", "intentread", "credential", "credread"}) =>
           mem.seed = op[c].key /\ "seed" \notin dirty
      /\ at({"credential", "credread"}) =>
           mem.intent = op[c].intent /\ op[c].intent.key = op[c].key /\ "intent" \notin dirty

Completing(c) ==
  LET at(pcs) == op[c].pc \in pcs
  IN  /\ at(CompletePcs) =>
           /\ mem.intent = op[c].receipt /\ op[c].receipt \in issued
           /\ op[c].receipt.key \in creds /\ op[c].receipt.key \notin dirty
      /\ at({"acceptsync", "save", "savesync"}) => mem.receipt = op[c].receipt
      /\ at({"save", "savesync"}) => "receipt" \notin dirty

Revoking(c) ==
  LET at(pcs) == op[c].pc \in pcs
  IN  /\ at(RevokePcs) => /\ op[c].asked /\ mem.intent = op[c].intent /\ op[c].intent # None
                          /\ op[c].pair = mem.intent.pair /\ op[c].receipt = mem.intent
      /\ at(RevokePcs \cup ForgetPcs) =>
           (op[c].asked /\ op[c].verdict = "revoked" => op[c].pair \in revoked)

Forgetting(c) ==
  LET at(pcs) == op[c].pc \in pcs
  IN  /\ at(RevokePcs \cup {"target"}) => op[c].receipt \in {None, mem.receipt}
      /\ at({"target"}) => (op[c].receipt = None => mem.target \notin Intents)
      /\ at(ForgetPcs) => \A i \in exported : i.pair \in dropped
      /\ at(ForgetPcs \ {"target"}) => mem.target \notin Intents
      /\ at({"target", "receipt", "cred"}) => mem.intent = op[c].intent
      /\ at({"intent", "prep", "unseed", "record"}) => creds = {}
      /\ at({"prep", "unseed", "record"}) => mem.intent = None

Knows(c) == Preparing(c) /\ Completing(c) /\ Revoking(c) /\ Forgetting(c)

Facts == Backed /\ Confirmed /\ RequestKept /\ KeysNamed

Typed == TypeOK /\ issued \subseteq Intents

Inv == Typed /\ Alone /\ Facts /\ \A c \in Procs : Knows(c)

-----------------------------------------------------------------------------
(* The effects of the helpers. *)

LEMMA IdleTyped == Idle \in Ops /\ Idle.pc = "idle"
BY DEF Idle, Ops, Pcs, Verdicts

LEMMA GotoEffect ==
  ASSUME op \in [Procs -> Ops], NEW c \in Procs, NEW pc \in Pcs, Goto(c, pc)
  PROVE  /\ op' \in [Procs -> Ops] /\ \A d \in Procs : d # c => op'[d] = op[d]
         /\ op'[c].pc = pc
         /\ op'[c].offer = op[c].offer /\ op'[c].res = op[c].res
         /\ op'[c].intent = op[c].intent /\ op'[c].key = op[c].key
         /\ op'[c].receipt = op[c].receipt /\ op'[c].pair = op[c].pair
         /\ op'[c].verdict = op[c].verdict /\ op'[c].asked = op[c].asked
<1> DEFINE n == [op[c] EXCEPT !.pc = pc]
<1>1. op' = [op EXCEPT ![c] = n]
  BY DEF Goto
<1>2. /\ n \in Ops /\ n.pc = pc /\ n.offer = op[c].offer /\ n.res = op[c].res
      /\ n.intent = op[c].intent /\ n.key = op[c].key /\ n.receipt = op[c].receipt
      /\ n.pair = op[c].pair /\ n.verdict = op[c].verdict /\ n.asked = op[c].asked
  BY DEF Ops
<1> HIDE DEF n
<1> QED
  BY <1>1, <1>2

LEMMA ReturnEffect ==
  ASSUME op \in [Procs -> Ops], NEW c \in Procs, Return(c)
  PROVE  /\ op' \in [Procs -> Ops] /\ \A d \in Procs : d # c => op'[d] = op[d]
         /\ op'[c].pc = "idle"
BY IdleTyped DEF Return

LEMMA SetEffect ==
  ASSUME op \in [Procs -> Ops], NEW c \in Procs, NEW n \in Ops, op' = [op EXCEPT ![c] = n]
  PROVE  /\ op' \in [Procs -> Ops] /\ \A d \in Procs : d # c => op'[d] = op[d]
         /\ op'[c] = n
OBVIOUS

\* The null value is no request, reservation, key or pair.
LEMMA Nulls ==
  /\ \A i \in Intents : /\ i # None /\ i # OtherTarget
                        /\ i.pair \in Pairs /\ i.key \in Keys /\ i.offer \in Offers
                        /\ ReservationOf(i) \in Reservations
                        /\ i.pair # None /\ i.key # None
  /\ \A r \in Reservations : r # None /\ r.pair \in Pairs /\ r.offer \in Offers
  /\ \A k \in Keys : k # None /\ k \notin Files
  /\ \A p \in Pairs : p # None
BY ClientNulls, IntentNulls, CredentialNames DEF Intents, Reservations, ReservationOf

LEMMA DurableEffect ==
  ASSUME dirty \subseteq Files \cup Keys, NEW fs \in SUBSET Files, Durable(fs)
  PROVE  /\ dirty' \subseteq dirty /\ \A f \in fs : f \notin dirty'
         /\ fs \cap PairDir # {} => dirty' \cap PairDir = {}
BY DEF Durable, DirOf, PairDir

\* The effect of publishing: a file that is there stays.
LEMMA LinkEffect ==
  ASSUME mem \in Mem, dirty \subseteq Files \cup Keys,
         NEW f \in Files, NEW value, value # None, Link(f, value)
  PROVE  /\ mem[f] # None => UNCHANGED <<mem, dirty>>
         /\ mem[f] = None => mem'[f] = value /\ dirty' = dirty \cup {f}
         /\ \A g \in Files : g # f => mem'[g] = mem[g]
         /\ dirty \subseteq dirty' /\ dirty' \subseteq dirty \cup {f}
BY DEF Link, Mem, Files

LEMMA RemoveEffect ==
  ASSUME mem \in Mem, dirty \subseteq Files \cup Keys, NEW f \in Files, Remove(f)
  PROVE  /\ mem' \in Mem /\ mem'[f] = None /\ dirty' = dirty \ {f}
         /\ \A g \in Files : g # f => mem'[g] = mem[g]
BY DEF Remove, Mem, Files

-----------------------------------------------------------------------------
(* What a step leaves of what the commands know. *)

Keeps ==
  /\ mem.prep # None => mem'.prep = mem.prep /\ ("prep" \in dirty' => "prep" \in dirty)
  /\ mem.seed # None => mem'.seed = mem.seed /\ ("seed" \in dirty' => "seed" \in dirty)
  /\ mem.intent # None =>
       mem'.intent = mem.intent /\ ("intent" \in dirty' => "intent" \in dirty)
  /\ mem.receipt # None =>
       mem'.receipt = mem.receipt /\ ("receipt" \in dirty' => "receipt" \in dirty)
  /\ \A k \in creds : k \in creds' /\ (k \in dirty' => k \in dirty)
  /\ issued \subseteq issued' /\ revoked \subseteq revoked'

LEMMA IdleKnows ==
  ASSUME NEW c \in Procs, op[c].pc = "idle"
  PROVE  Knows(c) /\ ~Removing(c) /\ Read(c)
BY DEF Knows, Preparing, Completing, Revoking, Forgetting, Removing, Read,
       RevokePcs, ForgetPcs, CompletePcs

LEMMA OthersKnow ==
  ASSUME Inv, Keeps, NEW d \in Procs, op'[d] = op[d], ~Removing(d)
  PROVE  Knows(d)'
<1> Typed /\ Knows(d) /\ Read(d)
  BY DEF Inv, Typed, TypeOK
<1>1. Preparing(d)'
  BY DEF Knows, Preparing, Keeps, Read
<1>2. Completing(d)'
  <2>1. op[d].pc \in CompletePcs =>
          /\ op[d].receipt # None /\ op[d].receipt.key \in creds
          /\ mem.intent = op[d].receipt /\ op[d].receipt \in issued
    BY DEF Knows, Completing, Read
  <2> QED
    BY <2>1 DEF Knows, Completing, Keeps, CompletePcs
<1>3. Revoking(d)' /\ Forgetting(d)'
  BY DEF Removing, Revoking, Forgetting, RevokePcs, ForgetPcs
<1> QED
  BY <1>1, <1>2, <1>3 DEF Knows

\* A step of a command that is no removal.
LEMMA FreeStep ==
  ASSUME Inv, Keeps, NEW c \in Procs, op' \in [Procs -> Ops],
         \A d \in Procs : d # c => op'[d] = op[d],
         ~Removing(c), ~Removing(c)',
         op[c].pc # "idle" \/ \A d \in Procs : ~Removing(d),
         Knows(c)'
  PROVE  Alone' /\ \A d \in Procs : Knows(d)'
<1>1. \A d \in Procs : ~Removing(d)
  BY DEF Inv, Alone
<1>2. \A d \in Procs : ~Removing(d)'
  BY <1>1 DEF Removing
<1>3. ASSUME NEW d \in Procs, d # c PROVE Knows(d)'
  BY <1>1, <1>3, OthersKnow
<1> QED
  BY <1>2, <1>3 DEF Alone

\* A step of a removal, which is alone.
LEMMA RemovalStep ==
  ASSUME Inv, NEW c \in Procs, op' \in [Procs -> Ops],
         \A d \in Procs : d # c => op'[d] = op[d],
         \A d \in Procs : d # c => op[d].pc = "idle",
         Knows(c)'
  PROVE  Alone' /\ \A d \in Procs : Knows(d)'
<1>1. ASSUME NEW d \in Procs, d # c PROVE op'[d].pc = "idle" /\ Knows(d)' /\ ~Removing(d)'
  <2>1. op'[d].pc = "idle"
    BY <1>1
  <2> QED
    BY <2>1 DEF Knows, Preparing, Completing, Revoking, Forgetting, Removing,
                RevokePcs, ForgetPcs, CompletePcs
<1> QED
  BY <1>1 DEF Alone

LEMMA RemoverAlone ==
  ASSUME Inv, NEW c \in Procs, Removing(c)
  PROVE  \A d \in Procs : d # c => op[d].pc = "idle"
BY DEF Inv, Alone

-----------------------------------------------------------------------------
(* Steps that change no file. *)

Quiet ==
  /\ mem' = mem /\ creds' = creds /\ dirty' \subseteq dirty
  /\ UNCHANGED <<used, exported>> /\ dropped \subseteq dropped' /\ dropped' \subseteq Pairs
  /\ told' = told /\ UNCHANGED hostVars

LEMMA QuietFacts ==
  ASSUME Inv, mem' = mem, creds' = creds, dirty' \subseteq dirty, exported' = exported,
         dropped \subseteq dropped', told' = told,
         issued \subseteq issued', revoked \subseteq revoked'
  PROVE  Facts' /\ Keeps
<1> Facts
  BY DEF Inv
<1>1. Backed' /\ KeysNamed'
  BY DEF Facts, Backed, KeysNamed
<1>2. Confirmed'
  BY DEF Facts, Confirmed
<1>3. RequestKept'
  BY DEF Facts, RequestKept
<1>4. Keeps
  BY DEF Keeps
<1> QED
  BY <1>1, <1>2, <1>3, <1>4 DEF Facts

LEMMA QuietTyped ==
  ASSUME Inv, Quiet, op' \in [Procs -> Ops], NEW c \in Procs,
         \A d \in Procs : d # c => op'[d] = op[d], Read(c)'
  PROVE  Typed'
<1>1. \A d \in Procs : Read(d)'
  BY DEF Inv, Typed, TypeOK, Read
<1> QED
  BY <1>1 DEF Inv, Typed, TypeOK, Quiet, hostVars

LEMMA QuietStep ==
  ASSUME Inv, Quiet, NEW c \in Procs, op' \in [Procs -> Ops],
         \A d \in Procs : d # c => op'[d] = op[d], Read(c)',
         ~Removing(c), ~Removing(c)',
         op[c].pc # "idle" \/ \A d \in Procs : ~Removing(d),
         Knows(c)'
  PROVE  Inv'
<1>1. Facts' /\ Keeps
  BY QuietFacts DEF Quiet, hostVars
<1>2. Alone' /\ \A d \in Procs : Knows(d)'
  BY <1>1, FreeStep
<1>3. Typed'
  BY QuietTyped
<1> QED
  BY <1>1, <1>2, <1>3 DEF Inv

LEMMA QuietRemoval ==
  ASSUME Inv, Quiet, NEW c \in Procs, op' \in [Procs -> Ops],
         \A d \in Procs : d # c => op'[d] = op[d], Read(c)',
         \A d \in Procs : d # c => op[d].pc = "idle",
         Knows(c)'
  PROVE  Inv'
<1>1. Facts'
  BY QuietFacts DEF Quiet, hostVars
<1>2. Alone' /\ \A d \in Procs : Knows(d)'
  BY RemovalStep
<1>3. Typed'
  BY QuietTyped
<1> QED
  BY <1>1, <1>2, <1>3 DEF Inv

-----------------------------------------------------------------------------
(* Prepare. *)

LEMMA BeginsFree ==
  ASSUME NoOverlap, NEW c \in Procs, Begins(c)
  PROVE  op[c].pc = "idle" /\ (\A d \in Procs : ~Removing(d)) /\ ~Removing(c)
BY DEF NoOverlap, Begins, Removing, RevokePcs, ForgetPcs

LEMMA Preparation ==
  ASSUME NEW c \in Procs, op[c].pc \in PreparePcs \cup {"idle"}
  PROVE  ~Removing(c) /\ Completing(c) /\ Revoking(c) /\ Forgetting(c)
BY DEF PreparePcs, Removing, Completing, Revoking, Forgetting, RevokePcs, ForgetPcs, CompletePcs

\* A step from one read of prepare to the next.
LEMMA PrepareQuiet ==
  ASSUME Inv, Quiet, NEW c \in Procs, NEW n \in Ops, op' = [op EXCEPT ![c] = n],
         op[c].pc \in PreparePcs \cup {"idle"}, n.pc \in PreparePcs,
         op[c].pc # "idle" \/ \A d \in Procs : ~Removing(d),
         Read(c)', Preparing(c)'
  PROVE  Inv'
<1>1. op' \in [Procs -> Ops] /\ op'[c] = n /\ \A d \in Procs : d # c => op'[d] = op[d]
  BY SetEffect DEF Inv, Typed, TypeOK
<1>2. ~Removing(c)
  BY Preparation
<1>3. Knows(c)' /\ ~Removing(c)'
  BY <1>1 DEF Knows, Completing, Revoking, Forgetting,
     Removing, PreparePcs, RevokePcs, ForgetPcs, CompletePcs
<1> QED
  BY <1>1, <1>2, <1>3, QuietStep

LEMMA Known ==
  ASSUME Inv, NEW c \in Procs
  PROVE  /\ op \in [Procs -> Ops] /\ op[c] \in Ops /\ mem \in Mem
         /\ dirty \subseteq Files \cup Keys /\ creds \subseteq Keys
         /\ Read(c) /\ Knows(c) /\ Facts
         /\ dropped \subseteq Pairs /\ exported \subseteq Intents /\ issued \subseteq Intents
         /\ mem.prep \in Reservations \cup {None} /\ mem.seed \in Keys \cup {None}
         /\ mem.intent \in Intents \cup {None} /\ mem.receipt \in Intents \cup {None}
         /\ mem.target \in Intents \cup {None, OtherTarget}
BY DEF Inv, Typed, TypeOK, Mem

LEMMA PrepareBeginInv ==
  ASSUME Inv, NoOverlap, NEW c \in Procs, NEW o \in Offers, PrepareBegin(c, o)
  PROVE  Inv'
<1>1. op \in [Procs -> Ops] /\ mem \in Mem /\ dirty \subseteq Files \cup Keys
      /\ Backed /\ dropped \subseteq Pairs
  BY Known DEF Facts
<1>2. op[c].pc = "idle" /\ (\A d \in Procs : ~Removing(d)) /\ ~Removing(c)
  BY BeginsFree DEF PrepareBegin
<1>3. CASE mem.intent # None
  <2> DEFINE n == [Idle EXCEPT !.pc = "reserved", !.res = mem.prep]
  <2>1. op' = [op EXCEPT ![c] = n] /\ Durable({"intent"}) /\ mem.prep # None
    BY <1>3 DEF PrepareBegin
  <2>2. n \in Ops /\ n.pc = "reserved" /\ n.res = mem.prep
    BY <1>1, <2>1, IdleTyped, Known DEF Ops, Pcs, PreparePcs
  <2> HIDE DEF n
  <2>3. op'[c] = n
    BY <1>1, <2>1
  <2>4. Quiet
    BY <1>1, <2>1, DurableEffect DEF Quiet, PrepareBegin, Files
  <2>5. Preparing(c)'
    BY <1>1, <2>2, <2>3, <2>4, <1>3 DEF Preparing, Backed, Quiet
  <2>6. Read(c)'
    BY <2>1, <2>2, <2>3 DEF Read, RevokePcs, CompletePcs
  <2> QED
    BY <1>2, <2>1, <2>2, <2>4, <2>5, <2>6, PrepareQuiet DEF PreparePcs
<1>4. CASE mem.intent = None
  <2> DEFINE n == [Idle EXCEPT !.pc = "reserve", !.offer = o]
  <2>1. op' = [op EXCEPT ![c] = n] /\ dirty' = dirty
    BY <1>4 DEF PrepareBegin
  <2>2. n \in Ops /\ n.pc = "reserve" /\ n.offer = o
    BY IdleTyped DEF Ops, Pcs, PreparePcs
  <2> HIDE DEF n
  <2>3. op'[c] = n
    BY <1>1, <2>1
  <2>4. Quiet
    BY <1>1, <2>1 DEF Quiet, PrepareBegin
  <2>5. Preparing(c)'
    BY <2>2, <2>3 DEF Preparing
  <2>6. Read(c)'
    BY <2>2, <2>3, ClientNulls DEF Read, RevokePcs, CompletePcs
  <2> QED
    BY <1>2, <2>1, <2>2, <2>4, <2>5, <2>6, PrepareQuiet DEF PreparePcs
<1> QED
  BY <1>3, <1>4

LEMMA ReserveReadInv ==
  ASSUME Inv, NEW c \in Procs, ReserveRead(c)
  PROVE  Inv'
<1> DEFINE n == [op[c] EXCEPT !.pc = "reserved", !.res = mem.prep, !.offer = None]
<1>1. op' = [op EXCEPT ![c] = n] /\ Durable({"prep"}) /\ mem.prep # None
      /\ op[c].pc \in PreparePcs \ {"idle"}
  BY DEF ReserveRead, PreparePcs
<1>2. n \in Ops /\ n.pc = "reserved" /\ n.res = mem.prep
  BY <1>1, Known DEF Ops, Pcs, PreparePcs
<1> HIDE DEF n
<1>3. op'[c] = n
  BY <1>1, Known
<1>4. Quiet /\ "prep" \notin dirty'
  BY <1>1, Known, DurableEffect DEF Quiet, ReserveRead, Files
<1>5. Preparing(c)' /\ Read(c)'
  BY <1>1, <1>2, <1>3, <1>4 DEF Preparing, Quiet, Read, RevokePcs, CompletePcs
<1> QED
  BY <1>1, <1>2, <1>4, <1>5, PrepareQuiet DEF PreparePcs

LEMMA PrepareReservedInv ==
  ASSUME Inv, NEW c \in Procs, PrepareReserved(c)
  PROVE  Inv'
<1> DEFINE n == [op[c] EXCEPT !.pc = "seed", !.intent = mem.intent]
<1>1. op' = [op EXCEPT ![c] = n] /\ op[c].pc = "reserved"
  BY DEF PrepareReserved
<1>2. n \in Ops /\ n.pc = "seed" /\ n.res = op[c].res /\ n.intent = mem.intent
  BY Known DEF Ops, Pcs, PreparePcs
<1> HIDE DEF n
<1>3. op'[c] = n
  BY <1>1, Known
<1>4. Quiet
  BY Known, DurableEffect DEF Quiet, PrepareReserved, Files
<1>5. Preparing(c)' /\ Read(c)'
  BY <1>1, <1>2, <1>3, <1>4, Known
     DEF Knows, Preparing, Quiet, Read, RevokePcs, CompletePcs
<1> QED
  BY <1>1, <1>2, <1>4, <1>5, PrepareQuiet DEF PreparePcs

LEMMA SeedReadInv ==
  ASSUME Inv, NEW c \in Procs, SeedRead(c)
  PROVE  Inv'
<1> DEFINE n == [op[c] EXCEPT !.pc = "keyed", !.key = mem.seed]
<1>1. op' = [op EXCEPT ![c] = n] /\ Durable({"seed", "prep"}) /\ mem.seed # None
      /\ op[c].pc \in {"seed", "seedread"}
  BY DEF SeedRead
<1>2. n \in Ops /\ n.pc = "keyed" /\ n.res = op[c].res /\ n.key = mem.seed
  BY Known DEF Ops, Pcs, PreparePcs
<1> HIDE DEF n
<1>3. op'[c] = n
  BY <1>1, Known
<1>4. Quiet /\ "seed" \notin dirty'
  BY <1>1, Known, DurableEffect DEF Quiet, SeedRead, Files
<1>5. Preparing(c)' /\ Read(c)'
  BY <1>1, <1>2, <1>3, <1>4, Known
     DEF Knows, Preparing, Quiet, Read, RevokePcs, CompletePcs
<1> QED
  BY <1>1, <1>2, <1>4, <1>5, PrepareQuiet DEF PreparePcs

LEMMA IntentReadInv ==
  ASSUME Inv, NEW c \in Procs, IntentRead(c)
  PROVE  Inv'
<1> DEFINE n == [op[c] EXCEPT !.pc = "credential", !.intent = mem.intent, !.res = None]
<1>1. op' = [op EXCEPT ![c] = n] /\ Durable({"intent"}) /\ op[c].pc = "intentread"
      /\ mem.intent = Expected(c)
  BY DEF IntentRead
<1>2. n \in Ops /\ n.pc = "credential" /\ n.key = op[c].key /\ n.intent = mem.intent
  BY Known DEF Ops, Pcs, PreparePcs
<1>0. op[c].res \in Reservations /\ op[c].key \in Keys
  BY <1>1, Known DEF Read, Ops
<1> HIDE DEF n
<1>3. op'[c] = n
  BY <1>1, Known
<1>4. Quiet /\ "intent" \notin dirty'
  BY <1>1, Known, DurableEffect DEF Quiet, IntentRead, Files
<1>5. mem.intent \in Intents /\ mem.intent.key = op[c].key
  BY <1>0, <1>1 DEF Expected, Intents, Reservations
<1>6. Preparing(c)'
  BY <1>1, <1>2, <1>3, <1>4, <1>5, Known DEF Knows, Preparing, Quiet
<1>7. Read(c)'
  BY <1>0, <1>2, <1>3, <1>5, Nulls DEF Read, RevokePcs, CompletePcs
<1> QED
  BY <1>1, <1>2, <1>4, <1>6, <1>7, PrepareQuiet DEF PreparePcs

\* A file that is linked takes nothing from anybody.
LEMMA LinkKeeps ==
  ASSUME Inv, NEW f \in Files, NEW value, value # None, Link(f, value),
         creds' = creds, UNCHANGED hostVars
  PROVE  Keeps
<1>1. mem \in Mem /\ dirty \subseteq Files \cup Keys /\ creds \subseteq Keys
  BY DEF Inv, Typed, TypeOK
<1>2. \A k \in creds : k \in dirty' => k \in dirty
  BY <1>1, LinkEffect, Nulls
<1>3. \A g \in Files : mem[g] # None => mem'[g] = mem[g] /\ (g \in dirty' => g \in dirty)
  BY <1>1, LinkEffect
<1> QED
  BY <1>2, <1>3 DEF Keeps, Files, hostVars

\* While no request is published there is no credential, and none has been returned
\* that is to be kept.
LEMMA NoIntentYet ==
  ASSUME Inv, mem.intent = None
  PROVE  creds = {} /\ mem.target \notin Intents /\ \A i \in exported : i.pair \in dropped
<1>1. creds = {}
  BY DEF Inv, Facts, KeysNamed
<1>2. mem.target \notin Intents
  BY <1>1 DEF Inv, Facts, Confirmed
<1>3. \A i \in exported : i.pair \in dropped
  BY Nulls DEF Inv, Facts, RequestKept, Typed, TypeOK
<1> QED
  BY <1>1, <1>2, <1>3

LEMMA LinkFacts ==
  ASSUME Inv, NEW f \in {"prep", "seed", "intent"}, NEW value, value # None, Link(f, value),
         UNCHANGED <<creds, exported, dropped, told, hostVars>>,
         f = "intent" =>
           /\ value \in Intents
           /\ mem.prep = ReservationOf(value) /\ "prep" \notin dirty
           /\ mem.seed = value.key /\ "seed" \notin dirty
  PROVE  Facts'
<1>1. mem \in Mem /\ dirty \subseteq Files \cup Keys /\ creds \subseteq Keys /\ f \in Files /\ Facts
      /\ mem.intent \in Intents \cup {None}
  BY DEF Inv, Typed, TypeOK, Files, Mem
<1>2. CASE mem[f] # None
  <2>1. mem' = mem /\ dirty' = dirty
    BY <1>1, <1>2, LinkEffect
  <2> QED
    BY <2>1, QuietFacts DEF hostVars
<1>3. CASE mem[f] = None
  <2>1. mem'[f] = value /\ dirty' = dirty \cup {f} /\ \A g \in Files : g # f => mem'[g] = mem[g]
    BY <1>1, <1>3, LinkEffect
  <2>2. mem.intent = None
    BY <1>1, <1>3, Nulls DEF Facts, Backed
  <2>3. creds = {} /\ mem.target \notin Intents /\ \A i \in exported : i.pair \in dropped
    BY <2>2, NoIntentYet
  <2>4. Backed'
    BY <2>1, <2>2 DEF Backed, Files
  <2>5. Confirmed'
    BY <1>1, <2>1, <2>3 DEF Facts, Confirmed, Files, hostVars
  <2>6. RequestKept' /\ KeysNamed'
    BY <2>3 DEF RequestKept, KeysNamed
  <2> QED
    BY <2>4, <2>5, <2>6 DEF Facts
<1> QED
  BY <1>2, <1>3

\* Where prepare goes on to after a step of its own.
LEMMA PrepareGoto ==
  ASSUME Inv, NEW c \in Procs, NEW pc \in PreparePcs, Goto(c, pc),
         op[c].pc \in PreparePcs, Keeps, Preparing(c)', Read(c)', Facts',
         mem' \in Mem, creds' \subseteq Keys, dirty' \subseteq Files \cup Keys,
         used' \subseteq Pairs \cup Keys,
         UNCHANGED <<exported, dropped, told, hostVars>>
  PROVE  Inv'
<1>1. op' \in [Procs -> Ops] /\ op'[c].pc = pc /\ \A d \in Procs : d # c => op'[d] = op[d]
  BY Known, GotoEffect DEF Pcs
<1>2. Knows(c)' /\ ~Removing(c)'
  BY <1>1 DEF Knows, Completing, Revoking, Forgetting,
     Removing, PreparePcs, RevokePcs, ForgetPcs, CompletePcs
<1>3. ~Removing(c) /\ op[c].pc # "idle"
  BY Preparation DEF PreparePcs
<1>4. Alone' /\ \A d \in Procs : Knows(d)'
  BY <1>1, <1>2, <1>3, FreeStep
<1>5. \A d \in Procs : Read(d)'
  BY <1>1, Known DEF Read
<1>6. Typed'
  BY <1>1, <1>5 DEF Inv, Typed, TypeOK, hostVars
<1> QED
  BY <1>4, <1>6 DEF Inv

LEMMA ReserveInv ==
  ASSUME Inv, NEW c \in Procs, NEW p \in Pairs, Reserve(c, p)
  PROVE  Inv'
<1> DEFINE v == [pair |-> p, offer |-> op[c].offer]
<1>1. op[c].pc = "reserve" /\ Link("prep", v) /\ Goto(c, "reserveread")
      /\ used' \subseteq used \cup {p}
      /\ UNCHANGED <<creds, exported, dropped, told, hostVars>>
  BY DEF Reserve
<1>2. op[c].offer \in Offers
  BY <1>1, Known DEF Read, Ops
<1>3. v \in Reservations /\ v # None
  BY <1>2, Nulls DEF Reservations
<1>4. mem' \in Mem
  BY <1>1, <1>3, Known DEF Link, Mem
<1> HIDE DEF v
<1>5. Keeps /\ Facts' /\ dirty' \subseteq dirty \cup {"prep"}
  BY <1>1, <1>3, LinkKeeps, LinkFacts, LinkEffect, Known DEF Files
<1>6. Preparing(c)' /\ Read(c)'
  BY <1>1, Known, GotoEffect DEF Preparing, Read, Pcs, PreparePcs, CompletePcs, RevokePcs
<1>7. used' \subseteq Pairs \cup Keys /\ dirty' \subseteq Files \cup Keys
  BY <1>1, <1>5, Known DEF Inv, Typed, TypeOK, Files
<1> QED
  BY <1>1, <1>4, <1>5, <1>6, <1>7, PrepareGoto, Known DEF PreparePcs

LEMMA SeedInv ==
  ASSUME Inv, NEW c \in Procs, NEW k \in Keys, Seed(c, k)
  PROVE  Inv'
<1>1. op[c].pc = "seed" /\ Link("seed", k) /\ Goto(c, "seedread") /\ used' \subseteq used \cup {k}
      /\ UNCHANGED <<creds, exported, dropped, told, hostVars>>
  BY DEF Seed
<1>2. k # None
  BY Nulls
<1>3. mem' \in Mem
  BY <1>1, Known DEF Link, Mem
<1>4. Keeps /\ Facts' /\ dirty' \subseteq dirty \cup {"seed"}
  BY <1>1, <1>2, LinkKeeps, LinkFacts, LinkEffect, Known DEF Files
<1>5. op'[c].pc = "seedread" /\ op'[c].res = op[c].res /\ op'[c].intent = op[c].intent
  BY <1>1, Known, GotoEffect DEF Pcs, PreparePcs
<1>6. mem'.prep = mem.prep /\ mem'.intent = mem.intent /\ ("prep" \in dirty' => "prep" \in dirty)
  BY <1>1, <1>2, <1>4, LinkEffect, Known DEF Files
<1>7. Preparing(c)' /\ Read(c)'
  BY <1>1, <1>5, <1>6, Known DEF Knows, Preparing, Read, CompletePcs, RevokePcs
<1>8. used' \subseteq Pairs \cup Keys /\ dirty' \subseteq Files \cup Keys
  BY <1>1, <1>4, Known DEF Inv, Typed, TypeOK, Files
<1> QED
  BY <1>1, <1>3, <1>4, <1>7, <1>8, PrepareGoto, Known DEF PreparePcs

LEMMA PublishIntentInv ==
  ASSUME Inv, NEW c \in Procs, PublishIntent(c)
  PROVE  Inv'
<1> DEFINE v == Expected(c)
<1>1. op[c].pc = "keyed" /\ Link("intent", v) /\ Goto(c, "intentread") /\ used' = used
      /\ UNCHANGED <<creds, exported, dropped, told, hostVars>>
  BY DEF PublishIntent
<1>2. op[c].res \in Reservations /\ op[c].key \in Keys
  BY <1>1, Known DEF Read, Ops
<1>3. v \in Intents /\ v # None /\ ReservationOf(v) = op[c].res /\ v.key = op[c].key
  BY <1>2, Nulls DEF Intents, Reservations, Expected, ReservationOf
<1>4. mem' \in Mem
  BY <1>1, <1>3, Known DEF Link, Mem
<1> HIDE DEF v
<1>5. mem.prep = op[c].res /\ "prep" \notin dirty /\ mem.seed = op[c].key /\ "seed" \notin dirty
  BY <1>1, Known DEF Knows, Preparing
<1>6. Keeps /\ Facts' /\ dirty' \subseteq dirty \cup {"intent"}
  BY <1>1, <1>3, <1>5, LinkKeeps, LinkFacts, LinkEffect, Known DEF Files
<1>7. op'[c].pc = "intentread" /\ op'[c].res = op[c].res /\ op'[c].key = op[c].key
  BY <1>1, Known, GotoEffect DEF Pcs, PreparePcs
<1>8. mem'.prep = mem.prep /\ mem'.seed = mem.seed
  BY <1>1, <1>3, LinkEffect, Known DEF Files
<1>9. Preparing(c)' /\ Read(c)'
  BY <1>2, <1>5, <1>6, <1>7, <1>8, Nulls DEF Preparing, Read, CompletePcs, RevokePcs
<1>10. used' \subseteq Pairs \cup Keys /\ dirty' \subseteq Files \cup Keys
  BY <1>1, <1>6, Known DEF Inv, Typed, TypeOK, Files
<1> QED
  BY <1>1, <1>4, <1>6, <1>9, <1>10, PrepareGoto, Known DEF PreparePcs

LEMMA PublishCredentialInv ==
  ASSUME Inv, NEW c \in Procs, PublishCredential(c)
  PROVE  Inv'
<1>1. /\ op[c].pc = "credential" /\ Goto(c, "credread")
      /\ creds' = creds \cup {op[c].key} /\ dirty' = dirty \cup ({op[c].key} \ creds)
      /\ UNCHANGED <<mem, used, exported, dropped, told, hostVars>>
  BY DEF PublishCredential
<1>2. /\ op[c].key \in Keys /\ op[c].key \notin Files /\ op[c].intent # None
      /\ mem.intent = op[c].intent /\ mem.intent.key = op[c].key
      /\ "intent" \notin dirty /\ mem.seed = op[c].key /\ "seed" \notin dirty
  BY <1>1, Known, Nulls DEF Knows, Preparing, Read, Ops
<1>3. \A f \in Files : f \in dirty' => f \in dirty
  BY <1>1, <1>2
<1>4. \A k \in creds : k \in creds' /\ (k \in dirty' => k \in dirty)
  BY <1>1
<1>5. Backed' /\ KeysNamed'
  BY <1>1, <1>2, <1>3, Known DEF Facts, Backed, KeysNamed, Files
<1>6. Confirmed'
  BY <1>1, <1>3, <1>4, Known DEF Facts, Confirmed, Files, hostVars
<1>7. RequestKept'
  BY <1>1, <1>3, <1>4, Known DEF Facts, RequestKept, Files
<1>8. Keeps
  BY <1>1, <1>3, <1>4 DEF Keeps, Files, hostVars
<1>9. /\ op'[c].pc = "credread" /\ op'[c].key = op[c].key /\ op'[c].intent = op[c].intent
  BY <1>1, Known, GotoEffect DEF Pcs, PreparePcs
<1>10. Preparing(c)' /\ Read(c)'
  BY <1>1, <1>2, <1>3, <1>9, Nulls DEF Preparing, Read, CompletePcs, RevokePcs, Files
<1>11. mem' \in Mem /\ creds' \subseteq Keys /\ dirty' \subseteq Files \cup Keys
       /\ used' \subseteq Pairs \cup Keys
  BY <1>1, <1>2, Known DEF Inv, Typed, TypeOK
<1> QED
  BY <1>1, <1>5, <1>6, <1>7, <1>8, <1>10, <1>11, PrepareGoto DEF Facts, PreparePcs

\* A command that is no removal returns.
LEMMA ReturnFree ==
  ASSUME Inv, NEW c \in Procs, Return(c), ~Removing(c), op[c].pc # "idle", Keeps, Facts',
         UNCHANGED <<mem, creds, used, dropped, told, hostVars>>,
         dirty' \subseteq dirty, exported' \subseteq Intents
  PROVE  Inv'
<1>1. op' \in [Procs -> Ops] /\ op'[c].pc = "idle" /\ \A d \in Procs : d # c => op'[d] = op[d]
  BY Known, ReturnEffect
<1>2. Knows(c)' /\ ~Removing(c)' /\ Read(c)'
  BY <1>1 DEF Knows, Preparing, Completing, Revoking, Forgetting, Removing, Read,
     RevokePcs, ForgetPcs, CompletePcs
<1>3. Alone' /\ \A d \in Procs : Knows(d)'
  BY <1>1, <1>2, FreeStep
<1>4. \A d \in Procs : Read(d)'
  BY <1>1, <1>2, Known DEF Read
<1>5. Typed'
  BY <1>1, <1>4 DEF Inv, Typed, TypeOK, hostVars
<1> QED
  BY <1>3, <1>5 DEF Inv

LEMMA PrepareReturnInv ==
  ASSUME Inv, NEW c \in Procs, PrepareReturn(c)
  PROVE  Inv'
<1>1. /\ op[c].pc = "credread" /\ op[c].key \in creds /\ Return(c)
      /\ exported' = exported \cup {op[c].intent} /\ dirty' = dirty \ {op[c].key}
      /\ UNCHANGED <<mem, creds, used, dropped, told, hostVars>>
  BY DEF PrepareReturn
<1>2. /\ op[c].intent \in Intents /\ mem.intent = op[c].intent /\ mem.intent.key = op[c].key
      /\ "intent" \notin dirty
  BY <1>1, Known DEF Knows, Preparing, Read, Ops
<1>3. Backed' /\ Confirmed' /\ KeysNamed' /\ Keeps
  BY <1>1, Known DEF Facts, Backed, Confirmed, KeysNamed, Keeps, hostVars
<1>4. mem.prep = ReservationOf(mem.intent) /\ mem.seed = mem.intent.key
      /\ "prep" \notin dirty /\ "seed" \notin dirty
  BY <1>2, Known, Nulls DEF Facts, Backed
<1>5. RequestKept'
  BY <1>1, <1>2, <1>4, Known DEF Facts, RequestKept
<1>6. exported' \subseteq Intents /\ ~Removing(c)
  BY <1>1, <1>2, Known, Preparation DEF PreparePcs
<1> QED
  BY <1>1, <1>3, <1>5, <1>6, ReturnFree DEF Facts

-----------------------------------------------------------------------------
(* Complete. *)

LEMMA CompleteQuiet ==
  ASSUME Inv, Quiet, NEW c \in Procs, NEW n \in Ops, op' = [op EXCEPT ![c] = n],
         op[c].pc \in CompletePcs \cup {"idle"}, n.pc \in CompletePcs,
         op[c].pc # "idle" \/ \A d \in Procs : ~Removing(d),
         n.receipt # None, Completing(c)'
  PROVE  Inv'
<1>1. op' \in [Procs -> Ops] /\ op'[c] = n /\ \A d \in Procs : d # c => op'[d] = op[d]
  BY SetEffect DEF Inv, Typed, TypeOK
<1>2. ~Removing(c)
  BY DEF Removing, RevokePcs, ForgetPcs, CompletePcs
<1>3. Knows(c)' /\ ~Removing(c)' /\ Read(c)'
  BY <1>1 DEF Knows, Preparing, Revoking, Forgetting,
     Removing, RevokePcs, ForgetPcs, CompletePcs, Read
<1> QED
  BY <1>1, <1>2, <1>3, QuietStep

LEMMA CompleteBeginInv ==
  ASSUME Inv, NoOverlap, NEW c \in Procs, NEW i \in issued, CompleteBegin(c, i)
  PROVE  Inv'
<1>1. op[c].pc = "idle" /\ (\A d \in Procs : ~Removing(d)) /\ ~Removing(c)
  BY BeginsFree DEF CompleteBegin
<1> DEFINE n == [Idle EXCEPT !.pc = "accept", !.receipt = i]
<1>2. op' = [op EXCEPT ![c] = n] /\ mem.intent = i /\ i.key \in creds
      /\ dirty' = dirty \ (PairDir \cup {"seed", i.key})
      /\ UNCHANGED <<mem, creds, used, exported, dropped, told, hostVars>>
  BY DEF CompleteBegin, Verified
<1>3. i \in Intents
  BY Known
<1>4. n \in Ops /\ n.pc = "accept" /\ n.receipt = i
  BY <1>3, IdleTyped DEF Ops, Pcs, CompletePcs
<1> HIDE DEF n
<1>5. op'[c] = n
  BY <1>2, Known
<1>6. Quiet
  BY <1>2, Known DEF Quiet
<1>7. Completing(c)'
  BY <1>2, <1>4, <1>5, Known DEF Completing, CompletePcs, hostVars
<1> QED
  BY <1>1, <1>2, <1>3, <1>4, <1>6, <1>7, CompleteQuiet, Nulls DEF CompletePcs

\* What complete knows goes on from a pc of it to the next.
LEMMA AcceptedInv ==
  ASSUME Inv, NEW c \in Procs, Accepted(c)
  PROVE  Inv'
<1> DEFINE n == [op[c] EXCEPT !.pc = "save"]
<1>1. /\ op[c].pc = "acceptsync" /\ op' = [op EXCEPT ![c] = n] /\ Durable({"receipt"})
      /\ UNCHANGED <<mem, creds, used, exported, dropped, told, hostVars>>
  BY DEF Accepted, Goto
<1>2. n \in Ops /\ n.pc = "save" /\ n.receipt = op[c].receipt
  BY Known DEF Ops, Pcs, CompletePcs
<1> HIDE DEF n
<1>3. op'[c] = n
  BY <1>1, Known
<1>4. Quiet /\ "receipt" \notin dirty'
  BY <1>1, Known, DurableEffect DEF Quiet, Files
<1>5. Completing(c)' /\ n.receipt # None
  BY <1>1, <1>2, <1>3, <1>4, Known DEF Knows, Completing, CompletePcs, Quiet, hostVars, Read
<1> QED
  BY <1>1, <1>2, <1>4, <1>5, CompleteQuiet DEF CompletePcs

LEMMA SavedInv ==
  ASSUME Inv, NEW c \in Procs, Saved(c)
  PROVE  Inv'
<1>1. /\ op[c].pc = "savesync" /\ Durable({"target"}) /\ Return(c)
      /\ UNCHANGED <<mem, creds, used, exported, dropped, told, hostVars>>
  BY DEF Saved
<1>2. dirty' \subseteq dirty
  BY <1>1, Known, DurableEffect DEF Files
<1>3. Facts' /\ Keeps
  BY <1>1, <1>2, QuietFacts DEF hostVars
<1>4. ~Removing(c)
  BY <1>1 DEF Removing, RevokePcs, ForgetPcs
<1> QED
  BY <1>1, <1>2, <1>3, <1>4, ReturnFree, Known

LEMMA CompleteGoto ==
  ASSUME Inv, NEW c \in Procs, NEW pc \in CompletePcs, Goto(c, pc),
         op[c].pc \in CompletePcs, Keeps, Completing(c)', Facts',
         mem' \in Mem, dirty' \subseteq Files \cup Keys,
         UNCHANGED <<creds, used, exported, dropped, told, hostVars>>
  PROVE  Inv'
<1>1. op' \in [Procs -> Ops] /\ op'[c].pc = pc /\ op'[c].receipt = op[c].receipt
      /\ \A d \in Procs : d # c => op'[d] = op[d]
  BY Known, GotoEffect DEF Pcs
<1>2. Knows(c)' /\ ~Removing(c)'
  BY <1>1 DEF Knows, Preparing, Revoking, Forgetting,
     Removing, RevokePcs, ForgetPcs, CompletePcs
<1>3. ~Removing(c) /\ op[c].pc # "idle"
  BY DEF Removing, RevokePcs, ForgetPcs, CompletePcs
<1>4. Alone' /\ \A d \in Procs : Knows(d)'
  BY <1>1, <1>2, <1>3, FreeStep
<1>5. \A d \in Procs : Read(d)'
  BY <1>1, Known DEF Read, CompletePcs, RevokePcs
<1>6. Typed'
  BY <1>1, <1>5 DEF Inv, Typed, TypeOK, hostVars
<1> QED
  BY <1>4, <1>6 DEF Inv

LEMMA AcceptInv ==
  ASSUME Inv, NEW c \in Procs, Accept(c)
  PROVE  Inv'
<1> DEFINE v == op[c].receipt
<1>1. /\ op[c].pc = "accept" /\ mem.receipt \in {None, v} /\ Link("receipt", v)
      /\ Goto(c, "acceptsync")
      /\ UNCHANGED <<creds, used, exported, dropped, told, hostVars>>
  BY DEF Accept
<1>2. /\ v \in Intents /\ v # None /\ v \in issued
      /\ mem.intent = v /\ v.key \in creds /\ v.key \notin dirty
  BY <1>1, Known, Nulls DEF Knows, Completing, CompletePcs, Read, Ops
<1>3. mem' \in Mem
  BY <1>1, <1>2, Known DEF Link, Mem
<1>4. op'[c].pc = "acceptsync" /\ op'[c].receipt = v
  BY <1>1, Known, GotoEffect DEF Pcs, CompletePcs
<1> HIDE DEF v
<1>5. /\ mem'.receipt = v /\ dirty' \subseteq dirty \cup {"receipt"}
      /\ \A g \in Files : g # "receipt" => mem'[g] = mem[g]
      /\ mem.receipt # None => dirty' = dirty
  BY <1>1, <1>2, LinkEffect, Known DEF Files
<1>6. Keeps /\ v.key \notin dirty'
  BY <1>1, <1>2, <1>5, LinkKeeps, Known DEF Files, Keeps
<1>7. Backed' /\ KeysNamed'
  BY <1>1, <1>5, Known DEF Facts, Backed, KeysNamed, Files
<1>8. Confirmed'
  BY <1>1, <1>2, <1>5, <1>6, Known, Nulls DEF Facts, Confirmed, Files, hostVars
<1>9. RequestKept'
  BY <1>1, <1>5, <1>6, Known, Nulls DEF Facts, RequestKept, Files
<1>10. Completing(c)'
  BY <1>1, <1>2, <1>4, <1>5, <1>6 DEF Completing, CompletePcs, Files, hostVars
<1>11. dirty' \subseteq Files \cup Keys
  BY <1>5, Known DEF Files
<1> QED
  BY <1>1, <1>3, <1>6, <1>7, <1>8, <1>9, <1>10, <1>11, CompleteGoto DEF Facts, CompletePcs

LEMMA SaveInv ==
  ASSUME Inv, NEW c \in Procs, Save(c)
  PROVE  Inv'
<1> DEFINE v == op[c].receipt
<1>1. /\ op[c].pc = "save" /\ mem.target \in {None, v} /\ Link("target", v)
      /\ Goto(c, "savesync")
      /\ UNCHANGED <<creds, used, exported, dropped, told, hostVars>>
  BY DEF Save
<1>2. /\ v \in Intents /\ v # None /\ v \in issued /\ mem.receipt = v /\ "receipt" \notin dirty
      /\ mem.intent = v /\ v.key \in creds /\ v.key \notin dirty
  BY <1>1, Known, Nulls DEF Knows, Completing, CompletePcs, Read, Ops
<1>3. mem' \in Mem
  BY <1>1, <1>2, Known DEF Link, Mem
<1>4. op'[c].pc = "savesync" /\ op'[c].receipt = v
  BY <1>1, Known, GotoEffect DEF Pcs, CompletePcs
<1> HIDE DEF v
<1>5. /\ mem'.target = v /\ dirty' \subseteq dirty \cup {"target"}
      /\ \A g \in Files : g # "target" => mem'[g] = mem[g]
  BY <1>1, <1>2, LinkEffect, Known DEF Files
<1>6. Keeps /\ v.key \notin dirty'
  BY <1>1, <1>2, <1>5, LinkKeeps, Known DEF Files, Keeps
<1>7. Backed' /\ KeysNamed'
  BY <1>1, <1>5, Known DEF Facts, Backed, KeysNamed, Files
<1>8. Confirmed'
  BY <1>1, <1>2, <1>5, <1>6, Known, Nulls DEF Facts, Confirmed, Files, hostVars
<1>9. RequestKept'
  BY <1>1, <1>5, <1>6, Known, Nulls DEF Facts, RequestKept, Files
<1>10. Completing(c)'
  BY <1>1, <1>2, <1>4, <1>5, <1>6 DEF Completing, CompletePcs, Files, hostVars
<1>11. dirty' \subseteq Files \cup Keys
  BY <1>5, Known DEF Files
<1> QED
  BY <1>1, <1>3, <1>6, <1>7, <1>8, <1>9, <1>10, <1>11, CompleteGoto DEF Facts, CompletePcs

-----------------------------------------------------------------------------
(* Revoke. *)

LEMMA AloneBegins ==
  ASSUME NoOverlap, NEW c \in Procs, BeginsAlone(c)
  PROVE  \A d \in Procs : op[d].pc = "idle"
BY DEF NoOverlap, BeginsAlone

LEMMA RevokeQuiet ==
  ASSUME Inv, Quiet, NEW c \in Procs, NEW n \in Ops, op' = [op EXCEPT ![c] = n],
         n.pc \in RevokePcs, n.pair # None,
         \A d \in Procs : d # c => op[d].pc = "idle",
         Revoking(c)', n.receipt = mem.receipt
  PROVE  Inv'
<1>1. op' \in [Procs -> Ops] /\ op'[c] = n /\ \A d \in Procs : d # c => op'[d] = op[d]
  BY SetEffect, Known
<1>2. Knows(c)' /\ Read(c)'
  BY <1>1 DEF Knows, Preparing, Completing, Forgetting, Quiet,
     RevokePcs, ForgetPcs, CompletePcs, Read
<1> QED
  BY <1>1, <1>2, QuietRemoval

\* What a revoke that is under way has.
LEMMA UnderRevoke ==
  ASSUME Inv, NEW c \in Procs, op[c].pc \in RevokePcs
  PROVE  /\ \A d \in Procs : d # c => op[d].pc = "idle"
         /\ op[c].asked /\ op[c].intent \in Intents /\ mem.intent = op[c].intent
         /\ op[c].pair \in Pairs /\ op[c].pair # None /\ op[c].pair = mem.intent.pair
         /\ op[c].receipt = mem.intent /\ mem.receipt = mem.intent
         /\ (op[c].verdict = "revoked" => op[c].pair \in revoked)
         /\ op[c].verdict \in Verdicts
<1>1. \A d \in Procs : d # c => op[d].pc = "idle"
  BY RemoverAlone DEF Removing
<1>2. Revoking(c) /\ Forgetting(c) /\ op[c] \in Ops
  BY Known DEF Knows
<1> QED
  BY <1>1, <1>2, Nulls DEF Revoking, Forgetting, Ops

LEMMA RevokeBeginInv ==
  ASSUME Inv, NoOverlap, NEW c \in Procs, RevokeBegin(c)
  PROVE  Inv'
<1> DEFINE first == IF mem.record = None THEN "ask" ELSE "recordread"
           n == [Idle EXCEPT !.pc = first, !.intent = mem.intent, !.receipt = mem.receipt,
                             !.pair = mem.receipt.pair, !.asked = TRUE]
<1>1. /\ \A d \in Procs : op[d].pc = "idle"
      /\ op' = [op EXCEPT ![c] = n] /\ Durable({"intent"})
      /\ mem.intent # None /\ mem.receipt = mem.intent
      /\ UNCHANGED <<mem, creds, used, exported, dropped, told, hostVars>>
  BY AloneBegins DEF RevokeBegin
<1>2. mem.intent \in Intents /\ mem.receipt \in Intents /\ mem.receipt.pair \in Pairs
  BY <1>1, Known, Nulls
<1>3. first \in {"ask", "recordread"}
  OBVIOUS
<1> HIDE DEF first
<1>4. /\ n \in Ops /\ n.pc \in RevokePcs /\ n.intent = mem.intent /\ n.receipt = mem.receipt
      /\ n.pair = mem.receipt.pair /\ n.asked = TRUE /\ n.verdict = "none"
  BY <1>2, <1>3 DEF Ops, Pcs, RevokePcs, Idle, Verdicts
<1> HIDE DEF n
<1>5. op'[c] = n
  BY <1>1, Known
<1>6. Quiet
  BY <1>1, Known, DurableEffect DEF Quiet, Files
<1>7. Revoking(c)'
  BY <1>1, <1>4, <1>5 DEF Revoking
<1> QED
  BY <1>1, <1>2, <1>4, <1>6, <1>7, RevokeQuiet, Nulls

LEMMA AskInv ==
  ASSUME Inv, NEW c \in Procs, Ask(c)
  PROVE  Inv'
<1> DEFINE n == [op[c] EXCEPT !.pc = "asked"]
<1>1. /\ op[c].pc \in RevokePcs /\ op' = [op EXCEPT ![c] = n]
      /\ UNCHANGED <<mem, creds, dirty, used, exported, dropped, told, hostVars>>
  BY DEF Ask, Goto, RevokePcs
<1>2. /\ n \in Ops /\ n.pc \in RevokePcs /\ n.intent = op[c].intent /\ n.pair = op[c].pair
      /\ n.receipt = op[c].receipt /\ n.asked = op[c].asked /\ n.verdict = op[c].verdict
  BY Known DEF Ops, Pcs, RevokePcs
<1> HIDE DEF n
<1>3. op'[c] = n
  BY <1>1, Known
<1>4. Quiet
  BY <1>1, Known DEF Quiet
<1>5. Revoking(c)'
  BY <1>1, <1>2, <1>3, UnderRevoke, Nulls DEF Revoking, hostVars
<1> QED
  BY <1>1, <1>2, <1>4, <1>5, UnderRevoke, RevokeQuiet

LEMMA AskRejectedInv ==
  ASSUME Inv, NEW c \in Procs, AskRejected(c)
  PROVE  Inv'
<1> DEFINE n == [op[c] EXCEPT !.pc = "publish", !.verdict = "already-rejected"]
<1>1. /\ op[c].pc \in RevokePcs /\ op' = [op EXCEPT ![c] = n]
      /\ UNCHANGED <<mem, creds, dirty, used, exported, dropped, told, hostVars>>
  BY DEF AskRejected, RevokePcs
<1>2. /\ n \in Ops /\ n.pc \in RevokePcs /\ n.intent = op[c].intent /\ n.pair = op[c].pair
      /\ n.receipt = op[c].receipt /\ n.asked = op[c].asked /\ n.verdict = "already-rejected"
  BY Known DEF Ops, Pcs, RevokePcs, Verdicts
<1> HIDE DEF n
<1>3. op'[c] = n
  BY <1>1, Known
<1>4. Quiet
  BY <1>1, Known DEF Quiet
<1>5. Revoking(c)'
  BY <1>1, <1>2, <1>3, UnderRevoke, Nulls DEF Revoking, hostVars
<1> QED
  BY <1>1, <1>2, <1>4, <1>5, UnderRevoke, RevokeQuiet

LEMMA AnsweredInv ==
  ASSUME Inv, NEW c \in Procs, Answered(c)
  PROVE  Inv'
<1> DEFINE n == [op[c] EXCEPT !.pc = "publish", !.verdict = "revoked"]
<1>1. /\ op[c].pc \in RevokePcs /\ op' = [op EXCEPT ![c] = n] /\ op[c].pair \in revoked
      /\ UNCHANGED <<mem, creds, dirty, used, exported, dropped, told, hostVars>>
  BY DEF Answered, RevokePcs
<1>2. /\ n \in Ops /\ n.pc \in RevokePcs /\ n.intent = op[c].intent /\ n.pair = op[c].pair
      /\ n.receipt = op[c].receipt /\ n.asked = op[c].asked /\ n.verdict = "revoked"
  BY Known DEF Ops, Pcs, RevokePcs, Verdicts
<1> HIDE DEF n
<1>3. op'[c] = n
  BY <1>1, Known
<1>4. Quiet
  BY <1>1, Known DEF Quiet
<1>5. Revoking(c)'
  BY <1>1, <1>2, <1>3, UnderRevoke, Nulls DEF Revoking, hostVars
<1> QED
  BY <1>1, <1>2, <1>4, <1>5, UnderRevoke, RevokeQuiet

LEMMA RevocationReadInv ==
  ASSUME Inv, NEW c \in Procs, RevocationRead(c)
  PROVE  Inv'
<1> DEFINE n == [op[c] EXCEPT !.pc = "probe", !.verdict = mem.record[2]]
<1>1. /\ op[c].pc \in RevokePcs /\ op' = [op EXCEPT ![c] = n] /\ Durable({"record"})
      /\ mem.record # None /\ mem.record[1] = op[c].pair
      /\ UNCHANGED <<mem, creds, used, exported, dropped, told, hostVars>>
  BY DEF RevocationRead, RevokePcs
<1>2. mem.record[2] \in Verdicts
  BY <1>1, Known DEF Mem
<1>3. /\ n \in Ops /\ n.pc \in RevokePcs /\ n.intent = op[c].intent /\ n.pair = op[c].pair
      /\ n.receipt = op[c].receipt /\ n.asked = op[c].asked /\ n.verdict = mem.record[2]
  BY <1>2, Known DEF Ops, Pcs, RevokePcs
<1> HIDE DEF n
<1>4. op'[c] = n
  BY <1>1, Known
<1>5. Quiet
  BY <1>1, Known, DurableEffect DEF Quiet, Files
<1>6. n.verdict = "revoked" => op[c].pair \in revoked
  BY <1>1, <1>3, Known DEF Facts, Confirmed
<1>7. Revoking(c)'
  BY <1>1, <1>3, <1>4, <1>6, UnderRevoke, Nulls DEF Revoking, hostVars
<1> QED
  BY <1>1, <1>3, <1>5, <1>7, UnderRevoke, RevokeQuiet

LEMMA ProbeRejectedInv ==
  ASSUME Inv, NEW c \in Procs, ProbeRejected(c)
  PROVE  Inv'
<1> DEFINE n == [op[c] EXCEPT !.pc = "target"]
<1>1. /\ op[c].pc \in RevokePcs /\ Goto(c, "target")
      /\ dropped' = dropped \cup {op[c].pair}
      /\ UNCHANGED <<mem, creds, dirty, used, exported, told, hostVars>>
  BY DEF ProbeRejected, RevokePcs
<1>2. /\ op' \in [Procs -> Ops] /\ op'[c].pc = "target" /\ op'[c].intent = op[c].intent
      /\ op'[c].receipt = op[c].receipt /\ op'[c].pair = op[c].pair
      /\ op'[c].asked = op[c].asked /\ op'[c].verdict = op[c].verdict
      /\ \A d \in Procs : d # c => op'[d] = op[d]
  BY <1>1, Known, GotoEffect DEF Pcs, ForgetPcs
<1>3. Quiet
  BY <1>1, Known, UnderRevoke DEF Quiet
<1>4. \A i \in exported : i.pair \in dropped'
  BY <1>1, Known, UnderRevoke DEF Facts, RequestKept
<1>5. Forgetting(c)'
  BY <1>1, <1>2, <1>4, UnderRevoke, Nulls DEF Forgetting, ForgetPcs, RevokePcs
<1>6. Revoking(c)'
  BY <1>1, <1>2, UnderRevoke DEF Revoking, ForgetPcs, RevokePcs, hostVars
<1>7. Knows(c)' /\ Read(c)'
  BY <1>2, <1>5, <1>6 DEF Knows, Preparing, Completing, CompletePcs, RevokePcs, Read
<1> QED
  BY <1>1, <1>2, <1>3, <1>7, UnderRevoke, QuietRemoval

LEMMA PublishRevocationInv ==
  ASSUME Inv, NEW c \in Procs, PublishRevocation(c)
  PROVE  Inv'
<1> DEFINE v == <<op[c].pair, op[c].verdict>>
<1>1. /\ op[c].pc \in RevokePcs /\ Goto(c, "recordread") /\ Link("record", v)
      /\ UNCHANGED <<creds, used, exported, dropped, told, hostVars>>
  BY DEF PublishRevocation, RevokePcs
<1>2. v \in {<<p, w>> : p \in Pairs, w \in Verdicts}
  BY <1>1, UnderRevoke
<1>3. mem' \in Mem
  BY <1>1, <1>2, Known DEF Link, Mem
<1>4. CASE mem.record # None
  <2>1. mem' = mem /\ dirty' = dirty
    BY <1>1, <1>4 DEF Link
  <2>2. Facts'
    BY <1>1, <2>1, QuietFacts DEF hostVars
  <2>3. Quiet
    BY <1>1, <2>1, Known DEF Quiet
  <2> DEFINE n == [op[c] EXCEPT !.pc = "recordread"]
  <2>4. op' = [op EXCEPT ![c] = n]
    BY <1>1 DEF Goto
  <2>5. /\ n \in Ops /\ n.pc \in RevokePcs /\ n.intent = op[c].intent /\ n.pair = op[c].pair
        /\ n.receipt = op[c].receipt /\ n.asked = op[c].asked /\ n.verdict = op[c].verdict
    BY Known DEF Ops, Pcs, RevokePcs
  <2> HIDE DEF n
  <2>6. op'[c] = n
    BY <2>4, Known
  <2>7. Revoking(c)'
    BY <1>1, <2>1, <2>5, <2>6, UnderRevoke, Nulls DEF Revoking, hostVars
  <2> QED
    BY <1>1, <2>3, <2>4, <2>5, <2>7, UnderRevoke, RevokeQuiet
<1>5. CASE mem.record = None
  <2>1. /\ mem'.record = v /\ dirty' = dirty \cup {"record"}
        /\ \A g \in Files : g # "record" => mem'[g] = mem[g]
    BY <1>1, <1>5, Known DEF Link, Mem, Files
  <2>2. v[1] = op[c].pair /\ v[2] = op[c].verdict
    OBVIOUS
  <2> HIDE DEF v
  <2>3. Backed' /\ KeysNamed'
    BY <1>1, <2>1, Known DEF Facts, Backed, KeysNamed, Files
  <2>4. \A k \in Keys : k \in dirty' => k \in dirty
    BY <2>1, Nulls DEF Files
  <2>5. Confirmed'
    BY <1>1, <2>1, <2>2, <2>4, UnderRevoke, Known, Nulls DEF Facts, Confirmed, Files, hostVars
  <2>6. RequestKept'
    BY <1>1, <2>1, <2>4, Known, Nulls DEF Facts, RequestKept, Files
  <2>7. /\ op' \in [Procs -> Ops] /\ op'[c].pc = "recordread" /\ op'[c].intent = op[c].intent
        /\ op'[c].receipt = op[c].receipt /\ op'[c].pair = op[c].pair
        /\ op'[c].asked = op[c].asked /\ op'[c].verdict = op[c].verdict
        /\ \A d \in Procs : d # c => op'[d] = op[d]
    BY <1>1, Known, GotoEffect DEF Pcs, RevokePcs
  <2>8. Forgetting(c)' /\ Revoking(c)'
    BY <1>1, <2>1, <2>7, UnderRevoke, Nulls
       DEF Forgetting, Revoking, ForgetPcs, RevokePcs, Files, hostVars
  <2>9. Knows(c)' /\ Read(c)'
    BY <1>1, <2>7, <2>8, UnderRevoke
       DEF Knows, Preparing, Completing, CompletePcs, RevokePcs, Read
  <2>10. Alone' /\ \A d \in Procs : Knows(d)'
    BY <1>1, <2>7, <2>9, UnderRevoke, RemovalStep
  <2>11. \A d \in Procs : Read(d)'
    BY <2>7, <2>9, Known DEF Read
  <2>12. Typed'
    BY <1>1, <1>3, <2>1, <2>7, <2>11, Known DEF Inv, Typed, TypeOK, hostVars, Files
  <2> QED
    BY <2>3, <2>5, <2>6, <2>10, <2>12 DEF Inv, Facts
<1> QED
  BY <1>4, <1>5

-----------------------------------------------------------------------------
(* Forget. *)

LEMMA ForgetBeginInv ==
  ASSUME Inv, NoOverlap, NEW c \in Procs, NEW keep \in BOOLEAN, ForgetBegin(c, keep)
  PROVE  Inv'
<1> DEFINE receipt == ReceiptRead
           pair == PairRead
           verdict == VerdictRead
           n == [Idle EXCEPT !.pc = "target", !.intent = mem.intent,
                             !.receipt = receipt, !.pair = pair, !.verdict = verdict]
<1>1. /\ \A d \in Procs : op[d].pc = "idle"
      /\ op' = [op EXCEPT ![c] = n] /\ dropped' = dropped \cup ({pair} \ {None})
      /\ Durable(IF ReadsPairDir THEN {"intent"} ELSE {})
      /\ UNCHANGED <<mem, creds, used, exported, told, hostVars>>
  BY AloneBegins DEF ForgetBegin
<1>2. /\ receipt \in {None, mem.receipt} /\ receipt \in Intents \cup {None}
      /\ receipt = None => mem.intent = None \/ mem.receipt = None
  BY Known DEF ReceiptRead
<1>3. pair \in Pairs \cup {None} /\ (mem.intent # None => pair = mem.intent.pair)
  BY Known, Nulls DEF PairRead
<1>4. verdict \in Verdicts
  BY Known DEF VerdictRead, Mem, Verdicts
<1>5. receipt = None => mem.target \notin Intents
  BY <1>2, NoIntentYet, Known, Nulls DEF Facts, Confirmed
<1>6. \A i \in exported : i.pair \in dropped'
  BY <1>1, <1>3, Known, Nulls DEF Facts, RequestKept
<1> HIDE DEF receipt, pair, verdict
<1>7. /\ n \in Ops /\ n.pc = "target" /\ n.intent = mem.intent /\ n.receipt = receipt
      /\ n.pair = pair /\ n.asked = FALSE /\ n.verdict = verdict
  BY <1>2, <1>3, <1>4, Known DEF Ops, Pcs, ForgetPcs, Idle
<1> HIDE DEF n
<1>8. op' \in [Procs -> Ops] /\ op'[c] = n /\ \A d \in Procs : d # c => op'[d] = op[d]
  BY <1>1, <1>7, Known, SetEffect
<1>9. Quiet
  BY <1>1, <1>3, Known, DurableEffect DEF Quiet, Files
<1>10. Forgetting(c)'
  BY <1>1, <1>2, <1>5, <1>6, <1>7, <1>8 DEF Forgetting, ForgetPcs, RevokePcs
<1>11. Knows(c)' /\ Read(c)'
  BY <1>7, <1>8, <1>10
     DEF Knows, Preparing, Completing, Revoking, CompletePcs, RevokePcs, Read
<1> QED
  BY <1>1, <1>8, <1>9, <1>11, QuietRemoval

\* What a removal that is under way knows.
LEMMA UnderForget ==
  ASSUME Inv, NEW c \in Procs, op[c].pc \in ForgetPcs
  PROVE  /\ \A d \in Procs : d # c => op[d].pc = "idle"
         /\ \A i \in exported : i.pair \in dropped
         /\ (op[c].asked /\ op[c].verdict = "revoked" => op[c].pair \in revoked)
         /\ Forgetting(c)
<1>1. \A d \in Procs : d # c => op[d].pc = "idle"
  BY RemoverAlone DEF Removing
<1> QED
  BY <1>1, Known DEF Knows, Forgetting, Revoking

\* A step of a removal from one file to the next.
LEMMA ForgetGoto ==
  ASSUME Inv, NEW c \in Procs, NEW pc \in ForgetPcs, Goto(c, pc), op[c].pc \in ForgetPcs,
         mem' \in Mem, creds' \subseteq creds, dirty' \subseteq dirty,
         UNCHANGED <<used, exported, dropped, told, hostVars>>,
         pc = "cred" => op[c].intent # None,
         Backed', Confirmed', KeysNamed', Forgetting(c)'
  PROVE  Inv'
<1>1. /\ op' \in [Procs -> Ops] /\ op'[c].pc = pc /\ op'[c].intent = op[c].intent
      /\ op'[c].receipt = op[c].receipt /\ op'[c].pair = op[c].pair
      /\ op'[c].asked = op[c].asked /\ op'[c].verdict = op[c].verdict
      /\ \A d \in Procs : d # c => op'[d] = op[d]
  BY Known, GotoEffect DEF Pcs
<1>2. RequestKept'
  BY UnderForget DEF RequestKept
<1>3. Knows(c)' /\ Read(c)'
  BY <1>1, UnderForget DEF Knows, Preparing, Completing, Revoking, Read,
     ForgetPcs, CompletePcs, RevokePcs, hostVars
<1>4. Alone' /\ \A d \in Procs : Knows(d)'
  BY <1>1, <1>3, UnderForget, RemovalStep
<1>5. \A d \in Procs : Read(d)'
  BY <1>1, <1>3, Known DEF Read
<1>6. Typed'
  BY <1>1, <1>5 DEF Inv, Typed, TypeOK, hostVars
<1> QED
  BY <1>2, <1>4, <1>6 DEF Inv, Facts

LEMMA ForgetTargetInv ==
  ASSUME Inv, NEW c \in Procs, ForgetTarget(c)
  PROVE  Inv'
<1>1. /\ op[c].pc = "target" /\ Goto(c, "receipt")
      /\ UNCHANGED <<creds, used, exported, dropped, told, hostVars>>
  BY DEF ForgetTarget
<1>2. /\ op[c].receipt \in {None, mem.receipt} /\ mem.intent = op[c].intent
      /\ (op[c].receipt = None => mem.target \notin Intents)
  BY <1>1, UnderForget DEF Forgetting, ForgetPcs
<1>3. op'[c].pc = "receipt" /\ op'[c].intent = op[c].intent
  BY <1>1, Known, GotoEffect DEF Pcs, ForgetPcs
<1>4. CASE op[c].receipt # None /\ mem.target = op[c].receipt
  <2>1. /\ mem' \in Mem /\ mem'.target = None /\ dirty' = dirty \ {"target"}
        /\ \A g \in Files : g # "target" => mem'[g] = mem[g]
    BY <1>4, Known, RemoveEffect DEF ForgetTarget, Files
  <2>2. Backed' /\ KeysNamed'
    BY <1>1, <2>1, Known DEF Facts, Backed, KeysNamed, Files
  <2>3. Confirmed'
    BY <1>1, <2>1, Known, IntentNulls DEF Facts, Confirmed, Files, hostVars
  <2>4. Forgetting(c)'
    BY <1>1, <1>2, <1>3, <2>1, UnderForget, IntentNulls
       DEF Forgetting, ForgetPcs, RevokePcs, Files
  <2> QED
    BY <1>1, <2>1, <2>2, <2>3, <2>4, ForgetGoto DEF ForgetPcs
<1>5. CASE ~(op[c].receipt # None /\ mem.target = op[c].receipt)
  <2>1. mem' = mem /\ dirty' \subseteq dirty
    BY <1>5, Known, DurableEffect DEF ForgetTarget, Files
  <2>2. Backed' /\ Confirmed' /\ KeysNamed'
    BY <1>1, <2>1, QuietFacts DEF Facts, hostVars
  <2>3. mem.target \notin Intents
    BY <1>2, <1>5, Known DEF Facts, Confirmed
  <2>4. Forgetting(c)'
    BY <1>1, <1>2, <1>3, <2>1, <2>3, UnderForget DEF Forgetting, ForgetPcs, RevokePcs
  <2> QED
    BY <1>1, <2>1, <2>2, <2>4, ForgetGoto, Known DEF ForgetPcs
<1> QED
  BY <1>4, <1>5

LEMMA ForgetReceiptInv ==
  ASSUME Inv, NEW c \in Procs, ForgetReceipt(c)
  PROVE  Inv'
<1> DEFINE next == IF op[c].intent = None THEN "intent" ELSE "cred"
<1>1. /\ op[c].pc = "receipt" /\ Goto(c, next) /\ Remove("receipt")
      /\ UNCHANGED <<creds, used, exported, dropped, told, hostVars>>
  BY DEF ForgetReceipt
<1>2. mem.target \notin Intents /\ mem.intent = op[c].intent
  BY <1>1, UnderForget DEF Forgetting, ForgetPcs
<1>3. next \in ForgetPcs /\ (next = "cred" => op[c].intent # None)
      /\ (next # "cred" => next = "intent" /\ op[c].intent = None)
  BY DEF ForgetPcs
<1> HIDE DEF next
<1>4. op'[c].pc = next /\ op'[c].intent = op[c].intent
  BY <1>1, <1>3, Known, GotoEffect DEF Pcs
<1>5. /\ mem' \in Mem /\ mem'.receipt = None /\ dirty' = dirty \ {"receipt"}
      /\ \A g \in Files : g # "receipt" => mem'[g] = mem[g]
  BY <1>1, Known, RemoveEffect DEF Files
<1>6. Backed' /\ KeysNamed'
  BY <1>1, <1>5, Known DEF Facts, Backed, KeysNamed, Files
<1>7. Confirmed'
  BY <1>1, <1>2, <1>5, Known DEF Facts, Confirmed, Files, hostVars
<1>8. next # "cred" => creds = {}
  BY <1>2, <1>3, NoIntentYet
<1>9. Forgetting(c)'
  BY <1>1, <1>2, <1>3, <1>4, <1>5, <1>8, UnderForget
     DEF Forgetting, ForgetPcs, RevokePcs, Files
<1> QED
  BY <1>1, <1>3, <1>5, <1>6, <1>7, <1>9, ForgetGoto DEF ForgetPcs

LEMMA ForgetCredentialInv ==
  ASSUME Inv, NEW c \in Procs, ForgetCredential(c)
  PROVE  Inv'
<1>1. /\ op[c].pc = "cred" /\ Goto(c, "intent")
      /\ creds' = creds \ {op[c].intent.key} /\ dirty' \subseteq dirty
      /\ UNCHANGED <<mem, used, exported, dropped, told, hostVars>>
  BY DEF ForgetCredential
<1>2. mem.target \notin Intents /\ mem.intent = op[c].intent
  BY <1>1, UnderForget DEF Forgetting, ForgetPcs
<1>3. creds' = {}
  BY <1>1, <1>2, Known DEF Facts, KeysNamed
<1>4. op'[c].pc = "intent"
  BY <1>1, Known, GotoEffect DEF Pcs, ForgetPcs
<1>5. Backed' /\ KeysNamed'
  BY <1>1, <1>3, Known DEF Facts, Backed, KeysNamed
<1>6. Confirmed'
  BY <1>1, <1>2, Known DEF Facts, Confirmed, hostVars
<1>7. Forgetting(c)'
  BY <1>1, <1>2, <1>3, <1>4, UnderForget DEF Forgetting, ForgetPcs, RevokePcs
<1> QED
  BY <1>1, <1>5, <1>6, <1>7, ForgetGoto, Known DEF ForgetPcs

\* The last files, which go when no credential is left.
LEMMA ForgetFile ==
  ASSUME Inv, NEW c \in Procs, NEW f \in {"intent", "prep", "seed"},
         NEW pc \in {"prep", "unseed", "record"}, Remove(f), Goto(c, pc),
         op[c].pc \in {"intent", "prep", "unseed"},
         f = "intent" \/ op[c].pc \in {"prep", "unseed"},
         UNCHANGED <<creds, used, exported, dropped, told, hostVars>>
  PROVE  Inv'
<1>1. /\ mem.target \notin Intents /\ creds = {}
      /\ op[c].pc \in {"prep", "unseed"} => mem.intent = None
  BY UnderForget DEF Forgetting, ForgetPcs
<1>2. op'[c].pc = pc
  BY Known, GotoEffect DEF Pcs, ForgetPcs
<1>3. /\ mem' \in Mem /\ mem'[f] = None /\ dirty' = dirty \ {f}
      /\ \A g \in Files : g # f => mem'[g] = mem[g]
  BY Known, RemoveEffect DEF Files
<1>4. mem'.intent = None
  BY <1>1, <1>3 DEF Files
<1>5. Backed' /\ KeysNamed'
  BY <1>1, <1>4 DEF Backed, KeysNamed
<1>6. Confirmed'
  BY <1>1, <1>3, Known DEF Facts, Confirmed, Files, hostVars
<1>7. Forgetting(c)'
  BY <1>1, <1>2, <1>3, <1>4, UnderForget DEF Forgetting, ForgetPcs, RevokePcs, Files
<1> QED
  BY <1>3, <1>5, <1>6, <1>7, ForgetGoto DEF ForgetPcs

LEMMA ForgetReturnInv ==
  ASSUME Inv, NEW c \in Procs, ForgetReturn(c)
  PROVE  Inv'
<1>1. /\ op[c].pc = "record" /\ Remove("record") /\ Return(c)
      /\ UNCHANGED <<creds, used, exported, dropped, hostVars>>
  BY DEF ForgetReturn
<1>2. /\ mem.target \notin Intents /\ creds = {} /\ mem.intent = None
      /\ op[c] \in Ops /\ (op[c].asked /\ op[c].verdict = "revoked" => op[c].pair \in revoked)
  BY <1>1, Known, UnderForget DEF Forgetting, ForgetPcs
<1>3. /\ mem' \in Mem /\ mem'.record = None /\ dirty' = dirty \ {"record"}
      /\ \A g \in Files : g # "record" => mem'[g] = mem[g]
  BY <1>1, Known, RemoveEffect DEF Files
<1>4. op' \in [Procs -> Ops] /\ op'[c].pc = "idle" /\ \A d \in Procs : d # c => op'[d] = op[d]
  BY <1>1, Known, ReturnEffect
<1>5. told' \in {None} \cup Words
  <2>1. Outcome(c) \in Outcomes /\ RemoteAccess(c) \in Accesses
    BY DEF Outcome, Outcomes, RemoteAccess, Accesses
  <2>2. CASE told' = told
    BY <2>2 DEF Inv, Typed, TypeOK
  <2>3. CASE op[c].pair # None /\ told' = <<op[c].pair, "revoke", Outcome(c)>>
    BY <1>2, <2>1, <2>3 DEF Ops, Words
  <2>4. CASE op[c].pair # None /\ told' = <<op[c].pair, "forget", RemoteAccess(c)>>
    BY <1>2, <2>1, <2>4 DEF Ops, Words
  <2> QED
    BY <2>2, <2>3, <2>4 DEF ForgetReturn
<1>6. \A p \in Pairs : told' = <<p, "revoke", "revoked">> => p \in revoked
  <2> SUFFICES ASSUME NEW p \in Pairs, told' = <<p, "revoke", "revoked">> PROVE p \in revoked
    OBVIOUS
  <2>1. CASE told' = told
    BY <2>1, Known DEF Facts, Confirmed
  <2>2. CASE op[c].asked /\ told' = <<op[c].pair, "revoke", Outcome(c)>>
    <3>1. p = op[c].pair /\ Outcome(c) = "revoked"
      BY <2>2
    <3> QED
      BY <1>2, <2>2, <3>1 DEF Outcome
  <2>3. CASE told' = <<op[c].pair, "forget", RemoteAccess(c)>>
    BY <2>3
  <2> QED
    BY <2>1, <2>2, <2>3 DEF ForgetReturn
<1>7. Backed' /\ KeysNamed'
  BY <1>1, <1>2, <1>3 DEF Backed, KeysNamed, Files
<1>8. Confirmed'
  BY <1>1, <1>2, <1>3, <1>6, Known DEF Facts, Confirmed, Files, hostVars
<1>9. RequestKept'
  BY <1>1, UnderForget DEF RequestKept, ForgetPcs
<1>10. Knows(c)' /\ Read(c)'
  BY <1>4 DEF Knows, Preparing, Completing, Revoking, Forgetting, Read,
     RevokePcs, ForgetPcs, CompletePcs
<1>11. Alone' /\ \A d \in Procs : Knows(d)'
  BY <1>1, <1>4, <1>10, UnderForget, RemovalStep DEF ForgetPcs
<1>12. \A d \in Procs : Read(d)'
  BY <1>4, <1>10, Known DEF Read
<1>13. Typed'
  BY <1>1, <1>3, <1>4, <1>5, <1>12, Known DEF Inv, Typed, TypeOK, hostVars
<1> QED
  BY <1>7, <1>8, <1>9, <1>11, <1>13 DEF Inv, Facts

-----------------------------------------------------------------------------
(* Everything else. *)

LEMMA AbortInv ==
  ASSUME Inv, NEW c \in Procs, Abort(c)
  PROVE  Inv'
<1>1. /\ op[c].pc # "idle" /\ Return(c)
      /\ UNCHANGED <<mem, creds, dirty, used, exported, dropped, told, hostVars>>
  BY DEF Abort
<1>2. Facts' /\ Keeps
  BY <1>1, QuietFacts DEF hostVars
<1>3. CASE ~Removing(c)
  BY <1>1, <1>2, <1>3, ReturnFree, Known
<1>4. CASE Removing(c)
  <2>1. op' \in [Procs -> Ops] /\ op'[c].pc = "idle" /\ \A d \in Procs : d # c => op'[d] = op[d]
    BY <1>1, Known, ReturnEffect
  <2>2. Knows(c)' /\ Read(c)'
    BY <2>1 DEF Knows, Preparing, Completing, Revoking, Forgetting, Read,
       RevokePcs, ForgetPcs, CompletePcs
  <2>3. Quiet
    BY <1>1, Known DEF Quiet
  <2> QED
    BY <1>4, <2>1, <2>2, <2>3, RemoverAlone, QuietRemoval
<1> QED
  BY <1>3, <1>4

LEMMA PowerLossInv ==
  ASSUME Inv, PowerLoss
  PROVE  Inv'
<1>1. PICK lost \in SUBSET dirty :
        /\ mem' = [f \in Files |-> IF f \in lost THEN None ELSE mem[f]]
        /\ creds' = creds \ lost
  BY DEF PowerLoss
<1>2. /\ dirty' = {} /\ op' = [c \in Procs |-> Idle]
      /\ UNCHANGED <<used, exported, dropped, told, hostVars>>
  BY DEF PowerLoss
<1>3. /\ mem \in Mem /\ op \in [Procs -> Ops] /\ creds \subseteq Keys /\ Facts
      /\ mem.intent \in Intents \cup {None} /\ exported \subseteq Intents
  BY DEF Inv, Typed, TypeOK, Mem
<1>4. mem' \in Mem
  BY <1>1, <1>3 DEF Mem, Files
<1>5. \A f \in Files : mem'[f] = (IF f \in lost THEN None ELSE mem[f])
  BY <1>1
<1>6. \A c \in Procs : op'[c] = Idle
  BY <1>2
<1>7. op' \in [Procs -> Ops] /\ \A c \in Procs : op'[c].pc = "idle"
  BY <1>2, IdleTyped
<1>8. \A c \in Procs : Knows(c)' /\ Read(c)' /\ ~Removing(c)'
  BY <1>7 DEF Knows, Preparing, Completing, Revoking, Forgetting, Read, Removing,
     RevokePcs, ForgetPcs, CompletePcs
<1>9. Alone'
  BY <1>8 DEF Alone
<1>10. Backed' /\ KeysNamed'
  BY <1>1, <1>2, <1>3, <1>5 DEF Facts, Backed, KeysNamed, Files
<1>11. Confirmed'
  BY <1>1, <1>2, <1>3, <1>5, IntentNulls DEF Facts, Confirmed, Files, hostVars
<1>12. RequestKept'
  BY <1>1, <1>2, <1>3, <1>5 DEF Facts, RequestKept, Files
<1>13. Typed'
  BY <1>1, <1>2, <1>4, <1>7, <1>8 DEF Inv, Typed, TypeOK, hostVars
<1> QED
  BY <1>8, <1>9, <1>10, <1>11, <1>12, <1>13 DEF Inv, Facts

\* Another command of the name saves or drops a target: neither is one of a receipt.
LEMMA TargetStep ==
  ASSUME Inv, mem' \in Mem, mem'.target \in {None, OtherTarget}, dirty' = dirty \ {"target"},
         \A g \in Files : g # "target" => mem'[g] = mem[g],
         UNCHANGED <<creds, op, used, exported, dropped, told, hostVars>>
  PROVE  Inv'
<1>1. mem'.target \notin Intents /\ Facts
  BY IntentNulls DEF Inv
<1>2. Backed' /\ KeysNamed'
  BY <1>1 DEF Facts, Backed, KeysNamed, Files
<1>3. Confirmed'
  BY <1>1 DEF Facts, Confirmed, Files, hostVars
<1>4. RequestKept'
  BY <1>1 DEF Facts, RequestKept, Files
<1>5. ASSUME NEW c \in Procs PROVE Knows(c)' /\ Read(c)'
  <2>1. Knows(c) /\ Read(c)
    BY Known
  <2>2. Preparing(c)'
    BY <2>1 DEF Knows, Preparing, Files
  <2>3. Completing(c)'
    BY <2>1 DEF Knows, Completing, Files, hostVars
  <2>4. Revoking(c)'
    BY <2>1 DEF Knows, Revoking, Files, hostVars
  <2>5. Forgetting(c)'
    BY <1>1, <2>1 DEF Knows, Forgetting, Files
  <2> QED
    BY <2>1, <2>2, <2>3, <2>4, <2>5 DEF Knows, Read
<1>6. Alone'
  BY DEF Inv, Alone, Removing
<1>7. Typed'
  BY <1>5 DEF Inv, Typed, TypeOK, hostVars
<1> QED
  BY <1>2, <1>3, <1>4, <1>5, <1>6, <1>7 DEF Inv, Facts

LEMMA ImportTargetInv ==
  ASSUME Inv, ImportTarget
  PROVE  Inv'
<1>1. mem \in Mem
  BY DEF Inv, Typed, TypeOK
<1>2. mem' \in Mem /\ mem'.target = OtherTarget /\ \A g \in Files : g # "target" => mem'[g] = mem[g]
  BY <1>1 DEF ImportTarget, Mem, Files
<1> QED
  BY <1>2, TargetStep DEF ImportTarget

LEMMA DropTargetInv ==
  ASSUME Inv, DropTarget
  PROVE  Inv'
<1>1. mem \in Mem /\ dirty \subseteq Files \cup Keys
  BY DEF Inv, Typed, TypeOK
<1>2. /\ mem' \in Mem /\ mem'.target = None /\ dirty' = dirty \ {"target"}
      /\ \A g \in Files : g # "target" => mem'[g] = mem[g]
  BY <1>1, RemoveEffect DEF DropTarget, Files
<1> QED
  BY <1>2, TargetStep DEF DropTarget

\* The host only adds to what it has issued and reported.
LEMMA HostEffect ==
  ASSUME HostStep, issued \subseteq Intents
  PROVE  issued \subseteq issued' /\ issued' \subseteq Intents /\ revoked \subseteq revoked'
BY DEF HostStep, Host!Record, Host!Issue, Host!Admit, Host!Bury, Host!Remove, Host!Report

LEMMA HostStepInv ==
  ASSUME Inv, HostStep
  PROVE  Inv'
<1>1. UNCHANGED clientVars
  BY DEF HostStep
<1>2. issued \subseteq issued' /\ issued' \subseteq Intents /\ revoked \subseteq revoked'
  BY HostEffect DEF Inv, Typed
<1>3. Facts'
  BY <1>1, <1>2, QuietFacts DEF clientVars
<1>4. ASSUME NEW c \in Procs PROVE Knows(c)'
  <2>1. Knows(c)
    BY Known
  <2>2. Preparing(c)' /\ Forgetting(c)'
    BY <1>1, <2>1 DEF Knows, Preparing, Forgetting, clientVars
  <2>3. Completing(c)' /\ Revoking(c)'
    BY <1>1, <1>2, <2>1 DEF Knows, Completing, Revoking, clientVars
  <2> QED
    BY <2>2, <2>3 DEF Knows
<1>5. Alone'
  BY <1>1 DEF Inv, Alone, Removing, clientVars
<1>6. Typed'
  BY <1>1, <1>2 DEF Inv, Typed, TypeOK, Read, clientVars
<1> QED
  BY <1>3, <1>4, <1>5, <1>6 DEF Inv

LEMMA StutterInv ==
  ASSUME Inv, UNCHANGED vars
  PROVE  Inv'
<1>1. UNCHANGED clientVars /\ issued' = issued /\ revoked' = revoked
  BY DEF vars, hostVars
<1>2. Facts'
  BY <1>1, QuietFacts DEF clientVars
<1>3. ASSUME NEW c \in Procs PROVE Knows(c)'
  BY <1>1, Known DEF Knows, Preparing, Completing, Revoking, Forgetting, clientVars
<1>4. Alone'
  BY <1>1 DEF Inv, Alone, Removing, clientVars
<1>5. Typed'
  BY <1>1 DEF Inv, Typed, TypeOK, Read, clientVars
<1> QED
  BY <1>2, <1>3, <1>4, <1>5 DEF Inv

LEMMA InitInv ==
  ASSUME Init
  PROVE  Inv
<1>1. /\ mem = NoFiles /\ creds = {} /\ dirty = {} /\ op = [c \in Procs |-> Idle]
      /\ used = {} /\ exported = {} /\ dropped = {} /\ told = None
      /\ issued = {} /\ revoked = {}
  BY DEF Init, Host!Init
<1>2. mem \in Mem /\ \A f \in Files : mem[f] = None
  BY <1>1 DEF NoFiles, Mem, Files
<1>3. op \in [Procs -> Ops] /\ \A c \in Procs : op[c].pc = "idle"
  BY <1>1, IdleTyped
<1>4. \A c \in Procs : Knows(c) /\ Read(c) /\ ~Removing(c)
  BY <1>3, IdleKnows
<1>5. Typed /\ Alone
  BY <1>1, <1>2, <1>3, <1>4 DEF Typed, TypeOK, Alone
<1>6. Backed /\ KeysNamed /\ RequestKept
  BY <1>1, <1>2 DEF Backed, KeysNamed, RequestKept, Files
<1>7. Confirmed
  <2>1. \A p \in Pairs : told # <<p, "revoke", "revoked">>
    BY <1>1, WordNull DEF Words, Outcomes
  <2> QED
    BY <1>1, <1>2, <2>1, IntentNulls DEF Confirmed, Files
<1> QED
  BY <1>4, <1>5, <1>6, <1>7 DEF Inv, Facts

-----------------------------------------------------------------------------
(* The theorems. *)

LEMMA CommandInv ==
  ASSUME Inv, NoOverlap, NEW c \in Procs,
         Prepare(c) \/ Complete(c) \/ Revoke(c) \/ Forget(c) \/ Abort(c)
  PROVE  Inv'
<1>1. CASE Prepare(c)
  BY <1>1, PrepareBeginInv, ReserveInv, SeedInv, ReserveReadInv, PrepareReservedInv,
     SeedReadInv, PublishIntentInv, IntentReadInv, PublishCredentialInv, PrepareReturnInv
     DEF Prepare
<1>2. CASE Complete(c)
  BY <1>2, CompleteBeginInv, AcceptInv, AcceptedInv, SaveInv, SavedInv DEF Complete
<1>3. CASE Revoke(c)
  BY <1>3, RevokeBeginInv, AskInv, AskRejectedInv, AnsweredInv, PublishRevocationInv,
     RevocationReadInv, ProbeRejectedInv DEF Revoke
<1>4. CASE Forget(c)
  <2>1. CASE ForgetIntent(c)
    BY <2>1, ForgetFile DEF ForgetIntent
  <2>2. CASE ForgetPreparation(c)
    BY <2>2, ForgetFile DEF ForgetPreparation
  <2>3. CASE ForgetSeed(c)
    BY <2>3, ForgetFile DEF ForgetSeed
  <2> QED
    BY <1>4, <2>1, <2>2, <2>3, ForgetBeginInv, ForgetTargetInv, ForgetReceiptInv,
       ForgetCredentialInv, ForgetReturnInv DEF Forget
<1> QED
  BY <1>1, <1>2, <1>3, <1>4, AbortInv

\* What a command has read stays so until a removal, which is alone; what a file was
\* published on the strength of is durable; what is on file of the host it has said.
THEOREM Invariant == NoOverlap => (Spec => []Inv)
<1>1. ASSUME NoOverlap PROVE Inv /\ [Next]_vars => Inv'
  BY <1>1, CommandInv, PowerLossInv, ImportTargetInv, DropTargetInv, HostStepInv, StutterInv
     DEF Next
<1>2. Init => Inv
  BY InitInv
<1>3. ASSUME NoOverlap PROVE Spec => []Inv
  <2>1. Inv /\ [Next]_vars => Inv'
    BY <1>1, <1>3
  <2> QED
    BY <1>2, <2>1, PTL DEF Spec
<1> QED
  BY <1>3

\* A request that prepare has returned stays, with its reservation, seed and key,
\* through any crash and loss of power, until its removal begins.
THEOREM RequestsKept == NoOverlap => (Spec => []RequestKept)
<1>1. Inv => RequestKept
  BY DEF Inv, Facts
<1> QED
  BY <1>1, Invariant, PTL

\* Each published key has a durable request that names it.
THEOREM KeysAreNamed == NoOverlap => (Spec => []KeysNamed)
<1>1. Inv => KeysNamed
  BY DEF Inv, Facts
<1> QED
  BY <1>1, Invariant, PTL

\* A target saved from a receipt has that receipt, durably, and its key.
THEOREM TargetsBacked == NoOverlap => (Spec => []TargetBacked)
<1>1. Inv => TargetBacked
  BY DEF Inv, Facts, Confirmed, TargetBacked
<1> QED
  BY <1>1, Invariant, PTL

LEMMA Reports ==
  ASSUME Inv
  PROVE  ReportsTrue
<1>1. /\ mem.intent \in Intents \cup {None} /\ mem.receipt \in Intents \cup {None}
      /\ mem.target \in Intents \cup {None, OtherTarget}
      /\ mem.prep \in Reservations \cup {None} /\ Facts
  BY DEF Inv, Typed, TypeOK, Mem
<1>2. CASE mem.record # None
  <2>1. View \in {"forget-pending", "revocation-pending"}
    BY <1>2 DEF View
  <2> QED
    BY <2>1 DEF ReportsTrue, Inv, Facts, Confirmed
<1>3. CASE mem.record = None /\ mem.intent = None
  <2>1. View \in {"none", "preparation-pending"}
    BY <1>3 DEF View
  <2> QED
    BY <1>3, <2>1, NoIntentYet DEF ReportsTrue, Inv, Facts, Confirmed
<1>4. CASE mem.record = None /\ mem.intent # None /\ ~Verified
  <2>1. mem.prep # None /\ mem.seed = mem.intent.key
    BY <1>1, <1>4, Nulls DEF Facts, Backed
  <2>2. View = "preparation-pending"
    BY <1>4, <2>1 DEF View
  <2> QED
    BY <2>2 DEF ReportsTrue, Inv, Facts, Confirmed
<1>5. CASE mem.record = None /\ mem.intent # None /\ Verified /\ mem.receipt = None
  <2>1. View = "prepared-unconfirmed"
    BY <1>5 DEF View
  <2> QED
    BY <2>1 DEF ReportsTrue, Inv, Facts, Confirmed
<1>6. CASE mem.record = None /\ mem.intent # None /\ Verified /\ mem.receipt # None
  <2>1. View = CASE mem.target = None -> "enrolled-publication-pending"
                 [] mem.target = mem.receipt -> "enrolled"
                 [] OTHER -> "conflict"
    BY <1>6 DEF View
  <2>2. CASE mem.target = None
    <3>1. View = "enrolled-publication-pending"
      BY <1>1, <1>6, <2>1, <2>2
    <3> QED
      BY <3>1 DEF ReportsTrue, Inv, Facts, Confirmed
  <2>3. CASE mem.target = mem.receipt
    <3>1. View = "enrolled"
      BY <1>1, <1>6, <2>1, <2>3
    <3> QED
      BY <1>1, <1>6, <2>3, <3>1 DEF ReportsTrue, Inv, Facts, Confirmed
  <2>4. CASE mem.target # None /\ mem.target # mem.receipt
    <3>1. View = "conflict"
      BY <2>1, <2>4
    <3> QED
      BY <1>1, <2>4, <3>1 DEF ReportsTrue, Inv, Facts, Confirmed
  <2> QED
    BY <2>2, <2>3, <2>4
<1> QED
  BY <1>2, <1>3, <1>4, <1>5, <1>6

\* What status, revoke and forget report of remote access is so.
THEOREM ReportsAreTrue == NoOverlap => (Spec => []ReportsTrue)
<1> QED
  BY Reports, Invariant, PTL

=============================================================================
