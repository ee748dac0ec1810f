---------------------------- MODULE PairingClient ----------------------------
(***************************************************************************)
(* The client side of pairing (src/internal/pairing/client.go,             *)
(* preparation.go and revoke.go over sshkey, privatefile and target): the  *)
(* private files of one pairing name, and the commands that write them     *)
(* one by one - prepare, complete, revoke and forget - against a host that *)
(* does no more than PairingAccess promises.                               *)
(*                                                                         *)
(* Every file is published create-only: linked into place, then made       *)
(* durable by a sync of its directory.  There is no lock: commands of two  *)
(* processes interleave freely, a process may die anywhere, and a loss of  *)
(* power ends every process and may take back any file that is linked but  *)
(* not durable.                                                            *)
(***************************************************************************)
EXTENDS Naturals, FiniteSets

CONSTANTS
  Pairs, Keys, Offers,   \* pair IDs, public keys, offer digests
  Procs,                 \* client processes that may run at the same time
  None, OtherTarget,
  Overlap                \* other commands may overlap a revoke or a forget

ASSUME ClientNulls ==
  /\ None \notin Pairs \cup Keys \cup Offers /\ None # OtherTarget
  /\ Overlap \in BOOLEAN

\* An enrolment request; a reservation is one without a key.
Intents == [pair : Pairs, offer : Offers, key : Keys]
Reservations == [pair : Pairs, offer : Offers]
ReservationOf(i) == [pair |-> i.pair, offer |-> i.offer]
ASSUME IntentNulls == None \notin Intents \cup Reservations /\ OtherTarget \notin Intents

VARIABLES
  mem,        \* the files of the name as any process reads them
  creds,      \* the keys under credentials/
  dirty,      \* the files and keys that a loss of power may take back
  op,         \* the command each process runs
  used,       \* pair IDs and keys that random bytes have ever yielded
  exported,   \* the requests prepare has returned
  dropped,    \* pairs whose removal a command has begun
  told,       \* the last word of forget or revoke on a pair's remote access
  grant, tomb, present, stranded, issued, revoked, edits   \* the host

clientVars == <<mem, creds, dirty, op, used, exported, dropped, told>>
hostVars == <<grant, tomb, present, stranded, issued, revoked, edits>>
vars == <<clientVars, hostVars>>

Host == INSTANCE PairingAccess WITH
  NoIntent <- None, PairOf <- [i \in Intents |-> i.pair]

-----------------------------------------------------------------------------
(* Files *)

Files == {"prep", "seed", "intent", "receipt", "target", "record"}
\* The directory whose sync makes a file durable.
PairDir == {"prep", "intent", "receipt", "record"}
DirOf(f) == IF f \in PairDir THEN PairDir ELSE {f}
\* A credential's name is its fingerprint, and none of the names above.
ASSUME CredentialNames == Keys \cap Files = {}

Verdicts == {"none", "revoked", "already-rejected"}
Mem == [prep : Reservations \cup {None}, seed : Keys \cup {None},
        intent : Intents \cup {None},
        receipt : Intents \cup {None}, target : Intents \cup {None, OtherTarget},
        record : {None} \cup {<<p, v>> : p \in Pairs, v \in Verdicts}]
NoFiles == [f \in Files |-> None]

\* ReadDurable: what a file says is durable, with its directory's other files.
Durable(fs) == dirty' = dirty \ UNION {DirOf(f) : f \in fs}

\* Publish without replacement, up to the link: a file that is there stays.
Link(f, value) ==
  IF mem[f] = None
  THEN mem' = [mem EXCEPT ![f] = value] /\ dirty' = dirty \cup {f}
  ELSE UNCHANGED <<mem, dirty>>

Remove(f) == mem' = [mem EXCEPT ![f] = None] /\ dirty' = dirty \ {f}

-----------------------------------------------------------------------------
(* State *)

PreparePcs == {"reserve", "reserveread", "reserved", "seed", "seedread", "keyed",
               "intentread", "credential", "credread"}
CompletePcs == {"accept", "acceptsync", "save", "savesync"}
RevokePcs == {"ask", "asked", "publish", "recordread", "probe"}
ForgetPcs == {"target", "receipt", "cred", "intent", "prep", "unseed", "record"}
Pcs == {"idle"} \cup PreparePcs \cup CompletePcs \cup RevokePcs \cup ForgetPcs

Ops == [pc : Pcs, offer : Offers \cup {None}, res : Reservations \cup {None},
        intent : Intents \cup {None}, key : Keys \cup {None},
        receipt : Intents \cup {None}, pair : Pairs \cup {None}, verdict : Verdicts,
        asked : BOOLEAN]
Idle == [pc |-> "idle", offer |-> None, res |-> None, intent |-> None, key |-> None,
         receipt |-> None, pair |-> None, verdict |-> "none", asked |-> FALSE]
\* RevokeOutcome.State where local state is removed, and ForgetResult.RemoteAccess.
Outcomes == {"revoked", "key-rejected"}
Accesses == {"none", "unconfirmed", "not-revoked", "revoked"}
Words == Pairs \X {"revoke", "forget"} \X (Outcomes \cup Accesses)
ASSUME WordNull == None \notin Words

\* What a command has read by the time it takes a step.
Read(c) ==
  LET at(pcs) == op[c].pc \in pcs
  IN  /\ at({"reserve", "reserveread"}) => op[c].offer # None
      /\ at({"reserved", "seed", "seedread", "keyed", "intentread"}) => op[c].res # None
      /\ at({"keyed", "intentread", "credential", "credread"}) => op[c].key # None
      /\ at({"credential", "credread", "cred"}) => op[c].intent # None
      /\ at(CompletePcs) => op[c].receipt # None
      /\ at(RevokePcs) => op[c].pair # None

\* The type of every variable.
TypeOK ==
  /\ mem \in Mem /\ creds \subseteq Keys /\ dirty \subseteq Files \cup Keys
  /\ op \in [Procs -> Ops] /\ \A c \in Procs : Read(c)
  /\ used \subseteq Pairs \cup Keys
  /\ exported \subseteq Intents /\ dropped \subseteq Pairs
  /\ told \in {None} \cup Words

Init ==
  /\ mem = NoFiles /\ creds = {} /\ dirty = {}
  /\ op = [c \in Procs |-> Idle]
  /\ used = {} /\ exported = {} /\ dropped = {} /\ told = None
  /\ Host!Init

-----------------------------------------------------------------------------
(* Commands *)

Removing(c) == op[c].pc \in RevokePcs \cup ForgetPcs
Begins(c) == op[c].pc = "idle" /\ (Overlap \/ \A d \in Procs : ~Removing(d))
BeginsAlone(c) == op[c].pc = "idle" /\ (Overlap \/ \A d \in Procs : op[d].pc = "idle")

Goto(c, pc) == op' = [op EXCEPT ![c].pc = pc]
Return(c) == op' = [op EXCEPT ![c] = Idle]

-----------------------------------------------------------------------------
(* Prepare *)

\* A request on record is prepared again only from its own offer; otherwise the
\* name must be free.
PrepareBegin(c, o) ==
  /\ Begins(c)
  /\ IF mem.intent # None
     THEN /\ mem.intent.offer = o /\ mem.prep # None
          /\ op' = [op EXCEPT ![c] = [Idle EXCEPT !.pc = "reserved", !.res = mem.prep]]
          /\ Durable({"intent"})
     ELSE /\ mem.target = None
          /\ op' = [op EXCEPT ![c] = [Idle EXCEPT !.pc = "reserve", !.offer = o]]
          /\ UNCHANGED dirty
  /\ UNCHANGED <<mem, creds, used, exported, dropped, told, hostVars>>

\* reserve: a fresh pair ID is linked, unless another process was first.
Reserve(c, p) ==
  /\ op[c].pc = "reserve" /\ p \notin used
  /\ Link("prep", [pair |-> p, offer |-> op[c].offer])
  /\ used' = IF mem.prep = None THEN used \cup {p} ELSE used
  /\ Goto(c, "reserveread")
  /\ UNCHANGED <<creds, exported, dropped, told, hostVars>>

\* The winner is read back, durably, and must be for the same offer.
ReserveRead(c) ==
  /\ op[c].pc \in {"reserve", "reserveread"} /\ mem.prep # None /\ mem.prep.offer = op[c].offer
  /\ op' = [op EXCEPT ![c].pc = "reserved", ![c].res = mem.prep, ![c].offer = None]
  /\ Durable({"prep"})
  /\ UNCHANGED <<mem, creds, used, exported, dropped, told, hostVars>>

\* A request already on record must carry the reserved identity.
PrepareReserved(c) ==
  /\ op[c].pc = "reserved"
  /\ mem.intent # None => ReservationOf(mem.intent) = op[c].res
  /\ op' = [op EXCEPT ![c].pc = "seed", ![c].intent = mem.intent]
  /\ Durable(IF mem.intent = None THEN {} ELSE {"intent"})
  /\ UNCHANGED <<mem, creds, used, exported, dropped, told, hostVars>>

\* sshkey.Reserved: the seed on record, or, while no request names a key, a new one.
Seed(c, k) ==
  /\ op[c].pc = "seed" /\ k \notin used
  /\ mem.seed = None => op[c].intent = None
  /\ Link("seed", k)
  /\ used' = IF mem.seed = None THEN used \cup {k} ELSE used
  /\ Goto(c, "seedread")
  /\ UNCHANGED <<creds, exported, dropped, told, hostVars>>

\* The durable read of the winning seed, and the key it yields.
SeedRead(c) ==
  /\ op[c].pc \in {"seed", "seedread"} /\ mem.seed # None
  /\ op[c].intent # None => op[c].intent.key = mem.seed
  /\ op' = [op EXCEPT ![c].pc = "keyed", ![c].key = mem.seed]
  /\ Durable({"seed", "prep"})
  /\ UNCHANGED <<mem, creds, used, exported, dropped, told, hostVars>>

Expected(c) == [pair |-> op[c].res.pair, offer |-> op[c].res.offer, key |-> op[c].key]

PublishIntent(c) ==
  /\ op[c].pc = "keyed"
  /\ Link("intent", Expected(c))
  /\ Goto(c, "intentread")
  /\ UNCHANGED <<creds, used, exported, dropped, told, hostVars>>

\* Mutant: the request is read back without making it durable.
IntentReadOnly(c) ==
  /\ op[c].pc = "intentread" /\ mem.intent = Expected(c)
  /\ op' = [op EXCEPT ![c].pc = "credential", ![c].intent = mem.intent]
  /\ UNCHANGED <<mem, creds, dirty, used, exported, dropped, told, hostVars>>

IntentRead(c) ==
  /\ op[c].pc = "intentread" /\ mem.intent = Expected(c)
  /\ op' = [op EXCEPT ![c].pc = "credential", ![c].intent = mem.intent, ![c].res = None]
  /\ Durable({"intent"})
  /\ UNCHANGED <<mem, creds, used, exported, dropped, told, hostVars>>

\* ReservedKey.Publish: the credential lies under its own fingerprint.
PublishCredential(c) ==
  /\ op[c].pc = "credential"
  /\ creds' = creds \cup {op[c].key}
  /\ dirty' = dirty \cup ({op[c].key} \ creds)
  /\ Goto(c, "credread")
  /\ UNCHANGED <<mem, used, exported, dropped, told, hostVars>>

\* Verify, and the request is the operator's to carry to the host.
PrepareReturn(c) ==
  /\ op[c].pc = "credread" /\ op[c].key \in creds
  /\ exported' = exported \cup {op[c].intent}
  /\ dirty' = dirty \ {op[c].key}
  /\ Return(c)
  /\ UNCHANGED <<mem, creds, used, dropped, told, hostVars>>

-----------------------------------------------------------------------------
(* Complete *)

\* verifyCredential: reservation, seed and credential agree with the request.
Verified == 
  /\ mem.prep = ReservationOf(mem.intent) /\ mem.seed = mem.intent.key
  /\ mem.intent.key \in creds

\* Mutant: any receipt the host has issued is taken.
CompleteAnyReceipt(c, i) ==
  /\ Begins(c)
  /\ mem.intent # None /\ Verified
  /\ op' = [op EXCEPT ![c] = [Idle EXCEPT !.pc = "accept", !.receipt = i]]
  /\ dirty' = dirty \ (PairDir \cup {"seed", mem.intent.key})
  /\ UNCHANGED <<mem, creds, used, exported, dropped, told, hostVars>>

\* A receipt of the host, verified by its digest, for the request on record.
CompleteBegin(c, i) ==
  /\ Begins(c)
  /\ mem.intent = i /\ Verified
  /\ op' = [op EXCEPT ![c] = [Idle EXCEPT !.pc = "accept", !.receipt = i]]
  /\ dirty' = dirty \ (PairDir \cup {"seed", mem.intent.key})
  /\ UNCHANGED <<mem, creds, used, exported, dropped, told, hostVars>>

\* The receipt is kept before the target is saved.
Accept(c) ==
  /\ op[c].pc = "accept"
  /\ mem.receipt \in {None, op[c].receipt}
  /\ Link("receipt", op[c].receipt)
  /\ Goto(c, "acceptsync")
  /\ UNCHANGED <<creds, used, exported, dropped, told, hostVars>>

Accepted(c) ==
  /\ op[c].pc = "acceptsync"
  /\ Durable({"receipt"})
  /\ Goto(c, "save")
  /\ UNCHANGED <<mem, creds, used, exported, dropped, told, hostVars>>

\* target.Store.Save without replacement; a target that is there must be this one.
Save(c) ==
  /\ op[c].pc = "save"
  /\ mem.target \in {None, op[c].receipt}
  /\ Link("target", op[c].receipt)
  /\ Goto(c, "savesync")
  /\ UNCHANGED <<creds, used, exported, dropped, told, hostVars>>

Saved(c) ==
  /\ op[c].pc = "savesync"
  /\ Durable({"target"})
  /\ Return(c)
  /\ UNCHANGED <<mem, creds, used, exported, dropped, told, hostVars>>

-----------------------------------------------------------------------------
(* Inspect *)

\* The access `pair status NAME' derives from the files.
View ==
  CASE mem.record # None /\ mem.receipt = None -> "forget-pending"
    [] mem.record # None /\ mem.receipt # None -> "revocation-pending"
    [] mem.record = None /\ mem.intent = None ->
         IF mem.prep = None THEN "none" ELSE "preparation-pending"
    [] mem.record = None /\ mem.intent # None /\ ~Verified ->
         IF mem.prep # None /\ mem.seed = mem.intent.key THEN "preparation-pending" ELSE "conflict"
    [] mem.record = None /\ mem.intent # None /\ Verified /\ mem.receipt = None ->
         "prepared-unconfirmed"
    [] OTHER ->
         CASE mem.target = None -> "enrolled-publication-pending"
           [] mem.target = mem.receipt -> "enrolled"
           [] OTHER -> "conflict"

-----------------------------------------------------------------------------
(* Revoke *)

\* It needs a request and an accepted receipt; what the host said before is kept.
RevokeBegin(c) ==
  /\ BeginsAlone(c)
  /\ mem.intent # None /\ mem.receipt = mem.intent
  /\ op' = [op EXCEPT ![c] = [Idle EXCEPT
       !.pc = IF mem.record = None THEN "ask" ELSE "recordread",
       !.intent = mem.intent, !.receipt = mem.receipt, !.pair = mem.receipt.pair,
       !.asked = TRUE]]
  /\ Durable({"intent"})
  /\ UNCHANGED <<mem, creds, used, exported, dropped, told, hostVars>>

\* The paired key logs in, and the host sets about revoking.
Ask(c) ==
  /\ op[c].pc = "ask"
  /\ op[c].pair \in present /\ ~stranded
  /\ Goto(c, "asked")
  /\ UNCHANGED <<mem, creds, dirty, used, exported, dropped, told, hostVars>>

\* The host rejects the key: it may have been revoked before, or not be
\* accepted for any other reason.
AskRejected(c) ==
  /\ op[c].pc = "ask"
  /\ op' = [op EXCEPT ![c].pc = "publish", ![c].verdict = "already-rejected"]
  /\ UNCHANGED <<mem, creds, dirty, used, exported, dropped, told, hostVars>>

\* Mutant: an answer that does not confirm the removal is taken for one.
AnyAnswer(c) ==
  /\ op[c].pc = "asked"
  /\ op' = [op EXCEPT ![c].pc = "publish", ![c].verdict = "revoked"]
  /\ UNCHANGED <<mem, creds, dirty, used, exported, dropped, told, hostVars>>

\* ParseRevokeResult takes nothing but the host's report of this pair.
Answered(c) ==
  /\ op[c].pc = "asked" /\ op[c].pair \in revoked
  /\ op' = [op EXCEPT ![c].pc = "publish", ![c].verdict = "revoked"]
  /\ UNCHANGED <<mem, creds, dirty, used, exported, dropped, told, hostVars>>

PublishRevocation(c) ==
  /\ op[c].pc = "publish"
  /\ Link("record", <<op[c].pair, op[c].verdict>>)
  /\ Goto(c, "recordread")
  /\ UNCHANGED <<creds, used, exported, dropped, told, hostVars>>

\* The record that won is the one that counts.
RevocationRead(c) ==
  /\ op[c].pc = "recordread" /\ mem.record # None /\ mem.record[1] = op[c].pair
  /\ op' = [op EXCEPT ![c].pc = "probe", ![c].verdict = mem.record[2]]
  /\ Durable({"record"})
  /\ UNCHANGED <<mem, creds, used, exported, dropped, told, hostVars>>

\* A fresh connection is rejected, so local state may go.
ProbeRejected(c) ==
  /\ op[c].pc = "probe"
  /\ Goto(c, "target")
  /\ dropped' = dropped \cup {op[c].pair}
  /\ UNCHANGED <<mem, creds, dirty, used, exported, told, hostVars>>

-----------------------------------------------------------------------------
(* Forget *)

ReceiptRead == IF mem.intent = None THEN None ELSE mem.receipt
VerdictRead == IF mem.record = None THEN "none" ELSE mem.record[2]
PairRead == IF mem.intent # None THEN mem.intent.pair
            ELSE IF mem.prep # None THEN mem.prep.pair ELSE None

ReadsPairDir == \E f \in {"intent", "prep", "record"} : mem[f] # None

\* Accepted access is forgotten only once the host has confirmed its removal,
\* or on the operator's word (keep).
ForgetBegin(c, keep) ==
  /\ BeginsAlone(c)
  /\ \E f \in Files \ {"target"} : mem[f] # None
  /\ ReceiptRead \in {None, mem.intent}
  /\ ReceiptRead = None \/ VerdictRead = "revoked" \/ keep
  /\ op' = [op EXCEPT ![c] = [Idle EXCEPT !.pc = "target", !.intent = mem.intent,
       !.receipt = ReceiptRead, !.pair = PairRead, !.verdict = VerdictRead]]
  /\ dropped' = dropped \cup ({PairRead} \ {None})
  /\ Durable(IF ReadsPairDir THEN {"intent"} ELSE {})
  /\ UNCHANGED <<mem, creds, used, exported, told, hostVars>>

\* The target, if it is the one of the receipt; then the receipt.
ForgetTarget(c) ==
  /\ op[c].pc = "target"
  /\ IF op[c].receipt # None /\ mem.target = op[c].receipt
     THEN Remove("target")
     ELSE mem' = mem /\ Durable(IF op[c].receipt = None THEN {} ELSE {"target"})
  /\ Goto(c, "receipt")
  /\ UNCHANGED <<creds, used, exported, dropped, told, hostVars>>

ForgetReceipt(c) ==
  /\ op[c].pc = "receipt"
  /\ Remove("receipt")
  /\ Goto(c, IF op[c].intent = None THEN "intent" ELSE "cred")
  /\ UNCHANGED <<creds, used, exported, dropped, told, hostVars>>

\* Mutant: the request that names the key goes first.
ForgetIntentFirst(c) ==
  /\ op[c].pc = "cred"
  /\ Remove("intent")
  /\ Goto(c, "intent")
  /\ UNCHANGED <<creds, used, exported, dropped, told, hostVars>>

\* The credential goes while the request that names it still exists.
ForgetCredential(c) ==
  /\ op[c].pc = "cred"
  /\ creds' = creds \ {op[c].intent.key} /\ dirty' = dirty \ {op[c].intent.key}
  /\ Goto(c, "intent")
  /\ UNCHANGED <<mem, used, exported, dropped, told, hostVars>>

ForgetIntent(c) ==
  /\ op[c].pc = "intent"
  /\ Remove("intent")
  /\ Goto(c, "prep")
  /\ UNCHANGED <<creds, used, exported, dropped, told, hostVars>>

ForgetPreparation(c) ==
  /\ op[c].pc = "prep"
  /\ Remove("prep")
  /\ Goto(c, "unseed")
  /\ UNCHANGED <<creds, used, exported, dropped, told, hostVars>>

ForgetSeed(c) ==
  /\ op[c].pc = "unseed"
  /\ Remove("seed")
  /\ Goto(c, "record")
  /\ UNCHANGED <<creds, used, exported, dropped, told, hostVars>>

\* What forget says of remote access.
RemoteAccess(c) ==
  CASE op[c].verdict = "revoked" -> "revoked"
    [] op[c].verdict # "revoked" /\ op[c].receipt # None -> "not-revoked"
    [] op[c].verdict # "revoked" /\ op[c].receipt = None /\ op[c].intent # None -> "unconfirmed"
    [] OTHER -> "none"

\* What revoke says in the end.
Outcome(c) == IF op[c].verdict = "revoked" THEN "revoked" ELSE "key-rejected"

ForgetReturn(c) ==
  /\ op[c].pc = "record"
  /\ Remove("record")
  /\ told' =
       IF op[c].pair = None THEN told
       ELSE IF op[c].asked THEN <<op[c].pair, "revoke", Outcome(c)>>
       ELSE <<op[c].pair, "forget", RemoteAccess(c)>>
  /\ Return(c)
  /\ UNCHANGED <<creds, used, exported, dropped, hostVars>>

-----------------------------------------------------------------------------
(* Everything else *)

\* A check or a step of a command fails, or its process dies.
Abort(c) ==
  /\ op[c].pc # "idle"
  /\ Return(c)
  /\ UNCHANGED <<mem, creds, dirty, used, exported, dropped, told, hostVars>>

PowerLoss ==
  /\ \E lost \in SUBSET dirty :
       /\ mem' = [f \in Files |-> IF f \in lost THEN None ELSE mem[f]]
       /\ creds' = creds \ lost
  /\ dirty' = {}
  /\ op' = [c \in Procs |-> Idle]
  /\ UNCHANGED <<used, exported, dropped, told, hostVars>>

\* targets import --replace and targets forget.
ImportTarget ==
  /\ mem.target # OtherTarget
  /\ mem' = [mem EXCEPT !.target = OtherTarget] /\ dirty' = dirty \ {"target"}
  /\ UNCHANGED <<creds, op, used, exported, dropped, told, hostVars>>

DropTarget ==
  /\ mem.target # None
  /\ Remove("target")
  /\ UNCHANGED <<creds, op, used, exported, dropped, told, hostVars>>

\* The host: only a request that prepare has returned reaches it.
HostStep ==
  /\ \/ \E i \in exported : Host!Record(i)
     \/ \E i \in Intents : i \notin issued /\ Host!Issue(i)
     \/ \E p \in Pairs : \/ p \notin present /\ Host!Admit(p)
                         \/ p \notin tomb /\ Host!Bury(p)
                         \/ p \in present /\ Host!Remove(p)
                         \/ p \notin revoked /\ Host!Report(p)
  /\ UNCHANGED clientVars

Prepare(c) ==
  \/ \E o \in Offers : PrepareBegin(c, o)
  \/ \E p \in Pairs : Reserve(c, p)
  \/ \E k \in Keys : Seed(c, k)
  \/ ReserveRead(c) \/ PrepareReserved(c) \/ SeedRead(c) \/ PublishIntent(c)
  \/ IntentRead(c) \/ PublishCredential(c) \/ PrepareReturn(c)

Complete(c) ==
  \/ \E i \in issued : CompleteBegin(c, i)
  \/ Accept(c) \/ Accepted(c) \/ Save(c) \/ Saved(c)

Revoke(c) ==
  \/ RevokeBegin(c) \/ Ask(c) \/ AskRejected(c) \/ Answered(c)
  \/ PublishRevocation(c) \/ RevocationRead(c) \/ ProbeRejected(c)

Forget(c) ==
  \/ \E keep \in BOOLEAN : ForgetBegin(c, keep)
  \/ ForgetTarget(c) \/ ForgetReceipt(c) \/ ForgetCredential(c) \/ ForgetIntent(c)
  \/ ForgetPreparation(c) \/ ForgetSeed(c) \/ ForgetReturn(c)

Next ==
  \/ \E c \in Procs : Prepare(c) \/ Complete(c) \/ Revoke(c) \/ Forget(c) \/ Abort(c)
  \/ PowerLoss \/ ImportTarget \/ DropTarget \/ HostStep

Spec == Init /\ [][Next]_vars

-----------------------------------------------------------------------------
(* Properties *)

\* A request that prepare has returned stays, with its reservation, seed and
\* key, through any crash and loss of power, until its removal begins; so all
\* prepare calls of a name, concurrent or repeated, return the same request.
RequestKept ==
  \A i \in exported : i.pair \notin dropped =>
    /\ mem.intent = i /\ mem.prep = ReservationOf(i)
    /\ mem.seed = i.key /\ i.key \in creds
    /\ dirty \cap {"prep", "seed", "intent", i.key} = {}

\* Each published key has a durable request that names it.
KeysNamed ==
  \A k \in creds :
    mem.intent # None /\ mem.intent.key = k /\ "intent" \notin dirty

\* A target saved from a receipt has that receipt, durably, and its key.
TargetBacked ==
  mem.target \in Intents =>
    /\ mem.receipt = mem.target /\ "receipt" \notin dirty
    /\ mem.target.key \in creds

\* What is reported of remote access is so, whatever was interrupted or is still going
\* on.  A pair that revoke called revoked is one whose removal the host has reported,
\* although the record of that may be older than the command and another one's; a name
\* that `pair status' calls free holds no key, an access it calls enrolled is one the
\* host has granted, and nothing but another target of the name makes a conflict.
ReportsTrue ==
  /\ \A p \in Pairs : told = <<p, "revoke", "revoked">> => p \in revoked
  /\ View = "none" => creds = {} /\ \A i \in exported : i.pair \in dropped
  /\ View = "enrolled" => mem.target \in issued /\ mem.target.key \in creds
  /\ View = "conflict" => mem.target = OtherTarget

\* Accepted access that forget goes on to drop as revoked is access whose removal
\* the host has reported, for this pairing and not for an earlier one of the name.
ForgottenTrue ==
  \A c \in Procs :
    ~op[c].asked /\ op[c].receipt # None /\ op[c].verdict = "revoked"
      => op[c].receipt.pair \in revoked

=============================================================================
