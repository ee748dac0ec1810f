---------------------------- MODULE SetupOwner_proof ----------------------------
(* Proofs about SetupOwner, for any callers, components and removals and any   *)
(* number of executions and faults: the fence covers whoever can still change  *)
(* something, the executions of an operation make one chain, and the worker    *)
(* is the one Installer is about.                                              *)
(*                                                                             *)
(* The argument: what a launcher call, a keeper or a worker may do is bounded  *)
(* by how far its journal has come (Journaled); a caller's place says how far  *)
(* that is and that nobody else moves it there (Caller, Apart); so a journal   *)
(* is settled only when its keeper and its worker are gone, and only then does *)
(* the fence come down (Covered).                                              *)
EXTENDS SetupOwner, Installer_proof, FiniteSetTheorems

\* How far the journal is when the caller that launches is at a step.
Launching == {"claim", "request", "submit", "create", "creating", "run", "launch", "starting"}
LogAt(pc) == IF pc \in {"claim", "request"} THEN 1
             ELSE IF pc = "submit" THEN 2
             ELSE IF pc \in {"create", "creating"} THEN 3
             ELSE IF pc = "run" THEN 4 ELSE 5

\* The fence is that of whoever is alive.
Covered ==
  /\ claim # NoToken => claim \in Used /\ ~run
  /\ lock # NoToken => ~run
  /\ \A t \in Tokens : lcall[t] # "none" \/ keeper[t] \in KeeperAlive => claim = t
  /\ w.pc # "idle" => claim = wtok /\ claim # NoToken /\ w.op = exec[wtok].op

\* What a journal says of the launcher call, the keeper and the worker.
Journaled(t) ==
  IF t \in Used
  THEN /\ exec[t].log >= 6 => lcall[t] \in {"none", "delete"}
       /\ lcall[t] = "delete" => exec[t].log = 8
       /\ keeper[t] \in {"admitted", "spawned", "working", "reported"} => exec[t].log = 7
       /\ Terminal(t) => exec[t].log >= 7 /\ keeper[t] \in {"reported", "gone"}
       /\ exec[t].log >= 8 => keeper[t] = "gone" /\ WorkerSettled(t)
       /\ wtok = t => keeper[t] \in {"working", "reported", "gone"}
       /\ wtok = t /\ w.pc # "idle" => ~WorkerSettled(t)
       /\ wtok = t /\ w.pc = "stranded" /\ ~Terminal(t) => ~Unfinished(w.op)
       /\ exec[t].pred # NoToken => exec[t].pred \in Used /\ Resumable(exec[t].pred)
  ELSE lcall[t] = "none" /\ keeper[t] = "none" /\ wtok # t

\* What a caller knows of the journals.
Caller(p) ==
  LET t == Tok(p) pc == proc[p].pc IN
  /\ pc \in Launching \cup {"settle", "release", "delete", "deleting", "poll"} => t \in Used
  /\ pc \in Launching => exec[t].log = LogAt(pc) /\ (IF pc = "claim" THEN claim = NoToken ELSE claim = t)
  /\ pc \in {"delete", "deleting"} => claim = t /\ exec[t].log = 8
  /\ pc = "release" => Settled(t)
  /\ pc \in {"preview", "admit", "mkdir"} /\ t # NoToken => t \in Used /\ Settled(t)
  /\ pc \in {"admit", "mkdir"} /\ t # NoToken => Resumable(t)
  /\ pc = "admit" /\ t = NoToken => proc[p].own = NoToken
  /\ pc = "mkdir" => /\ claim = NoToken /\ Used # Tokens
                     /\ \A u \in Journal(proc[p].op) : exec[u].pred # t

Apart == \A p, q \in Procs :
  p # q /\ proc[p].pc \in Launching /\ proc[q].pc \in Launching => Tok(p) # Tok(q)

Chained ==
  /\ \E k \in 0 .. MaxExec : Used = 1 .. k
  /\ \A t, u \in Used : t # u /\ exec[t].op = exec[u].op => exec[t].pred # exec[u].pred

OInv ==
  /\ OwnerTypeOK /\ Inv /\ Covered /\ Apart /\ Chained
  /\ \A t \in Tokens : Journaled(t)
  /\ \A p \in Procs : Caller(p)
-----------------------------------------------------------------------------
(* Records and helpers. *)

CallerStates == [pc: ProcPcs, cmd: {"apply", "stop"}, op: Ops, tok: 0 .. MaxExec,
                 own: 0 .. MaxExec]

LEMMA Positions ==
  /\ Pos["dir"] = 1 /\ Pos["request"] = 2 /\ Pos["submitted"] = 3 /\ Pos["registered"] = 4
  /\ Pos["run"] = 5 /\ Pos["started"] = 6 /\ Pos["keeper"] = 7 /\ Pos["delete"] = 8
  /\ Pos["cleaned"] = 9
BY DEF Pos

LEMMA TokenFacts ==
  NoToken = 0 /\ NoToken \notin Tokens /\ NoToken \in 0 .. MaxExec /\ Tokens \subseteq 0 .. MaxExec
BY OwnerAssumption DEF NoToken, Tokens

LEMMA UsedTyped ==
  ASSUME OwnerTypeOK, NEW t \in Used
  PROVE  t \in Tokens /\ t # NoToken /\ exec[t] \in Executions
BY TokenFacts DEF OwnerTypeOK, Used

LEMMA ToFx ==
  ASSUME proc \in [Procs -> CallerStates], NEW p \in Procs, NEW pc \in ProcPcs, To(p, pc)
  PROVE  /\ proc' \in [Procs -> CallerStates] /\ \A q \in Procs : q # p => proc'[q] = proc[q]
         /\ proc'[p].pc = pc /\ proc'[p].tok = proc[p].tok /\ proc'[p].op = proc[p].op
         /\ proc'[p].own = proc[p].own
<1> DEFINE n == [proc[p] EXCEPT !.pc = pc]
<1>1. proc' = [proc EXCEPT ![p] = n]
  BY DEF To
<1>2. n \in CallerStates /\ n.pc = pc /\ n.tok = proc[p].tok /\ n.op = proc[p].op /\ n.own = proc[p].own
  BY DEF CallerStates
<1> HIDE DEF n
<1> QED
  BY <1>1, <1>2

LEMMA LogFx ==
  ASSUME OwnerTypeOK, NEW t \in Used,
         NEW record \in {"request", "submitted", "registered", "run", "started", "keeper",
                         "delete", "cleaned"}, Log(t, record)
  PROVE  /\ exec' \in [Tokens -> Executions \cup {NoExec}] /\ exec'[t] \in Executions
         /\ \A u \in Tokens : u # t => exec'[u] = exec[u]
         /\ exec'[t].log = Pos[record] /\ exec'[t].op = exec[t].op /\ exec'[t].pred = exec[t].pred
         /\ exec'[t].exit = exec[t].exit /\ exec'[t].mut = exec[t].mut
         /\ exec'[t].state = exec[t].state /\ exec'[t].pub = exec[t].pub
<1> DEFINE n == [exec[t] EXCEPT !.log = Pos[record]]
<1>1. exec' = [exec EXCEPT ![t] = n]
  BY DEF Log
<1>2. Pos[record] \in 1 .. 9
  BY Positions
<1>3. /\ n \in Executions /\ n.log = Pos[record] /\ n.op = exec[t].op /\ n.pred = exec[t].pred
      /\ n.exit = exec[t].exit /\ n.mut = exec[t].mut
      /\ n.state = exec[t].state /\ n.pub = exec[t].pub
  BY <1>2, UsedTyped DEF Executions
<1> HIDE DEF n
<1> QED
  BY <1>1, <1>3, UsedTyped DEF OwnerTypeOK

LEMMA EndsFx ==
  ASSUME OwnerTypeOK, NEW t \in Used, NEW exit \in Exits, NEW mut \in {"none", "settled", "unknown"},
         NEW state \in {"none", "conflict"} \cup States, NEW pub \in {"none", "failed", "published"},
         Ends(t, exit, mut, state, pub)
  PROVE  /\ exec' \in [Tokens -> Executions \cup {NoExec}] /\ exec'[t] \in Executions
         /\ \A u \in Tokens : u # t => exec'[u] = exec[u] /\ keeper'[u] = keeper[u]
         /\ exec'[t].log = exec[t].log /\ exec'[t].op = exec[t].op /\ exec'[t].pred = exec[t].pred
         /\ exec'[t].exit = exit /\ exec'[t].mut = mut
         /\ keeper' \in [Tokens -> KeeperAlive \cup {"none", "gone"}] /\ keeper'[t] = "reported"
<1> DEFINE n == [exec[t] EXCEPT !.exit = exit, !.mut = mut, !.state = state, !.pub = pub]
<1>1. exec' = [exec EXCEPT ![t] = n] /\ keeper' = [keeper EXCEPT ![t] = "reported"]
  BY DEF Ends, KeeperTo
<1>2. /\ n \in Executions /\ n.log = exec[t].log /\ n.op = exec[t].op /\ n.pred = exec[t].pred
      /\ n.exit = exit /\ n.mut = mut
  BY UsedTyped DEF Executions
<1> HIDE DEF n
<1> QED
  BY <1>1, <1>2, UsedTyped DEF OwnerTypeOK, KeeperAlive

-----------------------------------------------------------------------------
(* What a step leaves of the rest. *)

\* A settled journal is never written again, and no other changes its operation.
Frozen ==
  /\ Used' = Used
  /\ \A u \in Used : exec'[u].op = exec[u].op /\ exec'[u].pred = exec[u].pred
  /\ \A u \in Used : Settled(u) => exec'[u] = exec[u]

LEMMA FrozenSame == ASSUME exec' = exec PROVE Frozen
BY DEF Frozen, Used

LEMMA FrozenOne ==
  ASSUME OwnerTypeOK, NEW t \in Used, \A u \in Tokens : u # t => exec'[u] = exec[u],
         exec'[t] \in Executions, exec'[t].op = exec[t].op, exec'[t].pred = exec[t].pred,
         ~Settled(t)
  PROVE  Frozen
<1>1. exec'[t] # NoExec
  BY JournalAssumption
<1> QED
  BY <1>1 DEF Frozen, Used

LEMMA FrozenSays ==
  ASSUME Frozen, NEW u \in Used
  PROVE  /\ Settled(u) => Settled(u)' /\ (WorkerSettled(u))'
         /\ Resumable(u) => Resumable(u)'
BY DEF Frozen, Settled, Resumable, WorkerSettled, Has

LEMMA FrozenChained == ASSUME Chained, Frozen PROVE Chained'
BY DEF Chained, Frozen

LEMMA OtherJournal ==
  ASSUME OInv, Frozen, NEW u \in Tokens, exec'[u] = exec[u], lcall'[u] = lcall[u],
         keeper'[u] = keeper[u], wtok' = wtok, w' = w, receipt' = receipt
  PROVE  Journaled(u)'
<1>1. Journaled(u)
  BY DEF OInv
<1>2. u \in Used => (exec[u].pred # NoToken => exec[u].pred \in Used /\ Resumable(exec[u].pred))'
  BY <1>1, FrozenSays DEF Journaled, Frozen
<1> QED
  BY <1>1, <1>2 DEF Journaled, Terminal, WorkerSettled, Unfinished, Exists, Frozen

LEMMA OtherCaller ==
  ASSUME OInv, Frozen, NEW q \in Procs, proc'[q] = proc[q], claim' = claim,
         proc[q].pc \in Launching \cup {"delete", "deleting"} => exec'[Tok(q)].log = exec[Tok(q)].log
  PROVE  Caller(q)'
<1>1. Caller(q) /\ Tok(q)' = Tok(q)
  BY DEF OInv, Tok
<1>2. proc[q].pc = "mkdir" => (\A u \in Journal(proc[q].op) : exec[u].pred # Tok(q))'
  BY <1>1 DEF Caller, Journal, Frozen
<1>3. Tok(q) \in Used => /\ Settled(Tok(q)) => Settled(Tok(q))'
                         /\ Resumable(Tok(q)) => Resumable(Tok(q))'
  BY <1>1 DEF Frozen, Settled, Resumable, WorkerSettled, Has
<1> QED
  BY <1>1, <1>2, <1>3 DEF Caller, Frozen

LEMMA ApartKept ==
  ASSUME OInv, NEW p \in Procs, \A q \in Procs : q # p => proc'[q] = proc[q],
         proc'[p].pc \in Launching => proc[p].pc \in Launching /\ proc'[p].tok = proc[p].tok
  PROVE  Apart'
BY DEF OInv, Apart, Tok

\* The lock stays, is taken by p, or is given back by p.
LockMoves(p) ==
  \/ lock' = lock /\ (proc'[p].pc \in Locked <=> proc[p].pc \in Locked)
  \/ lock = NoToken /\ lock' = p /\ proc'[p].pc \in Locked
  \/ lock' = NoToken /\ lock \in {p, NoToken} /\ proc'[p].pc \notin Locked

LEMMA LockKept ==
  ASSUME OInv, NEW p \in Procs, \A q \in Procs : q # p => proc'[q] = proc[q], LockMoves(p)
  PROVE  /\ lock' \in Procs \cup {NoToken}
         /\ \A q \in Procs : lock' = q <=> proc'[q].pc \in Locked
BY OwnerAssumption DEF OInv, OwnerTypeOK, LockMoves

\* A step of a caller that writes nothing.
LEMMA CallerMoves ==
  ASSUME OInv, NEW p \in Procs, UNCHANGED <<vars, exec, claim, ltask, lcall, keeper, wtok, run>>,
         proc' \in [Procs -> CallerStates], \A q \in Procs : q # p => proc'[q] = proc[q],
         LockMoves(p), lock' # NoToken => ~run, Caller(p)',
         proc'[p].pc \in Launching => proc[p].pc \in Launching /\ proc'[p].tok = proc[p].tok
  PROVE  OInv'
<1>1. Frozen
  BY FrozenSame
<1>2. Inv' /\ TypeOK'
  BY StutterInv DEF OInv, Inv
<1>3. OwnerTypeOK'
  BY <1>2, LockKept DEF OInv, OwnerTypeOK, CallerStates
<1>4. Apart' /\ Chained'
  BY <1>1, ApartKept, FrozenChained DEF OInv
<1>5. \A t \in Tokens : Journaled(t)'
  BY <1>1, OtherJournal DEF vars
<1>6. \A q \in Procs : Caller(q)'
  BY <1>1, OtherCaller
<1>7. Covered'
  BY <1>1 DEF OInv, Covered, vars, Frozen
<1> QED
  BY <1>2, <1>3, <1>4, <1>5, <1>6, <1>7 DEF OInv

-----------------------------------------------------------------------------
(* Callers that write nothing. *)

LEMMA ProcTyped == ASSUME OInv PROVE proc \in [Procs -> CallerStates] /\ OwnerTypeOK
BY DEF OInv, OwnerTypeOK, CallerStates

LEMMA PutFx ==
  ASSUME proc \in [Procs -> CallerStates], NEW p \in Procs, NEW r \in CallerStates,
         proc' = [proc EXCEPT ![p] = r]
  PROVE  /\ proc' \in [Procs -> CallerStates] /\ \A q \in Procs : q # p => proc'[q] = proc[q]
         /\ proc'[p] = r
OBVIOUS

LEMMA LockSays == ASSUME OInv, NEW p \in Procs PROVE lock = p <=> proc[p].pc \in Locked
BY DEF OInv, OwnerTypeOK

LEMMA ApplyStep == ASSUME OInv, NEW p \in Procs, NEW o \in Ops, Apply(p, o) PROVE OInv'
<1>1. Is(p, "idle") /\ UNCHANGED <<vars, exec, claim, lock, ltask, lcall, keeper, wtok, run>>
  BY DEF Apply
<1>2. PICK r \in CallerStates :
        /\ proc' = [proc EXCEPT ![p] = r] /\ r.pc \in {"preview", "settle"}
        /\ r.tok # NoToken => r.tok \in Used /\ (r.pc = "preview" => Settled(r.tok))
        /\ r.pc = "settle" => r.tok # NoToken
  <2>1. CASE \E t \in Journal(o) :
          /\ Current(o, t) /\ WorkerSettled(t)
          /\ proc' = [proc EXCEPT ![p] =
               [pc |-> IF Settled(t) THEN "preview" ELSE "settle", cmd |-> "apply", op |-> o,
                tok |-> t, own |-> NoToken]]
    <3>1. PICK t \in Journal(o) : proc' = [proc EXCEPT ![p] =
               [pc |-> IF Settled(t) THEN "preview" ELSE "settle", cmd |-> "apply", op |-> o,
                tok |-> t, own |-> NoToken]]
      BY <2>1
    <3>2. t \in Used /\ t \in 0 .. MaxExec /\ t # NoToken /\ NoToken \in 0 .. MaxExec
      BY ProcTyped, UsedTyped, TokenFacts DEF Journal
    <3> DEFINE r == [pc |-> IF Settled(t) THEN "preview" ELSE "settle", cmd |-> "apply", op |-> o,
                     tok |-> t, own |-> NoToken]
    <3>3. /\ r \in CallerStates /\ r.pc \in {"preview", "settle"} /\ r.tok = t
          /\ r.pc = "preview" => Settled(t)
      BY <3>2 DEF CallerStates, ProcPcs
    <3> HIDE DEF r
    <3> QED
      BY <3>1, <3>2, <3>3 DEF r
  <2>2. CASE proc' = [proc EXCEPT ![p] = [pc |-> "preview", cmd |-> "apply", op |-> o,
                                        tok |-> NoToken, own |-> NoToken]]
    <3> DEFINE r == [pc |-> "preview", cmd |-> "apply", op |-> o, tok |-> NoToken, own |-> NoToken]
    <3>1. r \in CallerStates /\ r.pc = "preview" /\ r.tok = NoToken
      BY TokenFacts, OwnerAssumption DEF CallerStates, ProcPcs
    <3> HIDE DEF r
    <3> QED
      BY <2>2, <3>1 DEF r
  <2> QED
    BY <2>1, <2>2 DEF Apply
<1>3. /\ proc' \in [Procs -> CallerStates] /\ \A q \in Procs : q # p => proc'[q] = proc[q]
      /\ proc'[p] = r
  BY <1>2, PutFx, ProcTyped
<1>4. Caller(p)'
  BY <1>1, <1>2, <1>3, FrozenSame, FrozenSays DEF Caller, Tok, Launching, Frozen
<1>5. LockMoves(p) /\ (lock # NoToken => ~run)
  BY <1>1, <1>2, <1>3 DEF LockMoves, Is, Locked, OInv, Covered
<1> QED
  BY <1>1, <1>2, <1>3, <1>4, <1>5, CallerMoves DEF Launching

LEMMA AlreadyCleanStep == ASSUME OInv, NEW p \in Procs, AlreadyClean(p) PROVE OInv'
<1>1. /\ proc[p].pc = "settle" /\ Settled(Tok(p))
      /\ UNCHANGED <<vars, exec, claim, lock, ltask, lcall, keeper, wtok, run>>
  BY DEF AlreadyClean, Is
<1>2. PICK pc \in {"preview", "release"} : To(p, pc)
  BY DEF AlreadyClean
<1>3. /\ proc' \in [Procs -> CallerStates] /\ \A q \in Procs : q # p => proc'[q] = proc[q]
      /\ proc'[p].pc = pc /\ proc'[p].tok = proc[p].tok
  BY <1>2, ToFx, ProcTyped DEF ProcPcs
<1>4. Tok(p) \in Used
  BY <1>1 DEF OInv, Caller
<1>5. Caller(p)'
  BY <1>1, <1>2, <1>3, <1>4 DEF Caller, Tok, Launching, Settled, WorkerSettled, Has, Used
<1>6. LockMoves(p) /\ (lock # NoToken => ~run)
  BY <1>1, <1>2, <1>3 DEF LockMoves, Locked, OInv, Covered
<1> QED
  BY <1>1, <1>2, <1>3, <1>5, <1>6, CallerMoves DEF Launching

LEMMA PollStep == ASSUME OInv, NEW p \in Procs, Poll(p) PROVE OInv'
<1>1. /\ proc[p].pc = "poll"
      /\ UNCHANGED <<vars, exec, claim, lock, ltask, lcall, keeper, wtok, run>>
  BY DEF Poll, Is
<1>2. PICK pc \in {"settle", "release"} :
        /\ proc' = [proc EXCEPT ![p].pc = pc, ![p].cmd = "stop"]
        /\ pc = "release" => Settled(Tok(p))
  BY DEF Poll
<1> DEFINE r == [proc[p] EXCEPT !.pc = pc, !.cmd = "stop"]
<1>3. r \in CallerStates /\ r.pc = pc /\ r.tok = proc[p].tok /\ proc' = [proc EXCEPT ![p] = r]
  BY <1>2, ProcTyped DEF CallerStates, ProcPcs
<1> HIDE DEF r
<1>4. /\ proc' \in [Procs -> CallerStates] /\ \A q \in Procs : q # p => proc'[q] = proc[q]
      /\ proc'[p].pc = pc /\ proc'[p].tok = proc[p].tok
  BY <1>3, PutFx, ProcTyped
<1>5. Tok(p) \in Used
  BY <1>1 DEF OInv, Caller
<1>6. Caller(p)'
  BY <1>1, <1>2, <1>4, <1>5 DEF Caller, Tok, Launching, Settled, WorkerSettled, Has, Used
<1>7. LockMoves(p) /\ (lock # NoToken => ~run)
  BY <1>1, <1>2, <1>4 DEF LockMoves, Locked, OInv, Covered
<1> QED
  BY <1>1, <1>2, <1>4, <1>6, <1>7, CallerMoves DEF Launching

LEMMA PreviewStep == ASSUME OInv, NEW p \in Procs, Preview(p) PROVE OInv'
<1>1. /\ proc[p].pc = "preview" /\ (Tok(p) = NoToken => claim = NoToken)
      /\ UNCHANGED <<vars, exec, claim, lock, ltask, lcall, keeper, wtok, run>>
  BY DEF Preview, Is
<1>2. PICK pc \in {"admit", "release"} :
        /\ proc' = [proc EXCEPT ![p].own = claim, ![p].pc = pc]
        /\ pc = "release" => Tok(p) # NoToken
        /\ (pc = "admit" /\ Tok(p) # NoToken) => Resumable(Tok(p))
  BY DEF Preview
<1> DEFINE r == [proc[p] EXCEPT !.own = claim, !.pc = pc]
<1>3. /\ r \in CallerStates /\ r.pc = pc /\ r.tok = proc[p].tok /\ r.own = claim
      /\ proc' = [proc EXCEPT ![p] = r]
  <2>1. claim \in 0 .. MaxExec /\ pc \in ProcPcs
    BY ProcTyped DEF OwnerTypeOK, ProcPcs
  <2>2. r \in CallerStates /\ r.pc = pc /\ r.tok = proc[p].tok /\ r.own = claim
    BY <2>1, ProcTyped DEF CallerStates
  <2> QED
    BY <1>2, <2>2
<1> HIDE DEF r
<1>4. /\ proc' \in [Procs -> CallerStates] /\ \A q \in Procs : q # p => proc'[q] = proc[q]
      /\ proc'[p].pc = pc /\ proc'[p].tok = proc[p].tok /\ proc'[p].own = claim
  BY <1>3, PutFx, ProcTyped
<1>5. Tok(p) # NoToken => Tok(p) \in Used /\ Settled(Tok(p))
  BY <1>1 DEF OInv, Caller
<1>6. Caller(p)'
  BY <1>1, <1>2, <1>4, <1>5 DEF Caller, Tok, Launching, Settled, WorkerSettled, Has, Used, Resumable
<1>7. LockMoves(p) /\ (lock # NoToken => ~run)
  BY <1>1, <1>2, <1>4 DEF LockMoves, Locked, OInv, Covered
<1> QED
  BY <1>1, <1>2, <1>4, <1>6, <1>7, CallerMoves DEF Launching

LEMMA LeaveStep == ASSUME OInv, NEW p \in Procs, Leave(p) PROVE OInv'
<1>1. /\ proc' = [proc EXCEPT ![p] = Idle(p)] /\ lock' = IF lock = p THEN NoToken ELSE lock
      /\ UNCHANGED <<vars, exec, claim, ltask, lcall, keeper, wtok, run>>
  BY DEF Leave
<1>2. Idle(p) \in CallerStates /\ Idle(p).pc = "idle"
  BY ProcTyped, TokenFacts DEF Idle, CallerStates, ProcPcs
<1>3. /\ proc' \in [Procs -> CallerStates] /\ \A q \in Procs : q # p => proc'[q] = proc[q]
      /\ proc'[p].pc = "idle"
  BY <1>1, <1>2, PutFx, ProcTyped
<1>4. Caller(p)'
  BY <1>3 DEF Caller, Launching
<1>5. LockMoves(p) /\ (lock' # NoToken => ~run)
  BY <1>1, <1>3, LockSays DEF LockMoves, Locked, OInv, Covered
<1> QED
  BY <1>1, <1>3, <1>4, <1>5, CallerMoves DEF Launching

-----------------------------------------------------------------------------
(* Callers that write the next record of a journal. *)

Records == {"request", "submitted", "registered", "run", "started", "keeper", "delete",
            "cleaned"}

LEMMA LogMoves ==
  ASSUME OInv, NEW p \in Procs, NEW t \in Used, t = Tok(p), NEW record \in Records,
         Log(t, record), UNCHANGED <<vars, claim, ltask, lcall, keeper, wtok, run>>,
         proc' \in [Procs -> CallerStates], \A q \in Procs : q # p => proc'[q] = proc[q],
         LockMoves(p), lock' # NoToken => ~run, Caller(p)', Journaled(t)', exec[t].log < 9,
         \A q \in Procs : q # p /\ Tok(q) = t => proc[q].pc \notin Launching \cup {"delete", "deleting"},
         proc'[p].pc \in Launching => proc[p].pc \in Launching /\ proc'[p].tok = proc[p].tok
  PROVE  OInv'
<1>1. OwnerTypeOK /\ t \in Tokens /\ exec[t] \in Executions
  BY UsedTyped DEF OInv
<1>2. /\ exec' \in [Tokens -> Executions \cup {NoExec}] /\ exec'[t] \in Executions
      /\ \A u \in Tokens : u # t => exec'[u] = exec[u]
      /\ exec'[t].op = exec[t].op /\ exec'[t].pred = exec[t].pred
  BY <1>1, LogFx DEF Records
<1>3. Frozen
  BY <1>1, <1>2, FrozenOne, Positions DEF Settled, Has, Executions
<1>4. Inv' /\ TypeOK'
  BY StutterInv DEF OInv, Inv
<1>5. OwnerTypeOK'
  BY <1>1, <1>2, <1>4, LockKept DEF OwnerTypeOK, CallerStates
<1>6. Apart' /\ Chained'
  BY <1>3, ApartKept, FrozenChained DEF OInv
<1>7. \A u \in Tokens : Journaled(u)'
  BY <1>2, <1>3, OtherJournal DEF vars
<1>8. ASSUME NEW q \in Procs, q # p PROVE Caller(q)'
  <2>1. proc[q].pc \in Launching \cup {"delete", "deleting"} => Tok(q) \in Tokens \ {t}
    BY <1>8, UsedTyped, <1>1 DEF OInv, Caller
  <2> QED
    BY <1>2, <1>3, <1>8, <2>1, OtherCaller
<1>9. Covered'
  <2>1. w.pc # "idle" => claim \in Used
    BY DEF OInv, Covered
  <2> QED
    BY <1>3, <2>1 DEF OInv, Covered, vars, Frozen
<1> QED
  BY <1>4, <1>5, <1>6, <1>7, <1>8, <1>9 DEF OInv

LEMMA AnnounceStep ==
  ASSUME OInv, NEW p \in Procs, NEW pc \in {"submit", "creating", "run", "starting"},
         NEW record \in Records, NEW next \in {"create", "run", "launch", "poll"},
         Announce(p, pc, record, next), Pos[record] = LogAt(pc) + 1,
         IF next = "poll" THEN pc = "starting" /\ lcall[Tok(p)] = "none"
                          ELSE pc # "starting" /\ LogAt(next) = LogAt(pc) + 1
  PROVE  OInv'
<1>1. /\ proc[p].pc = pc /\ Log(Tok(p), record) /\ To(p, next)
      /\ UNCHANGED <<vars, claim, lock, ltask, lcall, keeper, wtok, run>>
  BY DEF Announce, Is
<1>2. Tok(p) \in Used /\ exec[Tok(p)].log = LogAt(pc) /\ claim = Tok(p) /\ pc \in Launching
  BY <1>1 DEF OInv, Caller, Launching
<1>3. PICK t \in Used : t = Tok(p)
  BY <1>2
<1>4. /\ proc' \in [Procs -> CallerStates] /\ \A q \in Procs : q # p => proc'[q] = proc[q]
      /\ proc'[p].pc = next /\ proc'[p].tok = t
  BY <1>1, <1>3, ToFx, ProcTyped DEF ProcPcs, Tok
<1>5. /\ exec'[t] \in Executions /\ exec'[t].log = LogAt(pc) + 1 /\ exec'[t].pred = exec[t].pred
      /\ exec'[t].exit = exec[t].exit /\ exec'[t].op = exec[t].op
      /\ \A u \in Tokens : u # t => exec'[u] = exec[u]
  BY <1>1, <1>3, LogFx, ProcTyped DEF Records
<1>6. exec[t].log <= 5 /\ exec[t].log \in Nat /\ t \in Tokens /\ t # NoToken /\ exec'[t] # NoExec
  BY <1>2, <1>3, <1>5, UsedTyped, ProcTyped, JournalAssumption DEF LogAt, Executions
<1>7. Frozen
  BY <1>5, <1>6, FrozenOne, Positions, ProcTyped DEF Settled, Has
<1>8. Journaled(t)'
  <2>1. Journaled(t) /\ Used' = Used
    BY <1>6, <1>7 DEF OInv, Frozen
  <2>2. /\ lcall[t] # "delete" /\ keeper[t] \notin {"admitted", "spawned", "working", "reported"}
        /\ ~Terminal(t)
    BY <2>1, <1>6 DEF Journaled
  <2>3. ~Terminal(t)'
    BY <2>2, <1>5 DEF Terminal
  <2>4. ~WorkerSettled(t)'
    BY <2>3 DEF Terminal, WorkerSettled
  <2>5. exec'[t].pred # NoToken => exec'[t].pred \in Used' /\ Resumable(exec[t].pred)'
    BY <2>1, <1>5, <1>7, FrozenSays DEF Journaled, Frozen
  <2>6. (exec[t].pred # NoToken => exec[t].pred \in Used /\ Resumable(exec[t].pred))'
    BY <2>5, <1>5 DEF Resumable, Settled, WorkerSettled, Has
  <2>7. exec'[t].log \in Nat /\ exec'[t].log < 7 /\ (exec'[t].log >= 6 => lcall[t] = "none")
    BY <1>2, <1>3, <1>5, <1>6 DEF LogAt
  <2>8. (wtok = t /\ w.pc = "stranded") => ~Unfinished(w.op)
    BY <2>1, <2>2 DEF Journaled
  <2> QED
    BY <2>1, <2>2, <2>3, <2>4, <2>6, <2>7, <2>8, <1>1 DEF Journaled, vars, Unfinished, Exists
<1>9. Caller(p)'
  BY <1>1, <1>2, <1>3, <1>4, <1>5, <1>7 DEF Caller, Tok, Launching, Frozen
<1>10. \A q \in Procs : q # p /\ Tok(q) = t => proc[q].pc \notin Launching \cup {"delete", "deleting"}
  BY <1>1, <1>2, <1>3, <1>6 DEF OInv, Apart, Caller
<1>11. LockMoves(p) /\ (lock' # NoToken => ~run)
  BY <1>1, <1>4 DEF LockMoves, Locked, OInv, Covered
<1> QED
  BY <1>1, <1>2, <1>3, <1>4, <1>6, <1>8, <1>9, <1>10, <1>11, LogMoves DEF Tok

LEMMA PublishRequestStep == ASSUME OInv, NEW p \in Procs, PublishRequest(p) PROVE OInv'
<1>1. /\ proc[p].pc = "request" /\ Log(Tok(p), "request") /\ To(p, "submit") /\ lock' = NoToken
      /\ UNCHANGED <<vars, claim, ltask, lcall, keeper, wtok, run>>
  BY DEF PublishRequest, Is
<1>2. Tok(p) \in Used /\ exec[Tok(p)].log = 1 /\ claim = Tok(p) /\ lock = p
  BY <1>1, LockSays DEF OInv, Caller, Launching, LogAt, Locked
<1>3. PICK t \in Used : t = Tok(p)
  BY <1>2
<1>4. /\ proc' \in [Procs -> CallerStates] /\ \A q \in Procs : q # p => proc'[q] = proc[q]
      /\ proc'[p].pc = "submit" /\ proc'[p].tok = t
  BY <1>1, <1>3, ToFx, ProcTyped DEF ProcPcs, Tok
<1>5. /\ exec'[t] \in Executions /\ exec'[t].log = 2 /\ exec'[t].pred = exec[t].pred
      /\ exec'[t].exit = exec[t].exit /\ exec'[t].op = exec[t].op
      /\ \A u \in Tokens : u # t => exec'[u] = exec[u]
  BY <1>1, <1>3, LogFx, ProcTyped, Positions DEF Records
<1>6. exec[t].log = 1 /\ t \in Tokens /\ t # NoToken /\ exec'[t] # NoExec
  BY <1>2, <1>3, <1>5, UsedTyped, ProcTyped, JournalAssumption
<1>7. Frozen
  BY <1>5, <1>6, FrozenOne, Positions, ProcTyped DEF Settled, Has
<1>8. Journaled(t)'
  <2>1. Journaled(t) /\ Used' = Used
    BY <1>6, <1>7 DEF OInv, Frozen
  <2>2. /\ lcall[t] # "delete" /\ keeper[t] \notin {"admitted", "spawned", "working", "reported"}
        /\ ~Terminal(t)
    BY <2>1, <1>6 DEF Journaled
  <2>3. ~Terminal(t)' /\ ~WorkerSettled(t)'
    BY <2>2, <1>5 DEF Terminal, WorkerSettled
  <2>4. exec'[t].pred # NoToken => exec'[t].pred \in Used' /\ Resumable(exec[t].pred)'
    BY <2>1, <1>5, <1>7, FrozenSays DEF Journaled, Frozen
  <2>5. (exec[t].pred # NoToken => exec[t].pred \in Used /\ Resumable(exec[t].pred))'
    BY <2>4, <1>5 DEF Resumable, Settled, WorkerSettled, Has
  <2>6. (wtok = t /\ w.pc = "stranded") => ~Unfinished(w.op)
    BY <2>1, <2>2 DEF Journaled
  <2> QED
    BY <2>1, <2>2, <2>3, <2>5, <2>6, <1>1, <1>5 DEF Journaled, vars, Unfinished, Exists
<1>9. Caller(p)'
  BY <1>1, <1>2, <1>3, <1>4, <1>5, <1>7 DEF Caller, Tok, Launching, Frozen, LogAt
<1>10. \A q \in Procs : q # p /\ Tok(q) = t => proc[q].pc \notin Launching \cup {"delete", "deleting"}
  BY <1>1, <1>2, <1>3, <1>6 DEF OInv, Apart, Caller, Launching
<1>11. LockMoves(p) /\ (lock' # NoToken => ~run)
  BY <1>1, <1>2, <1>4 DEF LockMoves, Locked
<1> QED
  BY <1>1, <1>2, <1>3, <1>4, <1>6, <1>8, <1>9, <1>10, <1>11, LogMoves DEF Tok, Records, Launching

-----------------------------------------------------------------------------
(* Steps that submit or carry out a launcher call, and those of the keeper. *)

Calls4 == {"none", "create", "run", "delete"}
Keepers == KeeperAlive \cup {"none", "gone"}

\* A step that concerns one execution and leaves the fence and the worker alone.
LEMMA Moves ==
  ASSUME OInv, NEW t \in Used, Frozen, UNCHANGED <<vars, claim, lock, wtok, run>>,
         exec' \in [Tokens -> Executions \cup {NoExec}], ltask' \in [Tokens -> BOOLEAN],
         lcall' \in [Tokens -> Calls4], keeper' \in [Tokens -> Keepers],
         \A u \in Tokens : u # t =>
           exec'[u] = exec[u] /\ lcall'[u] = lcall[u] /\ keeper'[u] = keeper[u],
         proc' \in [Procs -> CallerStates],
         \A q \in Procs : proc'[q].pc \in Locked <=> proc[q].pc \in Locked,
         lcall'[t] # "none" \/ keeper'[t] \in KeeperAlive => claim = t,
         Journaled(t)', \A q \in Procs : Caller(q)', Apart'
  PROVE  OInv'
<1>1. OwnerTypeOK /\ t \in Tokens
  BY UsedTyped DEF OInv
<1>2. Inv' /\ TypeOK'
  BY StutterInv DEF OInv, Inv
<1>3. OwnerTypeOK'
  BY <1>1, <1>2 DEF OwnerTypeOK, CallerStates, Calls4, Keepers
<1>4. Chained'
  BY FrozenChained DEF OInv
<1>5. \A u \in Tokens : Journaled(u)'
  BY OtherJournal DEF vars
<1>6. Covered'
  <2>1. w.pc # "idle" => claim \in Used
    BY DEF OInv, Covered
  <2> QED
    BY <1>1, <2>1 DEF OInv, Covered, vars, Frozen
<1> QED
  BY <1>2, <1>3, <1>4, <1>5, <1>6 DEF OInv

\* One that the callers do not notice.
LEMMA TokenMoves ==
  ASSUME OInv, NEW t \in Used, Frozen, UNCHANGED <<vars, claim, lock, wtok, proc, run>>,
         exec' \in [Tokens -> Executions \cup {NoExec}], ltask' \in [Tokens -> BOOLEAN],
         lcall' \in [Tokens -> Calls4], keeper' \in [Tokens -> Keepers],
         \A u \in Tokens : u # t =>
           exec'[u] = exec[u] /\ lcall'[u] = lcall[u] /\ keeper'[u] = keeper[u],
         lcall'[t] # "none" \/ keeper'[t] \in KeeperAlive => claim = t,
         exec'[t].log = exec[t].log \/ exec[t].log = 6,
         Journaled(t)'
  PROVE  OInv'
<1>1. ASSUME NEW q \in Procs PROVE Caller(q)'
  <2>1. Caller(q) /\ LogAt(proc[q].pc) # 6
    BY DEF OInv, LogAt
  <2>2. proc[q].pc \in Launching \cup {"delete", "deleting"} => exec'[Tok(q)].log = exec[Tok(q)].log
    <3> SUFFICES ASSUME proc[q].pc \in Launching \cup {"delete", "deleting"}
                 PROVE  exec'[Tok(q)].log = exec[Tok(q)].log
      OBVIOUS
    <3>1. Tok(q) \in Tokens /\ exec[Tok(q)].log # 6
      BY <2>1, UsedTyped DEF Caller, OInv
    <3> QED
      BY <3>1
  <2> QED
    BY <2>2, OtherCaller
<1>2. Apart'
  BY DEF OInv, Apart, Tok
<1>3. proc' \in [Procs -> CallerStates]
  BY ProcTyped
<1> QED
  BY <1>1, <1>2, <1>3, Moves

LEMMA Typed4 ==
  ASSUME OInv
  PROVE  /\ exec \in [Tokens -> Executions \cup {NoExec}] /\ ltask \in [Tokens -> BOOLEAN]
         /\ lcall \in [Tokens -> Calls4] /\ keeper \in [Tokens -> Keepers]
BY DEF OInv, OwnerTypeOK, Calls4, Keepers

LEMMA LauncherCallStep == ASSUME OInv, NEW t \in Tokens, LauncherCall(t) PROVE OInv'
<1>1. /\ lcall[t] # "none" /\ lcall' = [lcall EXCEPT ![t] = "none"]
      /\ UNCHANGED <<vars, exec, claim, lock, wtok, proc, run>>
  BY DEF LauncherCall
<1>2. t \in Used /\ claim = t /\ Journaled(t)
  BY <1>1 DEF OInv, Journaled, Covered
<1>3. Frozen
  BY <1>1, FrozenSame
<1>4. /\ ltask' \in [Tokens -> BOOLEAN] /\ keeper' \in [Tokens -> Keepers]
      /\ \A u \in Tokens : u # t => keeper'[u] = keeper[u]
      /\ keeper'[t] = keeper[t] \/ (keeper[t] = "none" /\ keeper'[t] = "polling" /\ lcall[t] = "run")
  BY Typed4 DEF LauncherCall, Keepers, KeeperAlive
<1>5. lcall' \in [Tokens -> Calls4] /\ lcall'[t] = "none" /\ \A u \in Tokens : u # t => lcall'[u] = lcall[u]
  BY <1>1, Typed4 DEF Calls4
<1>6. Journaled(t)'
  <2>1. (exec[t].pred # NoToken => exec[t].pred \in Used /\ Resumable(exec[t].pred))'
    BY <1>1, <1>2, <1>3, FrozenSays DEF Journaled, Frozen
  <2> QED
    BY <1>1, <1>2, <1>3, <1>4, <1>5, <2>1 DEF Journaled, Terminal, WorkerSettled, Unfinished, Exists, Frozen, vars
<1> QED
  BY <1>1, <1>2, <1>3, <1>4, <1>5, <1>6, TokenMoves, Typed4

LEMMA SubmittedStep ==
  ASSUME OInv, NEW p \in Procs,
         NEW pc \in {"create", "launch", "delete"}, NEW kind \in {"create", "run", "delete"},
         NEW next \in {"creating", "starting", "deleting"}, Submitted(p, pc, kind, next),
         IF pc = "delete" THEN kind = "delete" /\ next = "deleting"
                          ELSE kind # "delete" /\ next # "deleting" /\ LogAt(next) = LogAt(pc)
  PROVE  OInv'
<1>1. /\ proc[p].pc = pc /\ lcall' = [lcall EXCEPT ![Tok(p)] = kind] /\ To(p, next)
      /\ UNCHANGED <<vars, exec, claim, lock, ltask, keeper, wtok, run>>
  BY DEF Submitted, Is
<1>2. /\ Tok(p) \in Used /\ claim = Tok(p) /\ Caller(p)
      /\ exec[Tok(p)].log = (IF pc = "delete" THEN 8 ELSE LogAt(pc))
  BY <1>1 DEF OInv, Caller, Launching
<1>3. PICK t \in Used : t = Tok(p)
  BY <1>2
<1>4. /\ proc' \in [Procs -> CallerStates] /\ \A q \in Procs : q # p => proc'[q] = proc[q]
      /\ proc'[p].pc = next /\ proc'[p].tok = t
  BY <1>1, <1>3, ToFx, ProcTyped DEF ProcPcs, Tok, Locked
<1>5. t \in Tokens /\ Journaled(t) /\ Frozen
  BY <1>1, FrozenSame, UsedTyped DEF OInv
<1>6. lcall' \in [Tokens -> Calls4] /\ lcall'[t] = kind /\ \A u \in Tokens : u # t => lcall'[u] = lcall[u]
  BY <1>1, <1>3, <1>5, Typed4 DEF Calls4
<1>7. Journaled(t)'
  <2>1. (exec[t].pred # NoToken => exec[t].pred \in Used /\ Resumable(exec[t].pred))'
    BY <1>1, <1>5, FrozenSays DEF Journaled, Frozen
  <2>2. IF pc = "delete" THEN exec[t].log = 8 ELSE exec[t].log <= 5 /\ exec[t].log \in Nat
    BY <1>2, <1>3 DEF LogAt
  <2> QED
    BY <1>1, <1>5, <1>6, <2>1, <2>2 DEF Journaled, Terminal, WorkerSettled, Unfinished, Exists, Frozen, vars
<1>8. Caller(p)'
  BY <1>1, <1>2, <1>3, <1>4, <1>5 DEF Caller, Tok, Launching, Frozen
<1>9. \A q \in Procs : Caller(q)'
  BY <1>1, <1>4, <1>5, <1>8, OtherCaller
<1>10. Apart'
  BY <1>1, <1>3, <1>4, ApartKept DEF Launching, Tok
<1>11. \A q \in Procs : proc'[q].pc \in Locked <=> proc[q].pc \in Locked
  BY <1>1, <1>4 DEF Locked
<1> QED
  BY <1>1, <1>2, <1>3, <1>4, <1>5, <1>6, <1>7, <1>9, <1>10, <1>11, Moves, Typed4

LEMMA LaunchStepStep == ASSUME OInv, NEW p \in Procs, LaunchStep(p) PROVE OInv'
<1>1. CASE Announce(p, "submit", "submitted", "create")
  BY <1>1, AnnounceStep, Positions DEF Records, LogAt
<1>2. CASE Registered(p, "creating") /\ Announce(p, "creating", "registered", "run")
  BY <1>2, AnnounceStep, Positions DEF Records, LogAt
<1>3. CASE Announce(p, "run", "run", "launch")
  BY <1>3, AnnounceStep, Positions DEF Records, LogAt
<1>4. CASE Registered(p, "starting") /\ Announce(p, "starting", "started", "poll")
  BY <1>4, AnnounceStep, Positions DEF Records, LogAt, Registered
<1>5. CASE Submitted(p, "create", "create", "creating")
  BY <1>5, SubmittedStep, Positions DEF LogAt
<1>6. CASE Submitted(p, "launch", "run", "starting")
  BY <1>6, SubmittedStep, Positions DEF LogAt
<1> QED
  BY <1>1, <1>2, <1>3, <1>4, <1>5, <1>6 DEF LaunchStep

LEMMA SettleLauncherStep == ASSUME OInv, NEW p \in Procs, SettleLauncher(p) PROVE OInv'
<1>1. /\ proc[p].pc = "settle" /\ Log(Tok(p), "delete") /\ To(p, "delete") /\ lock' = p
      /\ lock = NoToken /\ ~run /\ claim = Tok(p)
      /\ WorkerSettled(Tok(p)) /\ exec[Tok(p)].log >= 7 /\ ~(exec[Tok(p)].log >= 8)
      /\ keeper[Tok(p)] = "gone"
      /\ UNCHANGED <<vars, claim, ltask, lcall, keeper, wtok, run>>
  BY Positions DEF SettleLauncher, Is, Maintain, LocksFree, Fenced, Has
<1>2. PICK t \in Used : t = Tok(p)
  BY <1>1 DEF OInv, Caller
<1>3. t \in Tokens /\ t # NoToken /\ exec[t] \in Executions /\ exec[t].log = 7
  BY <1>1, <1>2, UsedTyped, ProcTyped DEF Executions
<1>4. /\ proc' \in [Procs -> CallerStates] /\ \A q \in Procs : q # p => proc'[q] = proc[q]
      /\ proc'[p].pc = "delete" /\ proc'[p].tok = t
  BY <1>1, <1>2, ToFx, ProcTyped DEF ProcPcs, Locked, Tok
<1>5. /\ exec'[t] \in Executions /\ exec'[t].log = 8 /\ exec'[t].pred = exec[t].pred
      /\ exec'[t].exit = exec[t].exit /\ exec'[t].op = exec[t].op /\ exec'[t].mut = exec[t].mut
      /\ \A u \in Tokens : u # t => exec'[u] = exec[u]
  BY <1>1, <1>2, LogFx, ProcTyped, Positions DEF Records
<1>6. Frozen
  BY <1>3, <1>5, FrozenOne, Positions, ProcTyped DEF Settled, Has
<1>7. Journaled(t)'
  <2>1. Journaled(t) /\ Used' = Used
    BY <1>3, <1>6 DEF OInv, Frozen
  <2>2. Terminal(t)' /\ WorkerSettled(t)' /\ WorkerSettled(t)
    BY <1>1, <1>2, <1>5 DEF Terminal, WorkerSettled
  <2>3. exec'[t].pred # NoToken => exec'[t].pred \in Used' /\ Resumable(exec[t].pred)'
    BY <2>1, <1>5, <1>6, FrozenSays DEF Journaled, Frozen
  <2>4. (exec[t].pred # NoToken => exec[t].pred \in Used /\ Resumable(exec[t].pred))'
    BY <2>3, <1>5 DEF Resumable, Settled, WorkerSettled, Has
  <2> QED
    BY <2>1, <2>2, <2>4, <1>1, <1>2, <1>3, <1>5 DEF Journaled, vars
<1>8. Caller(p)'
  BY <1>1, <1>2, <1>4, <1>5, <1>6 DEF Caller, Tok, Launching, Frozen
<1>9. \A q \in Procs : q # p /\ Tok(q) = t => proc[q].pc \notin Launching \cup {"delete", "deleting"}
  <2> SUFFICES ASSUME NEW q \in Procs, q # p, Tok(q) = t,
                      proc[q].pc \in Launching \cup {"delete", "deleting"}
               PROVE  FALSE
    OBVIOUS
  <2>1. Caller(q) /\ (lock = q <=> proc[q].pc \in Locked)
    BY LockSays DEF OInv
  <2>2. LogAt(proc[q].pc) # 7
    BY DEF LogAt
  <2> QED
    BY <2>1, <2>2, <1>1, <1>3, OwnerAssumption DEF Caller, Locked
<1>10. LockMoves(p) /\ (lock' # NoToken => ~run)
  BY <1>1, <1>4 DEF LockMoves, Locked
<1> QED
  BY <1>1, <1>2, <1>3, <1>4, <1>7, <1>8, <1>9, <1>10, LogMoves DEF Tok, Records, Launching

LEMMA CleanedStep == ASSUME OInv, NEW p \in Procs, Cleaned(p) PROVE OInv'
<1>1. /\ proc[p].pc = "deleting" /\ Log(Tok(p), "cleaned") /\ lock' = NoToken
      /\ lcall[Tok(p)] = "none"
      /\ UNCHANGED <<vars, claim, ltask, lcall, keeper, wtok, run>>
  BY DEF Cleaned, Is
<1>2. PICK next \in {"preview", "release"} : To(p, next)
  BY DEF Cleaned
<1>3. Tok(p) \in Used /\ exec[Tok(p)].log = 8 /\ claim = Tok(p) /\ lock = p
  BY <1>1, LockSays DEF OInv, Caller, Locked
<1>4. PICK t \in Used : t = Tok(p)
  BY <1>3
<1>5. t \in Tokens /\ t # NoToken /\ exec[t] \in Executions /\ exec[t].log = 8
  BY <1>3, <1>4, UsedTyped, ProcTyped
<1>6. /\ proc' \in [Procs -> CallerStates] /\ \A q \in Procs : q # p => proc'[q] = proc[q]
      /\ proc'[p].pc = next /\ proc'[p].tok = t
  BY <1>2, <1>4, ToFx, ProcTyped DEF ProcPcs, Tok
<1>7. /\ exec'[t] \in Executions /\ exec'[t].log = 9 /\ exec'[t].pred = exec[t].pred
      /\ exec'[t].exit = exec[t].exit /\ exec'[t].op = exec[t].op /\ exec'[t].mut = exec[t].mut
      /\ \A u \in Tokens : u # t => exec'[u] = exec[u]
  BY <1>1, <1>4, LogFx, ProcTyped, Positions DEF Records
<1>8. Frozen
  BY <1>5, <1>7, FrozenOne, Positions, ProcTyped DEF Settled, Has
<1>9. Journaled(t) /\ WorkerSettled(t) /\ Settled(t)'
  <2>1. Journaled(t) /\ WorkerSettled(t)
    BY <1>5 DEF OInv, Journaled
  <2> QED
    BY <2>1, <1>7, Positions DEF Settled, WorkerSettled, Has
<1>10. Journaled(t)'
  <2>1. Terminal(t)' /\ WorkerSettled(t)' /\ Terminal(t)
    BY <1>7, <1>9 DEF Terminal, WorkerSettled
  <2>2. exec'[t].pred # NoToken => exec'[t].pred \in Used' /\ Resumable(exec[t].pred)'
    BY <1>7, <1>8, <1>9, FrozenSays DEF Journaled, Frozen
  <2>3. (exec[t].pred # NoToken => exec[t].pred \in Used /\ Resumable(exec[t].pred))'
    BY <2>2, <1>7 DEF Resumable, Settled, WorkerSettled, Has
  <2> QED
    BY <2>1, <2>3, <1>1, <1>4, <1>5, <1>7, <1>8, <1>9 DEF Journaled, vars, Frozen
<1>11. Caller(p)'
  BY <1>1, <1>2, <1>4, <1>6, <1>8, <1>9 DEF Caller, Tok, Launching, Frozen, Settled, WorkerSettled, Has
<1>12. \A q \in Procs : q # p /\ Tok(q) = t => proc[q].pc \notin Launching \cup {"delete", "deleting"}
  <2> SUFFICES ASSUME NEW q \in Procs, q # p, Tok(q) = t,
                      proc[q].pc \in Launching \cup {"delete", "deleting"}
               PROVE  FALSE
    OBVIOUS
  <2>1. Caller(q) /\ (lock = q <=> proc[q].pc \in Locked)
    BY LockSays DEF OInv
  <2>2. LogAt(proc[q].pc) # 8
    BY DEF LogAt
  <2> QED
    BY <2>1, <2>2, <1>3, <1>5 DEF Caller, Locked
<1>13. LockMoves(p) /\ (lock' # NoToken => ~run)
  BY <1>1, <1>2, <1>3, <1>6 DEF LockMoves, Locked
<1> QED
  BY <1>1, <1>4, <1>5, <1>6, <1>10, <1>11, <1>12, <1>13, LogMoves DEF Tok, Records, Launching

LEMMA KeeperFx ==
  ASSUME OInv, NEW t \in Tokens, NEW pc \in Keepers, KeeperTo(t, pc)
  PROVE  /\ keeper' \in [Tokens -> Keepers] /\ keeper'[t] = pc
         /\ \A u \in Tokens : u # t => keeper'[u] = keeper[u]
BY Typed4 DEF KeeperTo

LEMMA KeeperUsed ==
  ASSUME OInv, NEW t \in Tokens, keeper[t] \in KeeperAlive
  PROVE  t \in Used /\ claim = t /\ Journaled(t) /\ exec[t] \in Executions /\ t # NoToken /\ ~run
BY UsedTyped DEF OInv, Journaled, Covered, KeeperAlive

LEMMA PredKept ==
  ASSUME OInv, Frozen, NEW t \in Used, Journaled(t), exec'[t].pred = exec[t].pred
  PROVE  (exec[t].pred # NoToken => exec[t].pred \in Used /\ Resumable(exec[t].pred))'
<1>1. exec'[t].pred # NoToken => exec'[t].pred \in Used' /\ Resumable(exec[t].pred)'
  BY FrozenSays DEF Journaled, Frozen
<1> QED
  BY <1>1 DEF Resumable, Settled, WorkerSettled, Has

LEMMA AdmitKeeperStep == ASSUME OInv, NEW t \in Tokens, AdmitKeeper(t) PROVE OInv'
<1>1. /\ keeper[t] = "polling" /\ Log(t, "keeper") /\ KeeperTo(t, "admitted")
      /\ exec[t].log >= 6 /\ ~(exec[t].log >= 7) /\ ~Terminal(t)
      /\ UNCHANGED <<vars, claim, lock, ltask, lcall, wtok, proc, run>>
  BY Positions DEF AdmitKeeper, Keeps, Has
<1>2. t \in Used /\ claim = t /\ Journaled(t) /\ exec[t] \in Executions
  BY <1>1, KeeperUsed DEF KeeperAlive
<1>3. exec[t].log = 6
  BY <1>1, <1>2 DEF Executions
<1>4. /\ exec' \in [Tokens -> Executions \cup {NoExec}] /\ exec'[t] \in Executions
      /\ \A u \in Tokens : u # t => exec'[u] = exec[u]
      /\ exec'[t].log = 7 /\ exec'[t].op = exec[t].op /\ exec'[t].pred = exec[t].pred
      /\ exec'[t].exit = exec[t].exit
  BY <1>1, <1>2, LogFx, ProcTyped, Positions
<1>5. /\ keeper' \in [Tokens -> Keepers] /\ keeper'[t] = "admitted"
      /\ \A u \in Tokens : u # t => keeper'[u] = keeper[u]
  BY <1>1, KeeperFx DEF Keepers, KeeperAlive
<1>6. Frozen
  BY <1>2, <1>3, <1>4, FrozenOne, ProcTyped, Positions DEF Settled, Has
<1>7. Journaled(t)'
  <2>1. (exec[t].pred # NoToken => exec[t].pred \in Used /\ Resumable(exec[t].pred))'
    BY <1>2, <1>4, <1>6, PredKept
  <2>2. ~Terminal(t)' /\ ~WorkerSettled(t)'
    BY <1>1, <1>4 DEF Terminal, WorkerSettled
  <2>3. lcall[t] \in {"none", "delete"} /\ lcall[t] # "delete" /\ wtok # t
    BY <1>1, <1>2, <1>3 DEF Journaled
  <2> QED
    BY <1>1, <1>2, <1>3, <1>4, <1>5, <1>6, <2>1, <2>2, <2>3 DEF Journaled, Frozen, vars
<1> QED
  BY <1>1, <1>2, <1>3, <1>4, <1>5, <1>6, <1>7, TokenMoves, Typed4

\* A keeper that goes on and writes nothing that another reads.
LEMMA KeeperSteps ==
  ASSUME OInv, NEW t \in Tokens, keeper[t] \in KeeperAlive, NEW pc \in Keepers,
         KeeperTo(t, pc), UNCHANGED <<vars, claim, lock, ltask, lcall, wtok, proc, run>>,
         exec' \in [Tokens -> Executions \cup {NoExec}], exec'[t] \in Executions,
         \A u \in Tokens : u # t => exec'[u] = exec[u],
         exec'[t].log = exec[t].log, exec'[t].op = exec[t].op, exec'[t].pred = exec[t].pred,
         exec'[t].exit = exec[t].exit, exec'[t].mut = exec[t].mut,
         \/ pc = "gone"
         \/ keeper[t] = "admitted" /\ pc = "spawned"
         \/ keeper[t] = "spawned" /\ pc = "working"
  PROVE  OInv'
<1>1. t \in Used /\ claim = t /\ Journaled(t) /\ exec[t] \in Executions
  BY KeeperUsed
<1>2. /\ keeper' \in [Tokens -> Keepers] /\ keeper'[t] = pc
      /\ \A u \in Tokens : u # t => keeper'[u] = keeper[u]
  BY KeeperFx
<1>3. exec[t].log \in 1 .. 9 /\ ~(exec[t].log >= 8)
  BY <1>1 DEF Journaled, Executions, KeeperAlive
<1>4. Frozen
  BY <1>1, <1>3, FrozenOne, ProcTyped, Positions DEF Settled, Has
<1>5. Journaled(t)'
  <2>1. (exec[t].pred # NoToken => exec[t].pred \in Used /\ Resumable(exec[t].pred))'
    BY <1>1, <1>4, PredKept
  <2>2. (Terminal(t) <=> Terminal(t)') /\ (WorkerSettled(t) <=> WorkerSettled(t)')
    BY DEF Terminal, WorkerSettled
  <2>3. UNCHANGED <<w, receipt, lcall, wtok>> /\ (Unfinished(w.op) <=> Unfinished(w.op)')
    BY DEF vars, Unfinished, Exists
  <2> QED
    BY <1>1, <1>2, <1>3, <1>4, <2>1, <2>2, <2>3 DEF Journaled, Frozen, KeeperAlive
<1> QED
  BY <1>1, <1>2, <1>4, <1>5, TokenMoves, Typed4

LEMMA SpawnStep == ASSUME OInv, NEW t \in Tokens, Spawn(t) PROVE OInv'
<1>1. /\ keeper[t] = "admitted" /\ KeeperTo(t, "spawned")
      /\ UNCHANGED <<vars, claim, lock, ltask, lcall, wtok, proc, run>>
  BY DEF Spawn, Keeps
<1>2. t \in Used /\ exec[t] \in Executions
  BY <1>1, KeeperUsed DEF KeeperAlive
<1> DEFINE n == [exec[t] EXCEPT !.owned = TRUE]
<1>3. exec' = [exec EXCEPT ![t] = n]
  BY DEF Spawn
<1>4. /\ n \in Executions /\ n.log = exec[t].log /\ n.op = exec[t].op /\ n.pred = exec[t].pred
      /\ n.exit = exec[t].exit /\ n.mut = exec[t].mut
  BY <1>2 DEF Executions
<1> HIDE DEF n
<1>5. /\ exec' \in [Tokens -> Executions \cup {NoExec}] /\ exec'[t] = n
      /\ \A u \in Tokens : u # t => exec'[u] = exec[u]
  BY <1>3, <1>4, Typed4
<1> QED
  BY <1>1, <1>4, <1>5, KeeperSteps DEF Keepers, KeeperAlive

LEMMA ResumeStep == ASSUME OInv, NEW t \in Tokens, Resume(t) PROVE OInv'
<1>1. /\ keeper[t] = "spawned" /\ KeeperTo(t, "working")
      /\ UNCHANGED <<vars, exec, claim, lock, ltask, lcall, wtok, proc, run>>
  BY DEF Resume, Keeps
<1>2. exec[t] \in Executions
  BY <1>1, KeeperUsed DEF KeeperAlive
<1> QED
  BY <1>1, <1>2, KeeperSteps, Typed4 DEF Keepers, KeeperAlive

LEMMA KeeperGoneStep == ASSUME OInv, NEW t \in Tokens, KeeperGone(t) PROVE OInv'
<1>1. /\ keeper[t] \in KeeperAlive /\ KeeperTo(t, "gone")
      /\ UNCHANGED <<vars, exec, claim, lock, ltask, lcall, wtok, proc, run>>
  BY DEF KeeperGone
<1>2. exec[t] \in Executions
  BY <1>1, KeeperUsed
<1> QED
  BY <1>1, <1>2, KeeperSteps, Typed4 DEF Keepers

\* A keeper that records how its execution ended, without a result of the worker.
LEMMA KeeperEnds ==
  ASSUME OInv, NEW t \in Tokens, keeper[t] \in {"admitted", "spawned", "working"},
         NEW exit \in Exits \ {"none"}, NEW mut \in {"none", "settled", "unknown"},
         NEW state \in {"none", "conflict"} \cup States, NEW pub \in {"none", "failed", "published"},
         Ends(t, exit, mut, state, pub),
         UNCHANGED <<vars, claim, lock, ltask, lcall, wtok, proc, run>>,
         mut = "settled" /\ wtok = t => w.pc = "idle" \/ exit = "unknown"
  PROVE  OInv'
<1>1. t \in Used /\ claim = t /\ Journaled(t) /\ exec[t] \in Executions
  BY KeeperUsed DEF KeeperAlive
<1>2. /\ exec' \in [Tokens -> Executions \cup {NoExec}] /\ exec'[t] \in Executions
      /\ \A u \in Tokens : u # t => exec'[u] = exec[u] /\ keeper'[u] = keeper[u]
      /\ exec'[t].log = exec[t].log /\ exec'[t].op = exec[t].op /\ exec'[t].pred = exec[t].pred
      /\ exec'[t].exit = exit /\ exec'[t].mut = mut
      /\ keeper' \in [Tokens -> KeeperAlive \cup {"none", "gone"}] /\ keeper'[t] = "reported"
  BY <1>1, EndsFx, ProcTyped
<1>3. exec[t].log = 7
  BY <1>1 DEF Journaled
<1>4. Frozen
  BY <1>1, <1>2, <1>3, FrozenOne, ProcTyped, Positions DEF Settled, Has
<1>5. Journaled(t)'
  <2>1. (exec[t].pred # NoToken => exec[t].pred \in Used /\ Resumable(exec[t].pred))'
    BY <1>1, <1>2, <1>4, PredKept
  <2>2. Terminal(t)' /\ (wtok = t /\ w.pc # "idle" => ~WorkerSettled(t)')
    BY <1>2 DEF Terminal, WorkerSettled
  <2>3. UNCHANGED <<w, receipt, lcall, wtok>>
    BY DEF vars
  <2>4. wtok = t => keeper[t] = "working"
    BY <1>1 DEF Journaled
  <2> QED
    BY <1>1, <1>2, <1>3, <1>4, <2>1, <2>2, <2>3, <2>4 DEF Journaled, Frozen, KeeperAlive
<1> QED
  BY <1>1, <1>2, <1>4, <1>5, TokenMoves, Typed4 DEF Keepers

LEMMA NotStartedStep == ASSUME OInv, NEW t \in Tokens, NotStarted(t) PROVE OInv'
<1>1. keeper[t] = "admitted"
  BY DEF NotStarted, Keeps
<1>2. wtok # t
  BY <1>1, KeeperUsed DEF KeeperAlive, Journaled
<1> QED
  BY <1>1, <1>2, KeeperEnds DEF NotStarted, Exits, States

LEMMA LostStep == ASSUME OInv, NEW t \in Tokens, Lost(t) PROVE OInv'
<1>1. keeper[t] \in {"spawned", "working"} /\ (wtok = t => keeper[t] = "working")
  BY KeeperUsed DEF Lost, NoResult, Keeps, KeeperAlive, Journaled
<1>2. t \in Used /\ Journaled(t) /\ claim = t
  BY <1>1, KeeperUsed DEF KeeperAlive
<1>3. CASE Unfinished(exec[t].op)
  <2>1. wtok = t => w.pc = "idle"
    <3> SUFFICES ASSUME wtok = t, w.pc # "idle" PROVE FALSE
      OBVIOUS
    <3>1. w.pc = "stranded" /\ w.op = exec[t].op
      BY <1>1 DEF Lost, NoResult, Keeps, OInv, Covered
    <3>2. ~Terminal(t)
      BY <1>1, <1>2 DEF Journaled
    <3> QED
      BY <1>2, <1>3, <3>1, <3>2 DEF Journaled
  <2> QED
    BY <1>1, <1>3, <2>1, KeeperEnds DEF Lost, Exits, States
<1>4. CASE ~Unfinished(exec[t].op)
  BY <1>1, <1>4, KeeperEnds DEF Lost, Exits, States
<1> QED
  BY <1>3, <1>4

LEMMA TreeUnknownStep == ASSUME OInv, NEW t \in Tokens, TreeUnknown(t) PROVE OInv'
BY KeeperEnds DEF TreeUnknown, Exits, States

LEMMA StopStep == ASSUME OInv, NEW p \in Procs, NEW t \in Tokens, Stop(p, t) PROVE OInv'
<1>1. Is(p, "idle") /\ t \in Used
  BY DEF Stop
<1>2. CASE /\ ~Terminal(t) /\ exec' = [exec EXCEPT ![t].cancel = TRUE]
           /\ UNCHANGED <<vars, claim, lock, ltask, lcall, keeper, wtok, proc, run>>
  <2> DEFINE n == [exec[t] EXCEPT !.cancel = TRUE]
  <2>1. exec[t] \in Executions /\ exec' = [exec EXCEPT ![t] = n]
    BY <1>1, <1>2, UsedTyped, ProcTyped
  <2>2. /\ n \in Executions /\ n.log = exec[t].log /\ n.op = exec[t].op /\ n.pred = exec[t].pred
        /\ n.exit = exec[t].exit /\ n.mut = exec[t].mut
    BY <2>1 DEF Executions
  <2> HIDE DEF n
  <2>3. /\ exec' \in [Tokens -> Executions \cup {NoExec}] /\ exec'[t] = n
        /\ \A u \in Tokens : u # t => exec'[u] = exec[u]
    BY <2>1, <2>2, Typed4
  <2>4. Frozen
    BY <1>1, <1>2, <2>2, <2>3, FrozenOne, ProcTyped DEF Settled, WorkerSettled, Terminal
  <2>5. Journaled(t) /\ (lcall[t] # "none" \/ keeper[t] \in KeeperAlive => claim = t)
    BY <1>1 DEF OInv, Covered
  <2>6. Journaled(t)'
    <3>1. (exec[t].pred # NoToken => exec[t].pred \in Used /\ Resumable(exec[t].pred))'
      BY <1>1, <2>2, <2>3, <2>4, <2>5, PredKept
    <3>2. (Terminal(t) <=> Terminal(t)') /\ (WorkerSettled(t) <=> WorkerSettled(t)')
      BY <2>2, <2>3 DEF Terminal, WorkerSettled
    <3>3. UNCHANGED <<w, receipt, lcall, wtok, keeper>> /\ (Unfinished(w.op) <=> Unfinished(w.op)')
      BY <1>2 DEF vars, Unfinished, Exists
    <3> QED
      BY <1>1, <2>2, <2>3, <2>4, <2>5, <3>1, <3>2, <3>3 DEF Journaled, Frozen
  <2> QED
    BY <1>1, <1>2, <2>2, <2>3, <2>4, <2>5, <2>6, TokenMoves, Typed4
<1>3. CASE /\ WorkerSettled(t)
           /\ proc' = [proc EXCEPT ![p] =
                [pc |-> IF Settled(t) THEN "release" ELSE "settle", cmd |-> "stop",
                 op |-> exec[t].op, tok |-> t, own |-> NoToken]]
           /\ UNCHANGED <<vars, exec, claim, lock, ltask, lcall, keeper, wtok, run>>
  <2> DEFINE r == [pc |-> IF Settled(t) THEN "release" ELSE "settle", cmd |-> "stop",
                   op |-> exec[t].op, tok |-> t, own |-> NoToken]
  <2>1. /\ r \in CallerStates /\ r.pc \in {"release", "settle"} /\ r.tok = t
        /\ r.pc = "release" => Settled(t)
    BY <1>1, UsedTyped, ProcTyped, TokenFacts DEF CallerStates, ProcPcs, Executions
  <2>2. proc' = [proc EXCEPT ![p] = r]
    BY <1>3
  <2> HIDE DEF r
  <2>3. /\ proc' \in [Procs -> CallerStates] /\ \A q \in Procs : q # p => proc'[q] = proc[q]
        /\ proc'[p] = r
    BY <2>1, <2>2, PutFx, ProcTyped
  <2>4. Caller(p)'
    BY <1>1, <1>3, <2>1, <2>3, FrozenSame, FrozenSays DEF Caller, Tok, Launching, Frozen
  <2>5. LockMoves(p) /\ (lock # NoToken => ~run)
    BY <1>1, <1>3, <2>1, <2>3 DEF LockMoves, Is, Locked, OInv, Covered
  <2> QED
    BY <1>1, <1>3, <2>1, <2>3, <2>4, <2>5, CallerMoves DEF Launching
<1> QED
  BY <1>2, <1>3 DEF Stop

-----------------------------------------------------------------------------
(* Taking the fence down and putting it up. *)

LEMMA SettledQuiet ==
  ASSUME OInv, NEW t \in Used, Settled(t)
  PROVE  /\ exec[t].log = 9 /\ lcall[t] = "none" /\ keeper[t] \notin KeeperAlive
         /\ claim = t => w.pc = "idle"
<1>1. Journaled(t) /\ exec[t] \in Executions /\ t \in Tokens /\ WorkerSettled(t)
  BY UsedTyped DEF OInv, Settled
<1>2. exec[t].log = 9
  BY <1>1, Positions DEF Settled, Has, Executions
<1>3. claim = t => w.pc = "idle"
  BY <1>1 DEF OInv, Covered, Journaled
<1> QED
  BY <1>1, <1>2, <1>3 DEF Journaled, KeeperAlive

\* While the fence is down or that of a settled execution nobody is at work.
LEMMA Quiet ==
  ASSUME OInv, claim # NoToken => Settled(claim)
  PROVE  /\ w.pc = "idle"
         /\ \A u \in Tokens : lcall[u] = "none" /\ keeper[u] \notin KeeperAlive
         /\ \A q \in Procs : proc[q].pc \notin (Launching \ {"claim"}) \cup {"delete", "deleting"}
<1>1. claim # NoToken => claim \in Used
  BY DEF OInv, Covered
<1>2. w.pc = "idle"
  BY <1>1, SettledQuiet DEF OInv, Covered
<1>3. ASSUME NEW u \in Tokens PROVE lcall[u] = "none" /\ keeper[u] \notin KeeperAlive
  BY <1>1, SettledQuiet, TokenFacts DEF OInv, Covered
<1>4. ASSUME NEW q \in Procs, proc[q].pc \in (Launching \ {"claim"}) \cup {"delete", "deleting"}
      PROVE  FALSE
  <2>1. claim = Tok(q) /\ Tok(q) \in Used /\ exec[Tok(q)].log # 9
    BY <1>4 DEF OInv, Caller, Launching, LogAt
  <2>2. claim # NoToken
    BY <2>1, UsedTyped DEF OInv
  <2> QED
    BY <2>1, <2>2, SettledQuiet
<1> QED
  BY <1>2, <1>3, <1>4

LEMMA FenceDown ==
  ASSUME OInv, NEW p \in Procs, claim # NoToken => Settled(claim), claim' = NoToken,
         UNCHANGED <<vars, exec, ltask, lcall, keeper, wtok, run>>,
         proc' \in [Procs -> CallerStates], \A q \in Procs : q # p => proc'[q] = proc[q],
         LockMoves(p), lock' # NoToken => ~run, Caller(p)', proc'[p].pc \notin Launching
  PROVE  OInv'
<1>1. Frozen
  BY FrozenSame
<1>2. Inv' /\ TypeOK'
  BY StutterInv DEF OInv, Inv
<1>3. OwnerTypeOK'
  BY <1>2, LockKept, TokenFacts DEF OInv, OwnerTypeOK, CallerStates
<1>4. Apart' /\ Chained'
  BY <1>1, ApartKept, FrozenChained DEF OInv
<1>5. \A t \in Tokens : Journaled(t)'
  BY <1>1, OtherJournal DEF vars
<1>6. ASSUME NEW q \in Procs, q # p PROVE Caller(q)'
  <2>1. Caller(q) /\ Tok(q)' = Tok(q) /\ proc'[q] = proc[q]
    BY <1>6 DEF OInv, Tok
  <2>2. proc[q].pc = "mkdir" => (\A u \in Journal(proc[q].op) : exec[u].pred # Tok(q))'
    BY <1>1, <2>1 DEF Caller, Journal, Frozen
  <2>3. Tok(q) \in Used => /\ Settled(Tok(q)) => Settled(Tok(q))'
                           /\ Resumable(Tok(q)) => Resumable(Tok(q))'
    BY <1>1, <2>1 DEF Frozen, Settled, Resumable, WorkerSettled, Has
  <2>4. proc[q].pc \notin (Launching \ {"claim"}) \cup {"delete", "deleting"}
    BY Quiet
  <2> QED
    BY <1>1, <2>1, <2>2, <2>3, <2>4 DEF Caller, Frozen, Launching
<1>7. Covered'
  BY Quiet DEF OInv, Covered, vars
<1> QED
  BY <1>2, <1>3, <1>4, <1>5, <1>6, <1>7 DEF OInv

LEMMA ReleaseFenceStep == ASSUME OInv, NEW p \in Procs, ReleaseFence(p) PROVE OInv'
<1>1. /\ proc[p].pc = "release" /\ proc' = [proc EXCEPT ![p] = Idle(p)] /\ claim' = NoToken
      /\ UNCHANGED <<vars, exec, lock, ltask, lcall, keeper, wtok, run>>
      /\ claim # NoToken => claim = Tok(p)
  BY DEF ReleaseFence, Is, Maintain, Fenced
<1>2. claim # NoToken => Settled(claim)
  BY <1>1 DEF OInv, Caller
<1>3. Idle(p) \in CallerStates /\ Idle(p).pc = "idle" /\ Idle(p).tok = NoToken
  BY ProcTyped, TokenFacts DEF Idle, CallerStates, ProcPcs
<1>4. /\ proc' \in [Procs -> CallerStates] /\ \A q \in Procs : q # p => proc'[q] = proc[q]
      /\ proc'[p] = Idle(p)
  BY <1>1, <1>3, PutFx, ProcTyped
<1>5. Caller(p)'
  BY <1>3, <1>4 DEF Caller, Launching
<1>6. LockMoves(p) /\ (lock # NoToken => ~run)
  BY <1>1, <1>3, <1>4 DEF LockMoves, Locked, OInv, Covered
<1> QED
  BY <1>1, <1>2, <1>3, <1>4, <1>5, <1>6, FenceDown DEF Launching

LEMMA AdmitStep == ASSUME OInv, NEW p \in Procs, Admit(p) PROVE OInv'
<1>1. /\ proc[p].pc = "admit" /\ lock = NoToken /\ ~run /\ claim = proc[p].own
      /\ claim' = NoToken /\ lock' = p /\ To(p, "mkdir") /\ Used # Tokens
      /\ UNCHANGED <<vars, exec, ltask, lcall, keeper, wtok, run>>
  BY DEF Admit, Is, Maintain, Fenced, LocksFree
<1>2. IF Tok(p) = NoToken THEN Journal(proc[p].op) = {}
      ELSE Current(proc[p].op, Tok(p)) /\ Settled(Tok(p))
  BY DEF Admit
<1>3. Caller(p)
  BY DEF OInv
<1>4. claim # NoToken => Settled(claim)
  BY <1>1, <1>2, <1>3 DEF Caller, Current
<1>5. /\ proc' \in [Procs -> CallerStates] /\ \A q \in Procs : q # p => proc'[q] = proc[q]
      /\ proc'[p].pc = "mkdir" /\ proc'[p].tok = proc[p].tok /\ proc'[p].op = proc[p].op
  BY <1>1, ToFx, ProcTyped DEF ProcPcs, Locked
<1>6. \A u \in Journal(proc[p].op) : exec[u].pred # Tok(p)
  BY <1>2 DEF Current
<1>7. Caller(p)'
  <2>1. Tok(p)' = Tok(p) /\ Frozen
    BY <1>1, <1>5, FrozenSame DEF Tok
  <2>2. (\A u \in Journal(proc[p].op) : exec[u].pred # Tok(p))'
    BY <1>1, <1>5, <1>6, <2>1 DEF Journal, Frozen
  <2>3. Tok(p) \in Used => /\ Settled(Tok(p)) => Settled(Tok(p))'
                           /\ Resumable(Tok(p)) => Resumable(Tok(p))'
    BY <1>1, <2>1 DEF Settled, Resumable, WorkerSettled, Has
  <2> QED
    BY <1>1, <1>3, <1>5, <2>1, <2>2, <2>3 DEF Caller, Launching, Frozen
<1>8. LockMoves(p)
  BY <1>1, <1>5 DEF LockMoves, Locked
<1> QED
  BY <1>1, <1>4, <1>5, <1>7, <1>8, FenceDown DEF Launching

LEMMA PublishClaimStep == ASSUME OInv, NEW p \in Procs, PublishClaim(p) PROVE OInv'
<1>1. /\ proc[p].pc = "claim" /\ claim = NoToken /\ claim' = Tok(p) /\ To(p, "request")
      /\ UNCHANGED <<vars, exec, lock, ltask, lcall, keeper, wtok, run>>
  BY DEF PublishClaim, Is
<1>2. PICK t \in Used : t = Tok(p)
  BY <1>1 DEF OInv, Caller, Launching
<1>3. t \in Tokens /\ exec[t].log = 1 /\ lock = p /\ ~run
  <2>1. Caller(p) /\ lock = p
    BY <1>1, LockSays DEF OInv, Locked
  <2>2. exec[Tok(p)].log = 1
    BY <1>1, <2>1 DEF Caller, Launching, LogAt
  <2> QED
    BY <1>2, <2>1, <2>2, UsedTyped, OwnerAssumption DEF OInv, Covered
<1>4. /\ proc' \in [Procs -> CallerStates] /\ \A q \in Procs : q # p => proc'[q] = proc[q]
      /\ proc'[p].pc = "request" /\ proc'[p].tok = t
  BY <1>1, <1>2, ToFx, ProcTyped DEF ProcPcs, Locked, Tok
<1>5. Frozen
  BY <1>1, FrozenSame
<1>6. Inv' /\ TypeOK'
  BY <1>1, StutterInv DEF OInv, Inv
<1>7. LockMoves(p)
  BY <1>1, <1>4 DEF LockMoves, Locked
<1>8. OwnerTypeOK'
  BY <1>1, <1>2, <1>3, <1>4, <1>6, <1>7, LockKept, TokenFacts DEF OInv, OwnerTypeOK, CallerStates
<1>9. Apart' /\ Chained'
  BY <1>1, <1>2, <1>4, <1>5, ApartKept, FrozenChained DEF OInv, Launching, Tok
<1>10. \A u \in Tokens : Journaled(u)'
  BY <1>1, <1>5, OtherJournal DEF vars
<1>11. ASSUME NEW q \in Procs, q # p PROVE Caller(q)'
  <2>1. Caller(q) /\ Tok(q)' = Tok(q) /\ proc'[q] = proc[q] /\ proc[q].pc \notin Locked
    BY <1>3, <1>4, <1>11, LockSays DEF OInv, Tok
  <2>2. proc[q].pc \notin Launching \cup {"mkdir", "delete", "deleting"}
    BY <1>1, <2>1, Quiet DEF Locked
  <2>3. Tok(q) \in Used => /\ Settled(Tok(q)) => Settled(Tok(q))'
                           /\ Resumable(Tok(q)) => Resumable(Tok(q))'
    BY <1>1, <2>1 DEF Settled, Resumable, WorkerSettled, Has
  <2> QED
    BY <1>5, <2>1, <2>2, <2>3 DEF Caller, Frozen
<1>12. Caller(p)'
  BY <1>1, <1>2, <1>3, <1>4, <1>5 DEF Caller, Tok, Launching, LogAt, Frozen
<1>13. Covered'
  BY <1>1, <1>2, <1>3, <1>5, Quiet DEF OInv, Covered, vars, Frozen
<1> QED
  BY <1>6, <1>8, <1>9, <1>10, <1>11, <1>12, <1>13 DEF OInv

\* Tokens are taken in order, so the next one is new.
LEMMA NextToken ==
  ASSUME OInv, Used # Tokens
  PROVE  LET t == Cardinality(Used) + 1 IN
           t \in Tokens \ Used /\ \E k \in 0 .. MaxExec : Used \cup {t} = 1 .. k
<1>1. PICK k \in 0 .. MaxExec : Used = 1 .. k
  BY DEF OInv, Chained
<1>2. k \in Nat /\ Cardinality(Used) = k
  BY <1>1, FS_Interval, OwnerAssumption
<1>3. k # MaxExec /\ k + 1 \in 0 .. MaxExec
  BY <1>1, <1>2, OwnerAssumption DEF Tokens
<1>4. Used \cup {k + 1} = 1 .. (k + 1)
  BY <1>1, <1>2
<1> QED
  BY <1>1, <1>2, <1>3, <1>4 DEF Tokens

LEMMA MakeJournalStep == ASSUME OInv, NEW p \in Procs, MakeJournal(p) PROVE OInv'
<1>a. Caller(p) /\ proc[p].pc = "mkdir" /\ Tok(p) \in 0 .. MaxExec
  BY ProcTyped DEF MakeJournal, Is, OInv, Tok, CallerStates
<1>b. PICK t \in Tokens \ Used : t = Cardinality(Used) + 1 /\ \E k \in 0 .. MaxExec : Used \cup {t} = 1 .. k
  BY <1>a, NextToken DEF Caller
<1>c. PICK m \in 0 .. MaxExec : m = Tok(p)
  BY <1>a
<1> DEFINE n == [op |-> proc[p].op, pred |-> m, log |-> 1, owned |-> FALSE, cancel |-> FALSE,
                 exit |-> "none", mut |-> "none", state |-> "none", pub |-> "none"]
           r == [proc[p] EXCEPT !.pc = "claim", !.tok = t, !.own = NoToken]
<1>1. /\ proc[p].pc = "mkdir" /\ exec' = [exec EXCEPT ![t] = n]
      /\ proc' = [proc EXCEPT ![p] = r]
      /\ UNCHANGED <<vars, claim, lock, ltask, lcall, keeper, wtok, run>>
  BY <1>b, <1>c DEF MakeJournal, Is
<1>2. lock = p
  BY <1>a, LockSays DEF Locked
<1>4. /\ n \in Executions /\ n.op = proc[p].op /\ n.pred = m /\ n.log = 1
      /\ n.exit = "none" /\ n.mut = "none"
  BY ProcTyped DEF Executions, CallerStates, Exits
<1>5. r \in CallerStates /\ r.pc = "claim" /\ r.tok = t
  BY <1>b, ProcTyped, TokenFacts DEF CallerStates, ProcPcs, Locked
<1> HIDE DEF n, r
<1>6. /\ proc' \in [Procs -> CallerStates] /\ \A q \in Procs : q # p => proc'[q] = proc[q]
      /\ proc'[p] = r
  BY <1>1, <1>5, PutFx, ProcTyped
<1>7. /\ exec' \in [Tokens -> Executions \cup {NoExec}] /\ exec'[t] = n /\ t \in Tokens
      /\ \A u \in Tokens : u # t => exec'[u] = exec[u]
  BY <1>1, <1>b, <1>4, Typed4
<1>8. Used' = Used \cup {t} /\ t \notin Used
  BY <1>b, <1>4, <1>7, JournalAssumption DEF Used
<1>9. \A u \in Used : /\ u \in Tokens /\ u # t /\ exec'[u] = exec[u]
                      /\ Settled(u) => Settled(u)'
                      /\ Resumable(u) => Resumable(u)'
  BY <1>7, <1>8 DEF Settled, WorkerSettled, Resumable, Has, Used
<1>10. Inv' /\ TypeOK' /\ UNCHANGED <<w, receipt, claim, lock, lcall, keeper, wtok, run>>
  BY <1>1, StutterInv DEF OInv, Inv, vars
<1>11. LockMoves(p)
  BY <1>1, <1>5, <1>6 DEF LockMoves, Locked
<1>12. OwnerTypeOK'
  BY <1>1, <1>6, <1>7, <1>10, <1>11, LockKept DEF OInv, OwnerTypeOK, CallerStates
<1>13. claim = NoToken /\ w.pc = "idle" /\ \A u \in Journal(proc[p].op) : exec[u].pred # m
  BY <1>a, <1>c DEF Caller, OInv, Covered
<1>14. Covered'
  BY <1>10, <1>13 DEF OInv, Covered
<1>15. Apart'
  <2> SUFFICES ASSUME NEW a \in Procs, NEW b \in Procs, a # b, proc'[a].pc \in Launching,
                      proc'[b].pc \in Launching
               PROVE  proc'[a].tok # proc'[b].tok
    BY DEF Apart, Tok
  <2>1. \A q \in Procs \ {p} : proc'[q].pc \in Launching => proc'[q].tok \in Used
    BY <1>6 DEF OInv, Caller, Tok
  <2>2. CASE a # p /\ b # p
    BY <1>6, <2>2 DEF OInv, Apart, Tok
  <2>3. CASE a = p \/ b = p
    BY <1>5, <1>6, <1>8, <2>1, <2>3
  <2> QED
    BY <2>2, <2>3
<1>16. Chained'
  <2>1. \A u, v \in Used : u # v /\ exec'[u].op = exec'[v].op => exec'[u].pred # exec'[v].pred
    BY <1>9 DEF OInv, Chained
  <2>2. \A u \in Used : exec'[u].op = exec'[t].op => exec'[u].pred # exec'[t].pred
    BY <1>4, <1>7, <1>9, <1>13 DEF Journal
  <2> QED
    BY <1>b, <1>8, <2>1, <2>2 DEF Chained
<1>17. ASSUME NEW u \in Tokens, u # t PROVE Journaled(u)'
  <2>1. Journaled(u) /\ exec'[u] = exec[u] /\ (u \in Used' <=> u \in Used)
    BY <1>7, <1>8, <1>17 DEF OInv
  <2>2. u \in Used => (exec[u].pred # NoToken => exec[u].pred \in Used /\ Resumable(exec[u].pred))'
    <3>1. u \in Used /\ exec[u].pred # NoToken => exec[u].pred \in Used' /\ Resumable(exec[u].pred)'
      BY <1>8, <1>9, <2>1 DEF Journaled
    <3> QED
      BY <3>1, <2>1 DEF Resumable, Settled, WorkerSettled, Has
  <2> QED
    BY <1>10, <2>1, <2>2 DEF Journaled, Terminal, WorkerSettled, Unfinished, Exists
<1>18. Journaled(t)'
  <2>1. lcall[t] = "none" /\ keeper[t] = "none" /\ wtok # t
    BY <1>b DEF OInv, Journaled
  <2>2. ~Terminal(t)' /\ ~WorkerSettled(t)' /\ t \in Used'
    BY <1>4, <1>7, <1>8 DEF Terminal, WorkerSettled
  <2>3. m # NoToken => m \in Used' /\ Resumable(m)'
    <3>1. m # NoToken => m \in Used /\ Resumable(m)
      BY <1>a, <1>c DEF Caller
    <3> QED
      BY <1>8, <1>9, <3>1
  <2>4. (exec[t].pred # NoToken => exec[t].pred \in Used /\ Resumable(exec[t].pred))'
    BY <1>4, <1>7, <2>3 DEF Resumable, Settled, WorkerSettled, Has
  <2> QED
    BY <1>4, <1>7, <1>10, <2>1, <2>2, <2>4 DEF Journaled
<1>19. ASSUME NEW q \in Procs, q # p PROVE Caller(q)'
  <2>1. Caller(q) /\ Tok(q)' = Tok(q) /\ proc'[q] = proc[q] /\ proc[q].pc \notin Locked
    BY <1>2, <1>6, <1>19, LockSays DEF OInv, Tok
  <2>2. Tok(q) \in Used => exec'[Tok(q)] = exec[Tok(q)]
    BY <1>9
  <2>3. Tok(q) \in Used => /\ Settled(Tok(q)) => Settled(Tok(q))'
                           /\ Resumable(Tok(q)) => Resumable(Tok(q))'
    BY <2>1, <2>2 DEF Settled, Resumable, WorkerSettled, Has
  <2> QED
    BY <1>8, <1>10, <2>1, <2>2, <2>3 DEF Caller, Locked
<1>20. Caller(p)'
  BY <1>4, <1>5, <1>6, <1>7, <1>8, <1>10, <1>13 DEF Caller, Tok, Launching, LogAt
<1> QED
  BY <1>10, <1>12, <1>14, <1>15, <1>16, <1>17, <1>18, <1>19, <1>20 DEF OInv
-----------------------------------------------------------------------------
(* Runs and the worker. *)

LEMMA RunStep == ASSUME OInv, RunBegins \/ RunEnds PROVE OInv'
<1>1. /\ UNCHANGED <<vars, exec, claim, lock, ltask, lcall, keeper, wtok, proc>>
      /\ run' \in BOOLEAN /\ (run' => lock = NoToken /\ claim = NoToken)
  BY DEF RunBegins, RunEnds, LocksFree
<1>2. Frozen
  BY <1>1, FrozenSame
<1>3. Inv' /\ TypeOK'
  BY <1>1, StutterInv DEF OInv, Inv
<1>4. OwnerTypeOK'
  BY <1>1, <1>3 DEF OInv, OwnerTypeOK
<1>5. \A u \in Tokens : Journaled(u)'
  BY <1>1, <1>2, OtherJournal DEF vars
<1>6. \A q \in Procs : Caller(q)'
  BY <1>1, <1>2, OtherCaller
<1>7. Covered' /\ Chained' /\ Apart'
  BY <1>1, <1>2, FrozenChained DEF OInv, Covered, vars, Frozen, Apart, Tok
<1> QED
  BY <1>3, <1>4, <1>5, <1>6, <1>7 DEF OInv

\* A journal the worker's step is not about.
LEMMA OtherWorker ==
  ASSUME OInv, Frozen, NEW u \in Tokens, exec'[u] = exec[u], lcall'[u] = lcall[u],
         keeper'[u] = keeper[u], wtok' # u
  PROVE  Journaled(u)'
<1>1. Journaled(u)
  BY DEF OInv
<1>2. u \in Used => (exec[u].pred # NoToken => exec[u].pred \in Used /\ Resumable(exec[u].pred))'
  BY <1>1, FrozenSays DEF Journaled, Frozen
<1> QED
  BY <1>1, <1>2 DEF Journaled, Terminal, WorkerSettled, Frozen

LEMMA WorkerBeginsStep ==
  ASSUME OInv, NEW t \in Tokens, WorkerBegins(t)
  PROVE  OInv' /\ Start(exec[t].op) /\ exec[t].op \in Ops
<1>1. /\ keeper[t] = "working" /\ wtok # t /\ ~Terminal(t) /\ claim = t /\ wtok' = t
      /\ Begin(exec[t].op) /\ UNCHANGED <<exec, claim, lock, ltask, lcall, keeper, proc, run>>
  BY DEF WorkerBegins, Keeps
<1>2. t \in Used /\ Journaled(t) /\ exec[t] \in Executions /\ t # NoToken
  BY <1>1, KeeperUsed DEF KeeperAlive
<1>3. w.pc = "idle" /\ exec[t].op \in Ops
  BY <1>1, <1>2 DEF OInv, Covered, Executions
<1>4. Start(exec[t].op)
  BY <1>1, <1>3 DEF Start, At
<1>5. Frozen
  BY <1>1, FrozenSame
<1>6. Inv' /\ TypeOK'
  BY <1>3, <1>4, StartStep DEF OInv, Inv
<1>7. w'.pc = "check" /\ w'.op = exec[t].op
  BY <1>1 DEF Begin
<1>8. OwnerTypeOK'
  BY <1>1, <1>6, TokenFacts DEF OInv, OwnerTypeOK
<1>9. Journaled(t)'
  <2>1. (exec[t].pred # NoToken => exec[t].pred \in Used /\ Resumable(exec[t].pred))'
    BY <1>1, <1>2, <1>5, PredKept
  <2>2. ~Terminal(t)' /\ ~WorkerSettled(t)' /\ ~WorkerSettled(t)
    BY <1>1 DEF Terminal, WorkerSettled
  <2> QED
    BY <1>1, <1>2, <1>5, <1>7, <2>1, <2>2 DEF Journaled, Frozen
<1>10. \A u \in Tokens : Journaled(u)'
  BY <1>1, <1>5, <1>9, OtherWorker
<1>11. \A q \in Procs : Caller(q)'
  BY <1>1, <1>5, OtherCaller
<1>12. Covered' /\ Chained' /\ Apart'
  BY <1>1, <1>2, <1>5, <1>7, FrozenChained DEF OInv, Covered, Frozen, Apart, Tok
<1> QED
  BY <1>3, <1>4, <1>6, <1>8, <1>10, <1>11, <1>12 DEF OInv

LEMMA ReportedStep == ASSUME OInv, NEW t \in Tokens, Reported(t) PROVE OInv' /\ Settle
<1>1. /\ keeper[t] = "working" /\ wtok = t /\ w.pc = "done"
      /\ Ends(t, "tree-empty", w.mut, w.state, w.pub)
      /\ Go(IF w.mut = "settled" THEN "idle" ELSE "stranded")
      /\ UNCHANGED <<receipt, host, task, call, faults, claim, lock, ltask, lcall, wtok, proc, run>>
  BY DEF Reported, Keeps
<1>2. /\ t \in Used /\ Journaled(t) /\ exec[t] \in Executions /\ t # NoToken /\ claim = t
      /\ w \in Workers
  BY <1>1, KeeperUsed DEF KeeperAlive, OInv, OwnerTypeOK, TypeOK
<1>3. PICK mut \in {"none", "settled", "unknown"}, state \in {"none", "conflict"} \cup States,
           pub \in {"none", "failed", "published"} : mut = w.mut /\ state = w.state /\ pub = w.pub
  BY <1>2 DEF Workers
<1>4. /\ exec' \in [Tokens -> Executions \cup {NoExec}] /\ exec'[t] \in Executions
      /\ \A u \in Tokens : u # t => exec'[u] = exec[u] /\ keeper'[u] = keeper[u]
      /\ exec'[t].log = exec[t].log /\ exec'[t].op = exec[t].op /\ exec'[t].pred = exec[t].pred
      /\ exec'[t].exit = "tree-empty" /\ exec'[t].mut = mut
      /\ keeper' \in [Tokens -> KeeperAlive \cup {"none", "gone"}] /\ keeper'[t] = "reported"
  <2>1. Ends(t, "tree-empty", mut, state, pub) /\ "tree-empty" \in Exits
    BY <1>1, <1>3 DEF Ends, Exits
  <2> QED
    BY <1>2, <2>1, EndsFx, ProcTyped
<1>5. exec[t].log = 7
  BY <1>1, <1>2 DEF Journaled
<1>6. Frozen
  BY <1>2, <1>4, <1>5, FrozenOne, ProcTyped, Positions DEF Settled, Has
<1>7. Settle
  BY <1>1 DEF Settle, At
<1>8. Inv' /\ TypeOK'
  BY <1>7, SettleStep DEF OInv, Inv
<1>9. w'.pc = (IF mut = "settled" THEN "idle" ELSE "stranded") /\ w'.op = w.op
  BY <1>1, <1>2, <1>3, GoEffect DEF OInv, OwnerTypeOK
<1>10. OwnerTypeOK'
  BY <1>1, <1>4, <1>8 DEF OInv, OwnerTypeOK
<1>11. Journaled(t)'
  <2>1. (exec[t].pred # NoToken => exec[t].pred \in Used /\ Resumable(exec[t].pred))'
    BY <1>2, <1>4, <1>6, PredKept
  <2>2. Terminal(t)' /\ (w'.pc # "idle" => ~WorkerSettled(t)')
    BY <1>4, <1>9 DEF Terminal, WorkerSettled
  <2> QED
    BY <1>1, <1>2, <1>4, <1>5, <1>6, <2>1, <2>2 DEF Journaled, Frozen
<1>12. \A u \in Tokens : Journaled(u)'
  BY <1>1, <1>4, <1>6, <1>11, OtherWorker
<1>13. \A q \in Procs : Caller(q)'
  <2> SUFFICES ASSUME NEW q \in Procs PROVE Caller(q)'
    OBVIOUS
  <2>1. proc[q].pc \in Launching \cup {"delete", "deleting"} => exec'[Tok(q)].log = exec[Tok(q)].log
    <3> SUFFICES ASSUME proc[q].pc \in Launching \cup {"delete", "deleting"}
                 PROVE  exec'[Tok(q)].log = exec[Tok(q)].log
      OBVIOUS
    <3>1. Tok(q) \in Tokens
      BY UsedTyped DEF Caller, OInv
    <3> QED
      BY <3>1, <1>4
  <2> QED
    BY <1>1, <1>6, <2>1, OtherCaller
<1>14. Chained' /\ Apart'
  BY <1>1, <1>6, FrozenChained DEF OInv, Apart, Tok
<1>15. Covered'
  <2>1. w.op = exec[t].op /\ ~run
    BY <1>1 DEF OInv, Covered
  <2> QED
    BY <1>1, <1>2, <1>4, <1>6, <1>9, <2>1 DEF OInv, Covered, Frozen, KeeperAlive
<1> QED
  BY <1>7, <1>8, <1>10, <1>12, <1>13, <1>14, <1>15 DEF OInv

\* Where the helpers of Installer leave the worker.
LEMMA WorkerFx ==
  ASSUME TypeOK
  PROVE  /\ \A pc : Go(pc) => w'.pc = pc /\ w'.op = w.op
         /\ \A pc, c : GoAt(pc, c) => w'.pc = pc /\ w'.op = w.op
         /\ \A mut : Error(mut) => w'.pc = "done" /\ w'.op = w.op
         /\ \A state, mut, pub : End(state, mut, pub) => w'.pc = "done" /\ w'.op = w.op
BY DEF TypeOK, Workers, Go, GoAt, Error, End

\* The worker goes on with its operation.
WorkerOn == w.pc # "idle" /\ w'.op = w.op /\ w'.pc # "stranded"

LEMMA WorkerStepOn == ASSUME TypeOK, WorkerStep PROVE WorkerOn
<1>1. CASE Check \/ Refuse \/ Fence \/ Prepare
  BY <1>1, WorkerFx DEF Check, Refuse, Fence, Prepare, At, WorkerOn
<1>2. ASSUME NEW c \in Components, PlanCreate(c) \/ SealOne(c) \/ PlanRemoval(c) PROVE WorkerOn
  BY <1>2, WorkerFx
  DEF PlanCreate, Installing, SealOne, PlanRemoval, FilesTurn, Removing, At, WorkerOn
<1>3. CASE Create \/ Record \/ PlanSeal \/ CommitSeal \/ Probe
  BY <1>3, WorkerFx DEF Create, Record, PlanSeal, CommitSeal, Probe, Installing, At, WorkerOn
<1>4. CASE PlanTask \/ Submit \/ Called \/ Publish
  BY <1>4, WorkerFx DEF PlanTask, Submit, Called, Publish, At, WorkerOn
<1>5. CASE Removed \/ RefuseTask \/ DropPending \/ PlanTaskRemoval
  BY <1>5, WorkerFx DEF Removed, RefuseTask, DropPending, PlanTaskRemoval, Removing, At, WorkerOn
<1>6. CASE Delete \/ Deleted \/ Finish
  BY <1>6, WorkerFx DEF Delete, Deleted, Finish, FilesTurn, Removing, At, WorkerOn
<1> QED
  BY <1>1, <1>2, <1>3, <1>4, <1>5, <1>6 DEF WorkerStep

\* A worker that stays behind does so with a receipt that leaves its call unknown.
LEMMA WorkerMoves ==
  ASSUME TypeOK, InstallerStep
  PROVE  \/ UNCHANGED <<w, receipt>>
         \/ w.pc # "idle" /\ w'.op = w.op /\ (w'.pc = "stranded" => ~Unfinished(w.op)')
<1>1. CASE WorkerStep
  BY <1>1, WorkerStepOn DEF WorkerOn
<1>2. CASE SchedulerStep
  BY <1>2, WorkerFx DEF SchedulerStep, Applies, Rejects, At
<1>3. CASE Fail
  BY <1>3, WorkerFx DEF Fail, Active
<1>4. CASE Die
  <2>1. w.pc # "idle" /\ UNCHANGED receipt
    BY <1>4 DEF Die, Active
  <2>2. w'.pc = (IF Unfinished(w.op) THEN "idle" ELSE "stranded") /\ w'.op = w.op
    BY <1>4, WorkerFx DEF Die
  <2> QED
    BY <2>1, <2>2 DEF Unfinished, Exists
<1>5. CASE Tamper
  BY <1>5 DEF Tamper
<1> QED
  BY <1>1, <1>2, <1>3, <1>4, <1>5 DEF InstallerStep

LEMMA InstallerStepStep == ASSUME OInv, InstallerStep PROVE OInv' /\ Next
<1>1. UNCHANGED <<exec, claim, lock, ltask, lcall, keeper, wtok, proc, run>> /\ Next
  BY DEF InstallerStep, ownerVars, Next
<1>2. Inv' /\ TypeOK'
  BY <1>1, NextInv DEF OInv, Inv
<1>3. Frozen
  BY <1>1, FrozenSame
<1>4. OwnerTypeOK'
  BY <1>1, <1>2 DEF OInv, OwnerTypeOK
<1>5. \/ UNCHANGED <<w, receipt>>
      \/ w.pc # "idle" /\ w'.op = w.op /\ (w'.pc = "stranded" => ~Unfinished(w.op)')
  BY WorkerMoves DEF OInv, OwnerTypeOK
<1>6. ASSUME NEW t \in Tokens PROVE Journaled(t)'
  <2>1. CASE wtok # t
    BY <1>1, <1>3, <2>1, OtherWorker
  <2>2. CASE UNCHANGED <<w, receipt>>
    BY <1>1, <1>3, <2>2, OtherJournal
  <2>3. CASE /\ wtok = t /\ w.pc # "idle" /\ w'.op = w.op
             /\ w'.pc = "stranded" => ~Unfinished(w.op)'
    <3>1. Journaled(t) /\ t \in Used
      BY <2>3 DEF OInv, Journaled
    <3>2. (exec[t].pred # NoToken => exec[t].pred \in Used /\ Resumable(exec[t].pred))'
      BY <1>1, <1>3, <3>1, PredKept
    <3>3. (Terminal(t) <=> Terminal(t)') /\ (WorkerSettled(t) <=> WorkerSettled(t)')
      BY <1>1 DEF Terminal, WorkerSettled
    <3> QED
      BY <1>1, <1>3, <2>3, <3>1, <3>2, <3>3 DEF Journaled, Frozen
  <2> QED
    BY <1>5, <2>1, <2>2, <2>3
<1>7. \A q \in Procs : Caller(q)'
  BY <1>1, <1>3, OtherCaller
<1>8. Covered' /\ Chained' /\ Apart'
  BY <1>1, <1>3, <1>5, FrozenChained DEF OInv, Covered, Frozen, Apart, Tok
<1> QED
  BY <1>1, <1>2, <1>4, <1>6, <1>7, <1>8 DEF OInv

-----------------------------------------------------------------------------

LEMMA OwnerInitInv == ASSUME OwnerInit PROVE OInv
<1>1. Inv /\ TypeOK /\ w.pc = "idle"
  BY InitInv DEF OwnerInit, Inv, Init
<1>2. Used = {}
  BY DEF OwnerInit, Used
<1>3. \A p \in Procs : proc[p].pc = "idle"
  BY DEF OwnerInit
<1>4. OwnerTypeOK
  <2>1. proc \in [Procs -> CallerStates]
    BY TokenFacts DEF OwnerInit, CallerStates, ProcPcs, Ops
  <2> QED
    BY <1>1, <2>1, TokenFacts, OwnerAssumption
    DEF OwnerInit, OwnerTypeOK, CallerStates, Locked
<1>5. Chained
  <2>1. 0 \in 0 .. MaxExec /\ 1 .. 0 = {}
    BY TokenFacts
  <2> QED
    BY <1>2, <2>1 DEF Chained
<1>6. Covered /\ Apart
  BY <1>1, <1>3 DEF OwnerInit, Covered, Apart, KeeperAlive, Launching
<1>7. \A t \in Tokens : Journaled(t)
  BY <1>2, TokenFacts DEF OwnerInit, Journaled
<1>8. \A p \in Procs : Caller(p)
  BY <1>3 DEF Caller, Launching
<1> QED
  BY <1>1, <1>4, <1>5, <1>6, <1>7, <1>8 DEF OInv

LEMMA OwnerStutterInv == ASSUME OInv, UNCHANGED allVars PROVE OInv'
<1>1. UNCHANGED <<vars, exec, claim, lock, ltask, lcall, keeper, wtok, proc, run>>
  BY DEF allVars, ownerVars
<1>2. Inv' /\ TypeOK'
  BY <1>1, StutterInv DEF OInv, Inv
<1>3. Frozen
  BY <1>1, FrozenSame
<1>4. OwnerTypeOK'
  BY <1>1, <1>2 DEF OInv, OwnerTypeOK
<1>5. \A t \in Tokens : Journaled(t)'
  BY <1>1, <1>3, OtherJournal DEF vars
<1>6. \A q \in Procs : Caller(q)'
  BY <1>1, <1>3, OtherCaller
<1>7. Covered' /\ Chained' /\ Apart'
  BY <1>1, <1>3, FrozenChained DEF OInv, Covered, Frozen, Apart, Tok, vars
<1> QED
  BY <1>2, <1>4, <1>5, <1>6, <1>7 DEF OInv

\* Every step keeps the invariant, and is a step of Installer or leaves it alone.
LEMMA OwnerNextInv == ASSUME OInv, OwnerNext PROVE OInv' /\ [Next]_vars
<1>1. ASSUME NEW p \in Procs, NEW o \in Ops, Apply(p, o) PROVE OInv' /\ UNCHANGED vars
  BY <1>1, ApplyStep DEF Apply
<1>2. ASSUME NEW p \in Procs, NEW t \in Tokens, Stop(p, t) PROVE OInv' /\ UNCHANGED vars
  BY <1>2, StopStep DEF Stop
<1>3. ASSUME NEW p \in Procs,
             SettleLauncher(p) \/ AlreadyClean(p) \/ SubmitDelete(p) \/ Cleaned(p)
      PROVE  OInv' /\ UNCHANGED vars
  <2>1. CASE SettleLauncher(p)
    BY <2>1, SettleLauncherStep DEF SettleLauncher
  <2>2. CASE AlreadyClean(p)
    BY <2>2, AlreadyCleanStep DEF AlreadyClean
  <2>3. CASE SubmitDelete(p)
    BY <2>3, SubmittedStep DEF SubmitDelete, Submitted
  <2>4. CASE Cleaned(p)
    BY <2>4, CleanedStep DEF Cleaned
  <2> QED
    BY <1>3, <2>1, <2>2, <2>3, <2>4
<1>4. ASSUME NEW p \in Procs, Preview(p) \/ ReleaseFence(p) \/ Admit(p) \/ MakeJournal(p)
      PROVE  OInv' /\ UNCHANGED vars
  <2>1. CASE Preview(p)
    BY <2>1, PreviewStep DEF Preview
  <2>2. CASE ReleaseFence(p)
    BY <2>2, ReleaseFenceStep DEF ReleaseFence
  <2>3. CASE Admit(p)
    BY <2>3, AdmitStep DEF Admit
  <2>4. CASE MakeJournal(p)
    BY <2>4, MakeJournalStep DEF MakeJournal
  <2> QED
    BY <1>4, <2>1, <2>2, <2>3, <2>4
<1>5. ASSUME NEW p \in Procs,
             PublishClaim(p) \/ PublishRequest(p) \/ LaunchStep(p) \/ Poll(p) \/ Leave(p)
      PROVE  OInv' /\ UNCHANGED vars
  <2>1. CASE PublishClaim(p)
    BY <2>1, PublishClaimStep DEF PublishClaim
  <2>2. CASE PublishRequest(p)
    BY <2>2, PublishRequestStep DEF PublishRequest
  <2>3. CASE LaunchStep(p)
    BY <2>3, LaunchStepStep DEF LaunchStep, Announce, Submitted
  <2>4. CASE Poll(p)
    BY <2>4, PollStep DEF Poll
  <2>5. CASE Leave(p)
    BY <2>5, LeaveStep DEF Leave
  <2> QED
    BY <1>5, <2>1, <2>2, <2>3, <2>4, <2>5
<1>6. ASSUME NEW t \in Tokens,
             LauncherCall(t) \/ AdmitKeeper(t) \/ NotStarted(t) \/ Spawn(t) \/ Resume(t)
      PROVE  OInv' /\ UNCHANGED vars
  <2>1. CASE LauncherCall(t)
    BY <2>1, LauncherCallStep DEF LauncherCall
  <2>2. CASE AdmitKeeper(t)
    BY <2>2, AdmitKeeperStep DEF AdmitKeeper
  <2>3. CASE NotStarted(t)
    BY <2>3, NotStartedStep DEF NotStarted
  <2>4. CASE Spawn(t)
    BY <2>4, SpawnStep DEF Spawn
  <2>5. CASE Resume(t)
    BY <2>5, ResumeStep DEF Resume
  <2> QED
    BY <1>6, <2>1, <2>2, <2>3, <2>4, <2>5
<1>7. ASSUME NEW t \in Tokens, WorkerBegins(t) \/ Reported(t) PROVE OInv' /\ Next
  BY <1>7, WorkerBeginsStep, ReportedStep DEF Next
<1>8. ASSUME NEW t \in Tokens, Lost(t) \/ TreeUnknown(t) \/ KeeperGone(t)
      PROVE  OInv' /\ UNCHANGED vars
  <2>1. CASE Lost(t)
    BY <2>1, LostStep DEF Lost
  <2>2. CASE TreeUnknown(t)
    BY <2>2, TreeUnknownStep DEF TreeUnknown
  <2>3. CASE KeeperGone(t)
    BY <2>3, KeeperGoneStep DEF KeeperGone
  <2> QED
    BY <1>8, <2>1, <2>2, <2>3
<1>9. CASE RunBegins \/ RunEnds
  <2>1. UNCHANGED vars
    BY <1>9 DEF RunBegins, RunEnds
  <2> QED
    BY <1>9, <2>1, RunStep
<1>10. CASE InstallerStep
  BY <1>10, InstallerStepStep
<1> QED
  BY <1>1, <1>2, <1>3, <1>4, <1>5, <1>6, <1>7, <1>8, <1>9, <1>10 DEF OwnerNext

\* Every reachable state of setup satisfies the inductive invariant, whoever repeats,
\* stops or leaves an apply and wherever keepers and workers die.
THEOREM OwnerInvariant == OwnerSpec => []OInv
<1>1. OInv /\ [OwnerNext]_allVars => OInv'
  BY OwnerNextInv, OwnerStutterInv
<1> QED
  BY OwnerInitInv, <1>1, PTL DEF OwnerSpec

\* pending-setup.json covers whoever can still change something: a launcher call under
\* way, a live keeper, or a worker or its task call not finished is always of the
\* execution the claim names, and no Run is admitted meanwhile.
THEOREM FenceAlwaysCovers == OwnerSpec => []FenceCovers
<1>1. OInv => FenceCovers
  <2> SUFFICES ASSUME OInv PROVE FenceCovers
    OBVIOUS
  <2>1. ASSUME NEW t \in Tokens, lcall[t] # "none" \/ keeper[t] \in KeeperAlive
        PROVE  claim = t /\ ~run
    BY <2>1, TokenFacts DEF OInv, Covered
  <2>2. ASSUME w.pc \in Active \/ call # "none" PROVE claim = wtok /\ ~run
    <3>1. w.pc # "idle"
      BY <2>2 DEF OInv, Inv, Calls, Active
    <3> QED
      BY <3>1 DEF OInv, Covered
  <2> QED
    BY <2>1, <2>2 DEF FenceCovers
<1> QED
  BY <1>1, OwnerInvariant, PTL

\* An execution journal that says the worker settled is true: the worker is gone and no
\* Task Scheduler call of it can take effect any more, also when keepAdmitted settled
\* a lost worker from its receipt.
THEOREM SettledIsTrue == OwnerSpec => []SettledTrue
<1>1. OInv => SettledTrue
  <2> SUFFICES ASSUME OInv, NEW t \in Used, WorkerSettled(t), wtok = t
               PROVE  w.pc \notin Active /\ call = "none"
    BY DEF SettledTrue
  <2>1. w.pc = "idle"
    BY UsedTyped DEF OInv, Journaled
  <2> QED
    BY <2>1 DEF OInv, Inv, Calls, Active
<1> QED
  BY <1>1, OwnerInvariant, PTL

\* The executions of an operation make one chain, and only an execution that settled
\* unfinished is resumed: admission looks again under the maintenance locks.
THEOREM AlwaysOneChain == OwnerSpec => []OneChain
<1>1. OInv => OneChain
  <2> SUFFICES ASSUME OInv PROVE OneChain
    OBVIOUS
  <2>1. \A t \in Used : exec[t].pred # NoToken => Resumable(exec[t].pred)
    BY UsedTyped DEF OInv, Journaled
  <2> QED
    BY <2>1 DEF OInv, Chained, OneChain
<1> QED
  BY <1>1, OwnerInvariant, PTL

\* Setup runs the installer as Installer assumes: one worker at a time, and none after
\* one whose task call is unknown.
THEOREM OwnerImplements == OwnerSpec => ImplementsInstaller
<1>1. OwnerInit => Init
  BY DEF OwnerInit
<1>2. OInv /\ [OwnerNext]_allVars => [Next]_vars
  BY OwnerNextInv DEF allVars
<1> QED
  BY <1>1, <1>2, OwnerInvariant, PTL DEF OwnerSpec, ImplementsInstaller
=============================================================================
