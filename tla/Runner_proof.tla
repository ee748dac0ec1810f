---------------------------- MODULE Runner_proof ----------------------------
(***************************************************************************)
(* Theorems about Runner for every set of commands, Sessions, files and    *)
(* faults: its types, the agreement of all commands on one Session, that   *)
(* no command has an effect without the pin of what it was told, and, from *)
(* a second invariant on top of the first, that a settled host stays       *)
(* settled, that bundles hold what they say, and that a Run that took the  *)
(* Host Lock tries to settle it.                                           *)
(***************************************************************************)
EXTENDS Runner, TLAPS

-----------------------------------------------------------------------------
(* The invariant of a process q, where u is ui and k the Sessions it was told of *)

\* Which flow calls what: the program counter determines the possible flows.
Flowing(u, q) ==
  /\ q.pc \in {"idle", "record", "inspect"} => q.flow = "none"
  /\ q.pc \in {"acquire", "stage", "start", "started", "poll", "observe", "observed"}
       => q.flow = "run"
  /\ q.pc \in {"collect", "fetch", "store"} => q.flow \in {"run", "uifirst"}
  /\ q.pc \in {"recover", "observing", "recovered"}
       => q.flow \in {"uifirst", "uifinal", "status", "stop", "verify"}
  /\ q.pc \in {"accept", "publish", "recheck"}
       => q.flow \in {"run", "uifirst", "uifinal", "status", "stop", "verify"}
  /\ q.pc \in {"settle", "settling", "settled"}
       => q.flow \in {"ambiguous", "main", "fallback", "uisettle", "stop"}
  /\ q.pc = "finish" => q.flow = "main"
  /\ q.pc \in {"rebuild", "bundle"} => q.flow = "uifinal"
  /\ q.flow \in {"uifirst", "uisettle", "uifinal"} => u

\* How many settlements may have been tried before this flow's own.
Before(u, flow) ==
  IF flow \in {"uifirst", "uisettle", "verify"} THEN 1
  ELSE IF flow = "uifinal" \/ (flow = "fallback" /\ u) THEN 2
  ELSE IF flow = "fallback" THEN 1 ELSE 0
\* And how many at least.
Tried(u, q) ==
  /\ q.tries <= Before(u, q.flow)
                  + IF q.pc \in {"settling", "settled", "finish", "done"} THEN 1 ELSE 0
  /\ q.pc \in {"settling", "settled", "finish"} \/ q.flow = "uifinal" => q.tries >= 1
  /\ (/\ q.pc = "done" /\ q.outcome \in {"ok", "plain"}
      /\ q.flow \notin {"none", "status", "stop", "verify"}) => q.tries >= 1

\* The Sessions a process was told of are the one it trusts or is about to validate.
Knowing(q, k) ==
  LET revealed == IF q.got.own THEN {q.got.session} ELSE {} IN
  /\ q.pc \in {"idle", "record", "inspect", "acquire", "stage", "start"} => k = {}
  /\ q.pc \in {"started", "poll", "observe", "recover", "collect", "fetch", "store",
               "settle", "settling", "settled", "finish"} => k \subseteq {q.seen}
  /\ q.pc = "observed" => k \subseteq {q.seen} \cup revealed
  /\ q.pc = "started" /\ q.got.own => k \subseteq revealed
  /\ q.pc \in {"accept", "publish", "recheck", "rebuild", "bundle"}
       => k \subseteq {q.got.session}
  /\ q.pc = "observing" => k \subseteq {q.auth}
  /\ q.pc = "recovered" => k \subseteq {q.auth} \cup (IF q.answered THEN revealed ELSE {})

Good(u, q, k) == q \in Process /\ Flowing(u, q) /\ Tried(u, q) /\ Knowing(q, k)
Inv == TypeOK /\ \A p \in Commands : Good(ui, proc[p], knows[p])

-----------------------------------------------------------------------------
(* Processes, field by field *)

LEMMA ProcessFields ==
  ASSUME NEW q \in Process
  PROVE /\ q.pc \in Pcs /\ q.flow \in Flows /\ q.outcome \in Outcomes
        /\ q.seen \in MaybeSession /\ q.got \in Receipt /\ q.answered \in BOOLEAN
        /\ q.auth \in MaybeSession /\ q.todo \subseteq Files /\ q.listed \subseteq Files
        /\ q.file \in Files /\ q.tries \in 0 .. 3
BY DEF Process

LEMMA ReceiptFields ==
  ASSUME NEW r \in Receipt
  PROVE /\ r.own \in BOOLEAN /\ r.sound \in BOOLEAN /\ r.session \in MaybeSession
        /\ r.state \in HostStates /\ r.files \subseteq Files /\ r.known \in BOOLEAN
BY DEF Receipt

LEMMA NoReceiptTyped == NoReceipt \in Receipt /\ NoReceipt.own = FALSE
                        /\ NoReceipt.session = NoSession
BY DEF NoReceipt, Receipt, HostStates, MaybeSession

LEMMA FreshTyped ==
  ASSUME NEW pc \in Pcs, NEW flow \in Flows
  PROVE Fresh(pc, flow) \in Process
BY NoReceiptTyped, FilesAssumption DEF Fresh, Process, Outcomes, MaybeSession

LEMMA EndedGood ==
  ASSUME NEW u \in BOOLEAN, NEW q \in Process, NEW k, NEW o \in Outcomes,
         q.tries <= Before(u, q.flow) + 1,
         q.flow \in {"uifirst", "uisettle", "uifinal"} => u,
         q.flow = "uifinal" => q.tries >= 1,
         (/\ o \in {"ok", "plain"}
          /\ q.flow \notin {"none", "status", "stop", "verify"}) => q.tries >= 1
  PROVE Good(u, Ended(q, o), k)
<1> DEFINE e == Ended(q, o)
<1>1. /\ e \in Process /\ e.pc = "done" /\ e.flow = q.flow /\ e.outcome = o
      /\ e.tries \in {0, q.tries}
      /\ q.flow \notin {"status", "stop", "verify"} => e.tries = q.tries
  <2>1. "done" \in Pcs
    BY DEF Pcs
  <2>2. Fresh("done", q.flow) \in Process
    BY <2>1, FreshTyped, ProcessFields
  <2> QED
    BY <2>1, <2>2, ProcessFields DEF Ended, Fresh, Process
<1>2. Before(u, q.flow) \in Nat /\ q.tries \in Nat
  BY ProcessFields DEF Before
<1> HIDE DEF e
<1>3. Flowing(u, e) /\ Knowing(e, k)
  BY <1>1 DEF Flowing, Knowing
<1>4. Tried(u, e)
  BY <1>1, <1>2 DEF Tried
<1> QED
  BY <1>1, <1>3, <1>4 DEF Good, e

LEMMA FailedGood ==
  ASSUME ui \in BOOLEAN, NEW q \in Process, NEW k, k \subseteq {q.seen}, q.tries <= 1
  PROVE Good(ui, Failed(q), k)
<1> DEFINE f == Failed(q)
<1>1. /\ f \in Process /\ f.seen = q.seen /\ f.tries = q.tries
      /\ IF ui THEN f.pc = "recover" /\ f.flow = "uifirst"
              ELSE f.pc = "settle" /\ f.flow = "fallback"
  BY ProcessFields, NoReceiptTyped, FilesAssumption
  DEF Failed, Process, Pcs, CallPcs, LoadPcs, Flows
<1>2. q.tries \in Nat
  BY ProcessFields
<1> HIDE DEF f
<1>3. Flowing(ui, f) /\ Knowing(f, k)
  BY <1>1 DEF Flowing, Knowing
<1>4. Tried(ui, f)
  BY <1>1, <1>2 DEF Tried, Before
<1> QED
  BY <1>1, <1>3, <1>4 DEF Good, f

\* Neither of the two waits for an answer.
LEMMA Uncalled ==
  ASSUME NEW q \in Process
  PROVE Failed(q).pc \notin CallPcs /\ \A r, o : Ended(r, o).pc \notin CallPcs
<1>1. \A r, o : Ended(r, o).pc = "done"
  BY DEF Ended, Fresh
<1>2. Failed(q).pc \in {"recover", "settle"}
  BY DEF Failed, Process
<1> QED
  BY <1>1, <1>2 DEF CallPcs

LEMMA ProceedGood ==
  ASSUME ui \in BOOLEAN, NEW q \in Process, NEW k, k \subseteq {q.got.session},
         q.flow \in {"run", "uifirst", "uifinal", "status", "stop", "verify"},
         q.tries <= Before(ui, q.flow), q.flow = "uifinal" => q.tries >= 1,
         q.flow \in {"uifirst", "uifinal"} => ui
  PROVE Good(ui, Proceed(q), k) /\ Proceed(q).pc \notin CallPcs
<1> DEFINE s == [q EXCEPT !.seen = q.got.session]
           t == [s EXCEPT !.got = NoReceipt]
           n == Proceed(q)
<1>1. /\ t \in Process /\ t.seen = q.got.session /\ t.tries = q.tries /\ t.flow = q.flow
      /\ q.got \in Receipt /\ q.tries \in Nat /\ q.got.files \subseteq Files
  <2>1. /\ q.got \in Receipt /\ q.tries \in Nat /\ q.got.files \subseteq Files
        /\ q.got.session \in MaybeSession
    BY ProcessFields, ReceiptFields
  <2>2. s \in Process /\ s.seen = q.got.session /\ s.tries = q.tries /\ s.flow = q.flow
    BY <2>1 DEF Process
  <2> HIDE DEF s
  <2>3. t \in Process /\ t.seen = s.seen /\ t.tries = s.tries /\ t.flow = s.flow
    BY <2>2, NoReceiptTyped DEF Process
  <2> QED
    BY <2>1, <2>2, <2>3
<1> HIDE DEF s, t
<1>2. CASE q.flow = "run" /\ q.got.state = "failed"
  <2>1. n = Failed(t)
    BY <1>2 DEF Proceed, s, t, Terminal
  <2>2. t.tries <= 1
    BY <1>1, <1>2 DEF Before
  <2> QED
    BY <1>1, <2>1, <2>2, FailedGood, Uncalled
<1>3. CASE (q.flow = "run" /\ q.got.state # "failed") \/ q.flow \in {"uifirst", "stop"}
  <2>1. /\ n \in Process /\ n.flow = q.flow /\ n.seen = t.seen /\ n.tries = q.tries
        /\ n.pc \in {"poll", "collect", "settle"}
        /\ n.pc = "poll" => q.flow = "run"
        /\ n.pc = "collect" => q.flow \in {"run", "uifirst"}
        /\ n.pc = "settle" => q.flow = "stop"
    <3>1. CASE q.flow = "run" /\ q.got.state = "complete"
      <4> DEFINE c == [t EXCEPT !.pc = "collect"]
      <4>1. n = [c EXCEPT !.todo = q.got.files]
        BY <3>1 DEF Proceed, s, t, Terminal
      <4>2. c \in Process /\ c.pc = "collect" /\ c.flow = t.flow /\ c.seen = t.seen
            /\ c.tries = t.tries
        BY <1>1 DEF Process, Pcs
      <4> HIDE DEF c, n
      <4> QED
        BY <1>1, <3>1, <4>1, <4>2 DEF Process
    <3>2. CASE q.flow = "run" /\ q.got.state \notin {"complete", "failed"}
      <4>1. n = [t EXCEPT !.pc = "poll"]
        BY <3>2 DEF Proceed, s, t, Terminal
      <4> QED
        BY <1>1, <3>2, <4>1 DEF Process, Pcs, LoadPcs
    <3>3. CASE q.flow = "uifirst"
      <4> DEFINE c == [t EXCEPT !.pc = "collect"]
      <4>1. n = [c EXCEPT !.todo = q.got.files]
        BY <3>3 DEF Proceed, s, t
      <4>2. c \in Process /\ c.pc = "collect" /\ c.flow = t.flow /\ c.seen = t.seen
            /\ c.tries = t.tries
        BY <1>1 DEF Process, Pcs
      <4> HIDE DEF c, n
      <4> QED
        BY <1>1, <3>3, <4>1, <4>2 DEF Process
    <3>4. CASE q.flow = "stop"
      <4>1. n = [t EXCEPT !.pc = "settle"]
        BY <3>4 DEF Proceed, s, t
      <4> QED
        BY <1>1, <3>4, <4>1 DEF Process, Pcs, LoadPcs
    <3> QED
      BY <1>3, <3>1, <3>2, <3>3, <3>4
  <2> HIDE DEF n
  <2>2. Flowing(ui, n) /\ Knowing(n, k)
    BY <1>1, <2>1 DEF Flowing, Knowing
  <2>3. Tried(ui, n)
    BY <1>1, <2>1, <1>3 DEF Tried, Before
  <2> QED
    BY <2>1, <2>2, <2>3 DEF Good, n, CallPcs
<1>4. CASE q.flow = "uifinal"
  <2>1. CASE q.got.known
    <3>1. n = [q EXCEPT !.pc = "rebuild"]
      BY <1>4, <2>1 DEF Proceed
    <3>2. /\ n \in Process /\ n.pc = "rebuild" /\ n.flow = "uifinal" /\ n.got = q.got
          /\ n.tries = q.tries
      BY <1>4, <3>1 DEF Process, Pcs, LoadPcs
    <3> HIDE DEF n
    <3>3. Flowing(ui, n) /\ Knowing(n, k)
      BY <1>4, <3>2 DEF Flowing, Knowing
    <3>4. Tried(ui, n)
      BY <1>1, <1>4, <3>2 DEF Tried, Before
    <3> QED
      BY <3>2, <3>3, <3>4 DEF Good, n, CallPcs
  <2>2. CASE ~q.got.known
    <3>1. n = Ended(q, "plain")
      BY <1>4, <2>2 DEF Proceed
    <3> QED
      <4>1. q.tries <= Before(ui, q.flow) + 1
        BY <1>1, <1>4 DEF Before
      <4>2. "plain" \in Outcomes
        BY DEF Outcomes
      <4> QED
        BY <1>4, <3>1, <4>1, <4>2, EndedGood, Uncalled
  <2> QED
    BY <2>1, <2>2
<1>5. CASE q.flow \in {"status", "verify"}
  <2>1. n \in {Ended(t, "ok"), Ended(t, "plain")}
    <3>1. CASE q.flow = "status"
      <4>1. n = Ended(t, "ok")
        BY <3>1 DEF Proceed, s, t
      <4> QED
        BY <4>1
    <3>2. CASE q.flow = "verify"
      <4>1. n = Ended(t, IF q.got.known THEN "ok" ELSE "plain")
        BY <3>2 DEF Proceed, s, t
      <4> QED
        BY <4>1
    <3> QED
      BY <1>5, <3>1, <3>2
  <2>2. t.tries <= Before(ui, t.flow) + 1
    BY <1>1, <1>5 DEF Before
  <2> QED
    BY <1>1, <1>5, <2>1, <2>2, EndedGood, Uncalled DEF Outcomes
<1> QED
  BY <1>2, <1>3, <1>4, <1>5

-----------------------------------------------------------------------------
(* Everything but the processes and what they know is typed *)

Host == [state : HostStates, held : BOOLEAN, session : MaybeSession, files : SUBSET Files]
Bundle == [files : SUBSET Files, bundle : {"none", "partial", "success", "failure"}]
Rest ==
  /\ ui \in BOOLEAN /\ claimed \in BOOLEAN /\ pin \in MaybeSession
  /\ dir \in [Commands -> Bundle] /\ requests \subseteq Requests /\ host \in Host
  /\ expired \in BOOLEAN /\ accepted \in [Commands -> MaybeSession]
  /\ faults \in 0 .. MaxFaults

LEMMA TypeParts ==
  TypeOK <=> /\ Rest /\ proc \in [Commands -> Process]
             /\ knows \in [Commands -> SUBSET Sessions]
BY DEF TypeOK, Rest, Host, Bundle

LEMMA ProcessFacts ==
  ASSUME Inv, NEW p \in Commands
  PROVE /\ Rest /\ proc[p] \in Process /\ knows[p] \subseteq Sessions
        /\ Flowing(ui, proc[p]) /\ Tried(ui, proc[p]) /\ Knowing(proc[p], knows[p])
BY TypeParts DEF Inv, Good

\* The steps of one process.
LEMMA Stepped ==
  ASSUME Inv, NEW p \in Commands, NEW q, Become(p, q), Rest', ui' = ui,
         knows' \in [Commands -> SUBSET Sessions],
         \A o \in Commands \ {p} : knows'[o] = knows[o],
         Good(ui, q, knows'[p])
  PROVE Inv'
<1>1. q \in Process /\ proc \in [Commands -> Process]
  BY TypeParts DEF Inv, Good
<1>2. /\ proc' \in [Commands -> Process] /\ proc'[p] = q
      /\ \A o \in Commands \ {p} : proc'[o] = proc[o]
  BY <1>1 DEF Become
<1>3. TypeOK'
  BY <1>2 DEF TypeOK, Rest, Host, Bundle
<1>4. \A o \in Commands : Good(ui', proc'[o], knows'[o])
  BY <1>2 DEF Inv
<1> QED
  BY <1>3, <1>4 DEF Inv

LEMMA SteppedUntold ==
  ASSUME Inv, NEW p \in Commands, NEW q, Become(p, q), Rest', ui' = ui,
         knows' = knows, Good(ui, q, knows[p])
  PROVE Inv'
<1>1. knows' \in [Commands -> SUBSET Sessions]
  BY TypeParts DEF Inv
<1> QED
  BY <1>1, Stepped

LEMMA EndedAnyhow ==
  ASSUME Inv, NEW p \in Commands, NEW o \in {"authority", "crashed"}, NEW k
  PROVE Good(ui, Ended(proc[p], o), k)
<1>1. /\ proc[p] \in Process /\ ui \in BOOLEAN /\ proc[p].tries \in Nat
      /\ Flowing(ui, proc[p]) /\ Tried(ui, proc[p])
  BY ProcessFacts, ProcessFields DEF Rest
<1>2. proc[p].tries <= Before(ui, proc[p].flow) + 1
  BY <1>1 DEF Tried, Before
<1>3. proc[p].flow \in {"uifirst", "uisettle", "uifinal"} => ui
  BY <1>1 DEF Flowing
<1>4. proc[p].flow = "uifinal" => proc[p].tries >= 1
  BY <1>1 DEF Tried
<1>5. o \in Outcomes /\ o \notin {"ok", "plain"}
  BY DEF Outcomes
<1> QED
  BY <1>1, <1>2, <1>3, <1>4, <1>5, EndedGood

LEMMA UntrustedInv ==
  ASSUME Inv, NEW p \in Commands, Untrusted(p), Rest', ui' = ui, knows' = knows
  PROVE Inv'
BY EndedAnyhow, SteppedUntold DEF Untrusted

LEMMA FaultTyped ==
  ASSUME Rest, NEW kind, Fault(kind) \/ FaultOr(kind) \/ UNCHANGED faults
  PROVE faults' \in 0 .. MaxFaults
BY RunnerFaultsAssumption DEF Rest, Fault, FaultOr

LEMMA HostFields ==
  ASSUME NEW h \in Host
  PROVE /\ h.state \in HostStates /\ h.held \in BOOLEAN /\ h.session \in MaybeSession
        /\ h.files \subseteq Files
        /\ \A st \in HostStates : [h EXCEPT !.state = st] \in Host
        /\ \A b \in BOOLEAN : [h EXCEPT !.held = b] \in Host
        /\ \A s \in MaybeSession : [h EXCEPT !.session = s] \in Host
        /\ \A fs \in SUBSET Files : [h EXCEPT !.files = fs] \in Host
BY DEF Host

\* What a request does to the host.
LEMMA HostTyped ==
  ASSUME Rest, NEW h, NEW s \in MaybeSession,
         h \in Acquired \cup Staged \cup Started \cup Settled(s)
  PROVE h \in Host
<1>1. host \in Host
  BY DEF Rest
<1>2. CASE h \in Acquired
  <2>1. h = host \/ h = [[host EXCEPT !.state = "accepted"] EXCEPT !.held = TRUE]
    BY <1>2 DEF Acquired
  <2> DEFINE a == [host EXCEPT !.state = "accepted"]
  <2>2. a \in Host
    BY <1>1, HostFields DEF HostStates
  <2> HIDE DEF a
  <2>3. [a EXCEPT !.held = TRUE] \in Host
    BY <2>2, HostFields
  <2> QED
    BY <1>1, <2>1, <2>3 DEF a
<1>3. CASE h \in Staged \cup Started
  <2>1. h \in {host, [host EXCEPT !.state = "staged"], [host EXCEPT !.state = "starting"]}
    BY <1>3 DEF Staged, Started
  <2> QED
    BY <1>1, <2>1, HostFields DEF HostStates
<1>4. CASE h \in Settled(s)
  <2>1. CASE h = host
    BY <1>1, <2>1
  <2>2. CASE h # host
    <3>1. PICK fs \in {host.files, host.files \cup {UIJournal}} :
            h = [host EXCEPT !.held = FALSE, !.files = fs,
                   !.state = IF @ \in Terminal THEN @ ELSE "failed"]
      BY <1>4, <2>2 DEF Settled
    <3> DEFINE a == [host EXCEPT !.held = FALSE]
               b == [a EXCEPT !.files = fs]
    <3>2. a \in Host /\ a.state = host.state
      BY <1>1, HostFields DEF Host
    <3> HIDE DEF a
    <3>3. b \in Host /\ b.state = host.state
      BY <1>1, <3>1, <3>2, HostFields, FilesAssumption DEF Host
    <3> HIDE DEF b
    <3>4. h = [b EXCEPT !.state = IF b.state \in Terminal THEN b.state ELSE "failed"]
      BY <3>1 DEF a, b
    <3>5. (IF b.state \in Terminal THEN b.state ELSE "failed") \in HostStates
      BY <3>3, HostFields DEF HostStates, Terminal
    <3> QED
      BY <3>3, <3>4, <3>5, HostFields
  <2> QED
    BY <2>1, <2>2
<1> QED
  BY <1>2, <1>3, <1>4

LEMMA AnswersTyped ==
  ASSUME NEW h \in Host, NEW a \in Answers(h)
  PROVE /\ a.receipt \in Receipt /\ a.receipt.state = h.state
        /\ a.receipt.files = h.files
        /\ a.receipt.known => ~h.held /\ h.state \in Terminal
        /\ a.fault = "none" => a.receipt.own /\ a.receipt.sound
<1> DEFINE r == ReceiptOf(h)
<1>1. /\ r \in Receipt /\ r.state = h.state /\ r.files = h.files /\ r.own /\ r.sound
      /\ r.known => ~h.held /\ h.state \in Terminal
  BY HostFields DEF ReceiptOf, Receipt
<1> HIDE DEF r
<1>2. CASE a = [fault |-> "none", receipt |-> r]
  BY <1>1, <1>2
<1>3. CASE a = [fault |-> "malformed", receipt |-> [r EXCEPT !.sound = FALSE]]
  <2>1. a.receipt = [r EXCEPT !.sound = FALSE] /\ a.fault = "malformed"
    BY <1>3
  <2> QED
    BY <1>1, <2>1 DEF Receipt
<1>4. CASE a = [fault |-> "foreign", receipt |-> [r EXCEPT !.own = FALSE]]
  <2>1. a.receipt = [r EXCEPT !.own = FALSE] /\ a.fault = "foreign"
    BY <1>4
  <2> QED
    BY <1>1, <2>1 DEF Receipt
<1>5. ASSUME NEW s \in MaybeSession,
             a = [fault |-> "imposter", receipt |-> [r EXCEPT !.session = s]]
      PROVE /\ a.receipt \in Receipt /\ a.receipt.state = h.state
            /\ a.receipt.files = h.files /\ a.fault # "none"
            /\ a.receipt.known => ~h.held /\ h.state \in Terminal
  <2>1. a.receipt = [r EXCEPT !.session = s] /\ a.fault = "imposter"
    BY <1>5
  <2> QED
    BY <1>1, <2>1 DEF Receipt
<1>6. \/ a = [fault |-> "none", receipt |-> r]
      \/ a = [fault |-> "malformed", receipt |-> [r EXCEPT !.sound = FALSE]]
      \/ a = [fault |-> "foreign", receipt |-> [r EXCEPT !.own = FALSE]]
      \/ \E s \in MaybeSession \ {h.session} :
           a = [fault |-> "imposter", receipt |-> [r EXCEPT !.session = s]]
  BY Zenon DEF Answers, r
<1> QED
  BY <1>2, <1>3, <1>4, <1>5, <1>6, Zenon

LEMMA DirTyped ==
  ASSUME Rest, NEW p \in Commands
  PROVE /\ \A f \in Files : Stored(p, f) \in [Commands -> Bundle]
        /\ \A kind \in {"partial", "success", "failure"} :
             Bundled(p, kind) \in [Commands -> Bundle]
<1>1. dir \in [Commands -> Bundle] /\ dir[p] \in Bundle
  BY DEF Rest
<1>2. \A f \in Files : [dir[p] EXCEPT !.files = @ \cup {f}] \in Bundle
  BY <1>1 DEF Bundle
<1>3. \A kind \in {"partial", "success", "failure"} :
        [dir[p] EXCEPT !.bundle = kind] \in Bundle
  BY <1>1 DEF Bundle
<1> QED
  BY <1>1, <1>2, <1>3 DEF Stored, Bundled

-----------------------------------------------------------------------------
(* Updates of a process *)

LEMMA PcSet ==
  ASSUME NEW q \in Process, NEW pc \in Pcs
  PROVE LET n == [q EXCEPT !.pc = pc] IN
        /\ n \in Process /\ n.pc = pc /\ n.flow = q.flow /\ n.seen = q.seen /\ n.got = q.got
        /\ n.answered = q.answered /\ n.auth = q.auth /\ n.todo = q.todo
        /\ n.listed = q.listed /\ n.file = q.file /\ n.tries = q.tries
        /\ n.outcome = q.outcome
BY DEF Process

\* Updates of several fields get a name here, which hides them from the provers.
Turned(q, pc, flow) == [q EXCEPT !.pc = pc, !.flow = flow]
Told(q, pc, r) == [q EXCEPT !.pc = pc, !.got = r, !.answered = TRUE]
Untold(q) == [q EXCEPT !.pc = "recovered", !.got = NoReceipt, !.answered = FALSE]
Paid(q) == [q EXCEPT !.pc = "settled", !.answered = TRUE]
Unpaid(q) == [q EXCEPT !.pc = "settled", !.answered = FALSE]
Reset(q) == [q EXCEPT !.answered = FALSE, !.auth = NoSession]
Called(q, pc, s) == [q EXCEPT !.pc = pc, !.auth = s]
Settling(q, s) == [q EXCEPT !.pc = "settling", !.auth = s, !.tries = @ + 1]

LEMMA TurnedFields ==
  ASSUME NEW q \in Process, NEW pc \in Pcs, NEW flow \in Flows
  PROVE LET n == Turned(q, pc, flow) IN
        /\ n \in Process /\ n.pc = pc /\ n.flow = flow /\ n.seen = q.seen /\ n.got = q.got
        /\ n.tries = q.tries
BY DEF Process, Turned

LEMMA ToldFields ==
  ASSUME NEW q \in Process, NEW pc \in Pcs, NEW r \in Receipt
  PROVE LET n == Told(q, pc, r) IN
        /\ n \in Process /\ n.pc = pc /\ n.got = r /\ n.flow = q.flow
        /\ n.seen = q.seen /\ n.auth = q.auth /\ n.tries = q.tries /\ n.answered
BY DEF Process, Told

LEMMA UntoldFields ==
  ASSUME NEW q \in Process
  PROVE LET n == Untold(q) IN
        /\ n \in Process /\ n.pc = "recovered" /\ n.got = NoReceipt /\ n.flow = q.flow
        /\ n.seen = q.seen /\ n.auth = q.auth /\ n.tries = q.tries /\ ~n.answered
<1>1. "recovered" \in Pcs /\ NoReceipt \in Receipt
  BY NoReceiptTyped DEF Pcs, LoadPcs
<1> QED
  BY <1>1 DEF Process, Untold

LEMMA PaidFields ==
  ASSUME NEW q \in Process
  PROVE \A n \in {Paid(q), Unpaid(q)} :
          /\ n \in Process /\ n.pc = "settled" /\ n.flow = q.flow /\ n.seen = q.seen
          /\ n.tries = q.tries
<1>1. "settled" \in Pcs
  BY DEF Pcs, LoadPcs
<1>2. LET n == Paid(q) IN
      /\ n \in Process /\ n.pc = "settled" /\ n.flow = q.flow /\ n.seen = q.seen
      /\ n.tries = q.tries
  BY <1>1 DEF Process, Paid
<1>3. LET n == Unpaid(q) IN
      /\ n \in Process /\ n.pc = "settled" /\ n.flow = q.flow /\ n.seen = q.seen
      /\ n.tries = q.tries
  BY <1>1 DEF Process, Unpaid
<1> QED
  BY <1>2, <1>3

LEMMA ResetFields ==
  ASSUME NEW q \in Process
  PROVE LET n == Reset(q) IN
        /\ n \in Process /\ n.pc = q.pc /\ n.flow = q.flow /\ n.seen = q.seen
        /\ n.got = q.got /\ n.tries = q.tries
BY DEF Process, MaybeSession, Reset

LEMMA CalledFields ==
  ASSUME NEW q \in Process, NEW pc \in Pcs, NEW s \in MaybeSession
  PROVE LET n == Called(q, pc, s) IN
        /\ n \in Process /\ n.pc = pc /\ n.auth = s /\ n.flow = q.flow /\ n.seen = q.seen
        /\ n.tries = q.tries
BY DEF Process, Called

LEMMA SettlingFields ==
  ASSUME NEW q \in Process, NEW s \in MaybeSession, q.tries <= 2
  PROVE LET n == Settling(q, s) IN
        /\ n \in Process /\ n.pc = "settling" /\ n.flow = q.flow /\ n.seen = q.seen
        /\ n.tries = q.tries + 1
<1> DEFINE a == Called(q, "settling", s)
           n == [a EXCEPT !.tries = @ + 1]
<1>1. /\ a \in Process /\ a.pc = "settling" /\ a.flow = q.flow /\ a.seen = q.seen
      /\ a.tries = q.tries
  BY CalledFields DEF Pcs, CallPcs
<1>2. n = Settling(q, s)
  BY DEF Called, Settling
<1> HIDE DEF a
<1>3. q.tries + 1 \in 0 .. 3
  BY ProcessFields
<1>4. /\ n \in Process /\ n.pc = a.pc /\ n.flow = a.flow /\ n.seen = a.seen
      /\ n.tries = a.tries + 1
  BY <1>1, <1>3 DEF Process
<1> QED
  BY <1>1, <1>2, <1>4

LEMMA FileSet ==
  ASSUME NEW q \in Process, NEW f \in Files
  PROVE LET n == [q EXCEPT !.file = f] IN
        /\ n \in Process /\ n.pc = q.pc /\ n.flow = q.flow /\ n.seen = q.seen
        /\ n.tries = q.tries
BY DEF Process

LEMMA FileDoneSet ==
  ASSUME NEW q \in Process
  PROVE LET n == FileDone(q) IN
        /\ n \in Process /\ n.pc = "collect" /\ n.flow = q.flow /\ n.seen = q.seen
        /\ n.tries = q.tries
BY FilesAssumption DEF Process, FileDone, Pcs

LEMMA FileListedSet ==
  ASSUME NEW q \in Process
  PROVE LET n == FileListed(q) IN
        /\ n \in Process /\ n.pc = "collect" /\ n.flow = q.flow /\ n.seen = q.seen
        /\ n.tries = q.tries
<1> DEFINE d == FileDone(q)
<1>1. /\ d \in Process /\ d.pc = "collect" /\ d.flow = q.flow /\ d.seen = q.seen
      /\ d.tries = q.tries /\ q.file \in Files
  BY FileDoneSet, ProcessFields
<1> HIDE DEF d
<1>2. FileListed(q) = [d EXCEPT !.listed = @ \cup {q.file}]
  BY DEF FileListed, d
<1> QED
  BY <1>1, <1>2 DEF Process

-----------------------------------------------------------------------------
(* Every action keeps the invariant: journal and acquisition *)

\* A step that moves the process and, at most, counts a fault.
LEMMA RestUnmoved ==
  ASSUME Rest, UNCHANGED Unmoved, NEW kind,
         Fault(kind) \/ FaultOr(kind) \/ UNCHANGED faults
  PROVE Rest' /\ ui' = ui /\ knows' = knows
BY FaultTyped DEF Rest, Unmoved, local, history

LEMMA RecordInv == ASSUME Inv, NEW p \in Commands, Record(p) PROVE Inv'
<1>1. /\ Rest' /\ ui' = ui /\ knows' = knows
  <2>1. faults' \in 0 .. MaxFaults
    BY ProcessFacts, FaultTyped DEF Record
  <2> QED
    BY <2>1, ProcessFacts DEF Record, Rest, history
<1>2. CASE Goto(p, "inspect")
  <2> DEFINE n == [proc[p] EXCEPT !.pc = "inspect"]
  <2>1. n \in Process /\ n.pc = "inspect" /\ n.flow = proc[p].flow /\ n.tries = proc[p].tries
    BY ProcessFacts, PcSet DEF Pcs
  <2>2. Become(p, n)
    BY <1>2 DEF Goto
  <2> HIDE DEF n
  <2>3. Good(ui, n, knows[p])
    BY <2>1, ProcessFacts DEF Good, Record, At, Flowing, Tried, Knowing
  <2> QED
    BY <1>1, <2>2, <2>3, SteppedUntold
<1>3. CASE Become(p, Ended(proc[p], "plain"))
  <2>1. Good(ui, Ended(proc[p], "plain"), knows[p])
    <3>1. proc[p].flow = "none" /\ proc[p].tries <= Before(ui, proc[p].flow) + 1
      BY ProcessFacts, ProcessFields DEF Record, At, Flowing, Tried, Before
    <3> QED
      BY <3>1, ProcessFacts, EndedGood DEF Outcomes, Rest
  <2> QED
    BY <1>1, <1>3, <2>1, SteppedUntold
<1> QED
  BY <1>2, <1>3 DEF Record

LEMMA InspectInv == ASSUME Inv, NEW p \in Commands, Inspect(p) PROVE Inv'
<1>1. /\ Rest' /\ ui' = ui /\ knows' = knows
  BY ProcessFacts DEF Inspect, Send, Request, Requests, MaybeSession, Rest, local, history
<1>2. CASE Become(p, Turned(proc[p], "acquire", "run"))
  <2> DEFINE n == Turned(proc[p], "acquire", "run")
  <2>1. n \in Process /\ n.pc = "acquire" /\ n.flow = "run" /\ n.tries = proc[p].tries
    <3>1. proc[p] \in Process /\ "acquire" \in Pcs /\ "run" \in Flows
      BY ProcessFacts DEF Pcs, CallPcs, Flows
    <3> QED
      BY <3>1, TurnedFields
  <2> HIDE DEF n
  <2>2. Good(ui, n, knows[p])
    BY <2>1, ProcessFacts DEF Good, Inspect, At, Flowing, Tried, Knowing, Before
  <2> QED
    BY <1>1, <1>2, <2>2, SteppedUntold DEF n
<1>3. CASE Become(p, Ended(proc[p], "plain"))
  <2>1. proc[p].flow = "none" /\ proc[p].tries <= Before(ui, proc[p].flow) + 1
    BY ProcessFacts, ProcessFields DEF Inspect, At, Flowing, Tried, Before
  <2>2. Good(ui, Ended(proc[p], "plain"), knows[p])
    BY <2>1, ProcessFacts, EndedGood DEF Outcomes, Rest
  <2> QED
    BY <1>1, <1>3, <2>2, SteppedUntold
<1> QED
  BY <1>2, <1>3 DEF Inspect, Send, Turned

\* A process with pc and flow of its own that goes on to the next call.
LEMMA NextCall ==
  ASSUME Inv, NEW p \in Commands,
         \/ proc[p].pc = "acquire" /\ Become(p, [proc[p] EXCEPT !.pc = "stage"])
         \/ proc[p].pc = "stage" /\ Become(p, [proc[p] EXCEPT !.pc = "start"]),
         Rest', ui' = ui, knows' = knows
  PROVE Inv'
<1>1. ASSUME NEW pc \in {"stage", "start"}, Become(p, [proc[p] EXCEPT !.pc = pc])
      PROVE Inv'
  <2> DEFINE n == [proc[p] EXCEPT !.pc = pc]
  <2>1. n \in Process /\ n.pc = pc /\ n.flow = proc[p].flow /\ n.tries = proc[p].tries
    BY ProcessFacts, PcSet DEF Pcs, CallPcs
  <2> HIDE DEF n
  <2>2. Good(ui, n, knows[p])
    BY <2>1, ProcessFacts DEF Good, Flowing, Tried, Knowing, Before
  <2> QED
    BY <1>1, <2>2, SteppedUntold DEF n
<1> QED
  BY <1>1

LEMMA AcquireAnsweredInv == ASSUME Inv, NEW p \in Commands, AcquireAnswered(p) PROVE Inv'
<1>1. host' \in Host
  BY ProcessFacts, HostTyped DEF AcquireAnswered, MaybeSession
<1>2. /\ Rest' /\ ui' = ui /\ knows' = knows
  BY <1>1, ProcessFacts
  DEF AcquireAnswered, Send, Request, Requests, MaybeSession, Rest, local, history
<1> QED
  BY <1>2, NextCall DEF AcquireAnswered, Send, At

LEMMA StageAnsweredInv == ASSUME Inv, NEW p \in Commands, StageAnswered(p) PROVE Inv'
<1>1. host' \in Host
  BY ProcessFacts, HostTyped DEF StageAnswered, MaybeSession
<1>2. /\ Rest' /\ ui' = ui /\ knows' = knows
  BY <1>1, ProcessFacts
  DEF StageAnswered, Send, Request, Requests, MaybeSession, Rest, local, history
<1> QED
  BY <1>2, NextCall DEF StageAnswered, Send, At

LEMMA AcquireFailedInv == ASSUME Inv, NEW p \in Commands, AcquireFailed(p) PROVE Inv'
<1> DEFINE n == Turned(proc[p], "settle", "ambiguous")
<1>1. /\ n \in Process /\ n.pc = "settle" /\ n.flow = "ambiguous"
      /\ n.tries = proc[p].tries
  <2>1. proc[p] \in Process /\ "settle" \in Pcs /\ "ambiguous" \in Flows
    BY ProcessFacts DEF Pcs, LoadPcs, Flows
  <2> QED
    BY <2>1, TurnedFields
<1>2. Rest' /\ ui' = ui /\ knows' = knows
  BY ProcessFacts, RestUnmoved DEF AcquireFailed
<1>4. Become(p, n)
  BY DEF AcquireFailed, Turned
<1> HIDE DEF n
<1>3. Good(ui, n, knows[p])
  BY <1>1, ProcessFacts DEF Good, AcquireFailed, At, Flowing, Tried, Knowing, Before
<1> QED
  BY <1>2, <1>3, <1>4, SteppedUntold

\* The deferred cleanup of a Run or of its main settlement.
LEMMA FailedInv ==
  ASSUME Inv, NEW p \in Commands, Become(p, Failed(proc[p])), Rest', ui' = ui, knows' = knows,
         \/ proc[p].pc \in {"stage", "start", "observe", "started", "observed", "poll"}
         \/ proc[p].pc \in {"collect", "fetch", "store"} /\ proc[p].flow = "run"
         \/ proc[p].pc = "finish",
         knows[p] \subseteq {proc[p].seen}
  PROVE Inv'
<1>1. proc[p].flow \in {"run", "main"}
  BY ProcessFacts DEF Flowing
<1>2. proc[p].tries <= 1
  BY <1>1, ProcessFacts, ProcessFields DEF Tried, Before
<1>3. Good(ui, Failed(proc[p]), knows[p])
  BY <1>2, ProcessFacts, FailedGood DEF Rest
<1> QED
  BY <1>3, SteppedUntold

LEMMA CallFailedInv == ASSUME Inv, NEW p \in Commands, CallFailed(p) PROVE Inv'
<1>1. Rest' /\ ui' = ui /\ knows' = knows
  BY ProcessFacts, RestUnmoved DEF CallFailed
<1>2. knows[p] \subseteq {proc[p].seen}
  BY ProcessFacts DEF CallFailed, Knowing
<1> QED
  BY <1>1, <1>2, FailedInv DEF CallFailed

\* A step to another pc of the same flow, that keeps what the process trusts.
LEMMA GotoInv ==
  ASSUME Inv, NEW p \in Commands, NEW pc \in Pcs, Goto(p, pc),
         Rest', ui' = ui, knows' = knows,
         \A n \in Process :
           (/\ n.pc = pc /\ n.flow = proc[p].flow /\ n.seen = proc[p].seen
            /\ n.got = proc[p].got /\ n.tries = proc[p].tries)
           => Flowing(ui, n) /\ Tried(ui, n) /\ Knowing(n, knows[p])
  PROVE Inv'
<1> DEFINE n == [proc[p] EXCEPT !.pc = pc]
<1>1. proc[p] \in Process
  BY ProcessFacts
<1>2. /\ n \in Process /\ n.pc = pc /\ n.flow = proc[p].flow /\ n.seen = proc[p].seen
      /\ n.got = proc[p].got /\ n.tries = proc[p].tries
  BY <1>1, PcSet
<1> HIDE DEF n
<1>3. Good(ui, n, knows[p])
  BY <1>2 DEF Good
<1> QED
  BY <1>3, SteppedUntold DEF Goto, n

LEMMA RestInv ==
  ASSUME Inv, Rest', UNCHANGED <<ui, proc, knows>>
  PROVE Inv'
<1>1. TypeOK'
  BY TypeParts DEF Inv, TypeOK, Rest, Host, Bundle
<1> QED
  BY <1>1 DEF Inv

\* The receipt a process has validated is accepted.
LEMMA AcceptedGood ==
  ASSUME Inv, NEW p \in Commands,
         proc[p].pc \in {"accept", "publish", "recheck", "observed"},
         knows[p] \subseteq {proc[p].got.session}
  PROVE Good(ui, Proceed(proc[p]), knows[p]) /\ Proceed(proc[p]).pc \notin CallPcs
<1>1. proc[p].flow \in {"run", "uifirst", "uifinal", "status", "stop", "verify"}
  BY ProcessFacts DEF Flowing
<1>2. proc[p].tries <= Before(ui, proc[p].flow)
  BY ProcessFacts, ProcessFields DEF Tried, Before
<1>3. /\ proc[p].flow = "uifinal" => proc[p].tries >= 1
      /\ proc[p].flow \in {"uifirst", "uifinal"} => ui
  BY ProcessFacts DEF Tried, Flowing
<1>4. proc[p] \in Process /\ ui \in BOOLEAN
  BY ProcessFacts DEF Rest
<1> QED
  BY <1>1, <1>2, <1>3, <1>4, ProceedGood

LEMMA AcceptedInv ==
  ASSUME Inv, NEW p \in Commands, Accepted(p), Rest', ui' = ui,
         proc[p].pc \in {"accept", "publish", "recheck", "observed"},
         knows[p] \subseteq {proc[p].got.session}
  PROVE Inv'
BY AcceptedGood, SteppedUntold DEF Accepted

LEMMA AcceptedRest ==
  ASSUME Inv, NEW p \in Commands, Accepted(p) \/ UNCHANGED accepted
  PROVE accepted' \in [Commands -> MaybeSession]
<1>1. proc[p].got.session \in MaybeSession /\ accepted \in [Commands -> MaybeSession]
  BY ProcessFacts, ProcessFields, ReceiptFields DEF Rest
<1> QED
  BY <1>1 DEF Accepted

LEMMA RecheckInv == ASSUME Inv, NEW p \in Commands, Recheck(p) PROVE Inv'
<1>1. Rest' /\ ui' = ui
  <2>1. accepted' \in [Commands -> MaybeSession]
    BY AcceptedRest DEF Recheck, history
  <2> QED
    BY <2>1, ProcessFacts DEF Recheck, Rest, local
<1>2. CASE Accepted(p)
  <2>1. proc[p].pc = "recheck" /\ knows[p] \subseteq {proc[p].got.session}
    BY ProcessFacts DEF Recheck, At, Knowing
  <2> QED
    BY <1>1, <1>2, <2>1, AcceptedInv
<1>3. CASE Untrusted(p) /\ UNCHANGED history
  BY <1>1, <1>3, UntrustedInv DEF history
<1> QED
  BY <1>2, <1>3 DEF Recheck

LEMMA AcceptInv == ASSUME Inv, NEW p \in Commands, Accept(p) PROVE Inv'
<1>1. Rest' /\ ui' = ui
  <2>1. accepted' \in [Commands -> MaybeSession]
    BY AcceptedRest DEF Accept, history
  <2> QED
    BY <2>1, ProcessFacts DEF Accept, Rest, local
<1>2. CASE Accepted(p)
  <2>1. proc[p].pc = "accept" /\ knows[p] \subseteq {proc[p].got.session}
    BY ProcessFacts DEF Accept, At, Knowing
  <2> QED
    BY <1>1, <1>2, <2>1, AcceptedInv
<1>3. CASE Untrusted(p) /\ UNCHANGED history
  BY <1>1, <1>3, UntrustedInv DEF history
<1>4. CASE Goto(p, "publish") /\ UNCHANGED history
  <2>1. \A n \in Process :
          (/\ n.pc = "publish" /\ n.flow = proc[p].flow /\ n.seen = proc[p].seen
           /\ n.got = proc[p].got /\ n.tries = proc[p].tries)
          => Flowing(ui, n) /\ Tried(ui, n) /\ Knowing(n, knows[p])
    BY ProcessFacts DEF Accept, At, Flowing, Tried, Knowing
  <2>2. "publish" \in Pcs
    BY DEF Pcs, LoadPcs
  <2> QED
    BY <1>1, <1>4, <2>1, <2>2, GotoInv DEF history
<1> QED
  BY <1>2, <1>3, <1>4 DEF Accept

LEMMA PublishInv == ASSUME Inv, NEW p \in Commands, Publish(p) PROVE Inv'
<1>1. Rest' /\ ui' = ui
  <2>1. accepted' \in [Commands -> MaybeSession]
    BY AcceptedRest DEF Publish, PinPublished, history
  <2>2. faults' \in 0 .. MaxFaults
    BY ProcessFacts, FaultTyped DEF Publish, PinPublished
  <2>3. proc[p].got.session \in MaybeSession /\ Rest
    BY ProcessFacts, ProcessFields, ReceiptFields
  <2>4. pin' \in MaybeSession
    BY <2>3 DEF Publish, PinPublished, Rest, MaybeSession
  <2> QED
    BY <2>1, <2>2, <2>3, <2>4 DEF Publish, Rest, local, disk
<1>2. CASE Accepted(p)
  <2>1. proc[p].pc = "publish" /\ knows[p] \subseteq {proc[p].got.session}
    BY ProcessFacts DEF Publish, At, Knowing
  <2> QED
    BY <1>1, <1>2, <2>1, AcceptedInv
<1>3. CASE Untrusted(p) /\ UNCHANGED history
  BY <1>1, <1>3, UntrustedInv DEF history
<1> QED
  BY <1>2, <1>3 DEF Publish, PinPublished

-----------------------------------------------------------------------------
(* Start and observation *)

\* What the host answers is a receipt, and a process learns Sessions from it.
LEMMA LearnedFacts ==
  ASSUME Inv, NEW p \in Commands, NEW r \in Receipt, Learned(p, r)
  PROVE /\ knows' \in [Commands -> SUBSET Sessions]
        /\ \A o \in Commands \ {p} : knows'[o] = knows[o]
        /\ knows'[p] \subseteq knows[p] \cup (IF r.own THEN {r.session} ELSE {})
        /\ r.session = NoSession => knows' = knows
<1>1. /\ knows \in [Commands -> SUBSET Sessions] /\ knows[p] \subseteq Sessions
      /\ r.session # NoSession => r.session \in Sessions
  BY TypeParts, ReceiptFields DEF Inv, MaybeSession
<1> QED
  BY <1>1 DEF Learned

LEMMA StartAnsweredInv == ASSUME Inv, NEW p \in Commands, StartAnswered(p) PROVE Inv'
<1> DEFINE Answer(h, a) ==
         /\ host' = h /\ FaultOr(a.fault) /\ Learned(p, a.receipt)
         /\ IF a.receipt.own /\ a.receipt.sound /\ a.receipt.session = NoSession
              THEN IF a.receipt.state \in Terminal
                     THEN Become(p, Failed(proc[p])) ELSE UNCHANGED proc
              ELSE Become(p, Revealed([proc[p] EXCEPT !.pc = "started", !.got = a.receipt],
                                      a.receipt))
<1>a. PICK h \in Started : \E a \in Answers(h) : Answer(h, a)
  BY DEF StartAnswered
<1>1. PICK a \in Answers(h) : Answer(h, a)
  BY <1>a
<1>2. h \in Host /\ Rest
  BY ProcessFacts, HostTyped DEF MaybeSession
<1>3. a.receipt \in Receipt
  BY <1>2, AnswersTyped
<1>4. Rest' /\ ui' = ui
  <2>1. faults' \in 0 .. MaxFaults
    BY <1>1, <1>2, FaultTyped
  <2> QED
    BY <1>1, <1>2, <2>1 DEF StartAnswered, Rest, local
<1>5. CASE a.receipt.own /\ a.receipt.sound /\ a.receipt.session = NoSession
  <2>1. knows' = knows
    BY <1>1, <1>3, <1>5, LearnedFacts
  <2>2. CASE UNCHANGED proc
    BY <1>4, <2>1, <2>2, RestInv
  <2>3. CASE Become(p, Failed(proc[p]))
    <3>1. proc[p].pc = "start" /\ knows[p] \subseteq {proc[p].seen}
      BY ProcessFacts DEF StartAnswered, At, Knowing
    <3> QED
      BY <1>4, <2>1, <2>3, <3>1, FailedInv
  <2> QED
    BY <1>1, <1>5, <2>2, <2>3
<1>6. CASE ~(a.receipt.own /\ a.receipt.sound /\ a.receipt.session = NoSession)
  <2> DEFINE s == [proc[p] EXCEPT !.pc = "started"]
             m == [s EXCEPT !.got = a.receipt]
             n == Revealed(m, a.receipt)
  <2>1. proc[p] \in Process /\ "started" \in Pcs /\ a.receipt.session \in MaybeSession
    BY <1>3, ProcessFacts, ReceiptFields DEF Pcs, LoadPcs
  <2>2. /\ s \in Process /\ s.pc = "started" /\ s.flow = proc[p].flow
        /\ s.tries = proc[p].tries
    BY <2>1, PcSet
  <2> HIDE DEF s
  <2>3. /\ m \in Process /\ m.pc = "started" /\ m.flow = proc[p].flow
        /\ m.tries = proc[p].tries /\ m.got = a.receipt
    BY <1>3, <2>2 DEF Process
  <2> HIDE DEF m
  <2>4. /\ n \in Process /\ n.pc = "started" /\ n.flow = proc[p].flow
        /\ n.tries = proc[p].tries /\ n.got = a.receipt
        /\ a.receipt.own /\ a.receipt.session # NoSession => n.seen = a.receipt.session
    <3>1. CASE a.receipt.own /\ a.receipt.session # NoSession
      <4>1. n = [m EXCEPT !.seen = a.receipt.session]
        BY <3>1 DEF Revealed
      <4> HIDE DEF n
      <4> QED
        BY <2>1, <2>3, <4>1 DEF Process
    <3>2. CASE ~(a.receipt.own /\ a.receipt.session # NoSession)
      BY <2>3, <3>2 DEF Revealed
    <3> QED
      BY <3>1, <3>2
  <2>5. Become(p, n)
    BY <1>1, <1>6 DEF m, s
  <2> HIDE DEF n
  <2>6. proc[p].pc = "start" /\ proc[p].flow = "run" /\ knows[p] = {}
    BY ProcessFacts DEF StartAnswered, At, Flowing, Knowing
  <2>7. Flowing(ui, n) /\ Tried(ui, n)
    BY <2>4, <2>6, ProcessFacts DEF Flowing, Tried
  <2>8. Knowing(n, knows'[p])
    <3>1. /\ knows'[p] \subseteq (IF a.receipt.own THEN {a.receipt.session} ELSE {})
          /\ a.receipt.session = NoSession => knows'[p] = {}
      BY <1>1, <1>3, <2>6, LearnedFacts
    <3> QED
      BY <2>4, <3>1 DEF Knowing
  <2>9. Good(ui, n, knows'[p])
    BY <2>4, <2>7, <2>8 DEF Good
  <2> QED
    BY <1>1, <1>3, <1>4, <2>5, <2>9, LearnedFacts, Stepped
<1> QED
  BY <1>5, <1>6

LEMMA StartValidatedInv == ASSUME Inv, NEW p \in Commands, StartValidated(p) PROVE Inv'
<1>1. Rest' /\ ui' = ui /\ knows' = knows
  BY ProcessFacts, RestUnmoved DEF StartValidated
<1>2. proc[p].pc = "started" /\ knows[p] \subseteq {proc[p].seen}
  BY ProcessFacts DEF StartValidated, At, Knowing
<1>3. CASE Untrusted(p)
  BY <1>1, <1>3, UntrustedInv
<1>4. CASE Become(p, Failed(proc[p]))
  BY <1>1, <1>2, <1>4, FailedInv
<1>5. ASSUME NEW pc \in {"accept", "recheck"}, Goto(p, pc), proc[p].got.own PROVE Inv'
  <2>1. \A n \in Process :
          (/\ n.pc = pc /\ n.flow = proc[p].flow /\ n.seen = proc[p].seen
           /\ n.got = proc[p].got /\ n.tries = proc[p].tries)
          => Flowing(ui, n) /\ Tried(ui, n) /\ Knowing(n, knows[p])
    BY <1>2, <1>5, ProcessFacts DEF Flowing, Tried, Knowing
  <2>2. pc \in Pcs
    BY DEF Pcs, LoadPcs
  <2> QED
    BY <1>1, <1>5, <2>1, <2>2, GotoInv
<1> QED
  BY <1>3, <1>4, <1>5 DEF StartValidated

LEMMA PollInv == ASSUME Inv, NEW p \in Commands, Poll(p) PROVE Inv'
<1>1. Rest' /\ ui' = ui /\ knows' = knows
  BY ProcessFacts, RestUnmoved DEF Poll
<1>2. proc[p].pc = "poll" /\ knows[p] \subseteq {proc[p].seen}
  BY ProcessFacts DEF Poll, At, Knowing
<1>3. CASE Untrusted(p)
  BY <1>1, <1>3, UntrustedInv
<1>4. CASE Become(p, Failed(proc[p]))
  BY <1>1, <1>2, <1>4, FailedInv
<1>5. CASE Goto(p, "observe")
  <2>1. \A n \in Process :
          (/\ n.pc = "observe" /\ n.flow = proc[p].flow /\ n.seen = proc[p].seen
           /\ n.got = proc[p].got /\ n.tries = proc[p].tries)
          => Flowing(ui, n) /\ Tried(ui, n) /\ Knowing(n, knows[p])
    BY <1>2, ProcessFacts DEF Flowing, Tried, Knowing
  <2>2. "observe" \in Pcs
    BY DEF Pcs, CallPcs
  <2> QED
    BY <1>1, <1>5, <2>1, <2>2, GotoInv
<1> QED
  BY <1>3, <1>4, <1>5 DEF Poll

LEMMA ObserveAnsweredInv == ASSUME Inv, NEW p \in Commands, ObserveAnswered(p) PROVE Inv'
<1>1. PICK a \in Answers(host) :
         /\ FaultOr(a.fault) /\ Learned(p, a.receipt)
         /\ Become(p, Told(proc[p], AfterObserve(proc[p].pc), a.receipt))
  BY DEF ObserveAnswered, Told
<1>2. host \in Host /\ Rest /\ proc[p] \in Process
  BY ProcessFacts DEF Rest
<1>3. a.receipt \in Receipt
  BY <1>2, AnswersTyped
<1>4. Rest' /\ ui' = ui
  <2>1. faults' \in 0 .. MaxFaults
    BY <1>1, <1>2, FaultTyped
  <2> QED
    BY <1>2, <2>1 DEF ObserveAnswered, Rest, local
<1>5. AfterObserve(proc[p].pc) \in {"observed", "recovered"}
  BY DEF AfterObserve
<1> DEFINE n == Told(proc[p], AfterObserve(proc[p].pc), a.receipt)
<1>6. /\ n \in Process /\ n.pc = AfterObserve(proc[p].pc) /\ n.got = a.receipt /\ n.answered
      /\ n.flow = proc[p].flow /\ n.seen = proc[p].seen /\ n.auth = proc[p].auth
      /\ n.tries = proc[p].tries
  <2>1. AfterObserve(proc[p].pc) \in Pcs
    BY <1>5 DEF Pcs, LoadPcs
  <2> QED
    BY <1>2, <1>3, <2>1, ToldFields
<1> HIDE DEF n
<1>7. proc[p].pc \in {"observe", "observing"}
  BY DEF ObserveAnswered
<1>8. Flowing(ui, n) /\ Tried(ui, n)
  BY <1>5, <1>6, <1>7, ProcessFacts DEF Flowing, Tried, AfterObserve
<1>9. Knowing(n, knows'[p])
  <2>1. knows'[p] \subseteq knows[p] \cup (IF a.receipt.own THEN {a.receipt.session} ELSE {})
    BY <1>1, <1>3, LearnedFacts
  <2> QED
    BY <1>6, <1>7, <2>1, ProcessFacts DEF Knowing, AfterObserve
<1>10. Good(ui, n, knows'[p])
  BY <1>6, <1>8, <1>9 DEF Good
<1> QED
  BY <1>1, <1>3, <1>4, <1>10, LearnedFacts, Stepped DEF n

LEMMA ObserveFailedInv == ASSUME Inv, NEW p \in Commands, ObserveFailed(p) PROVE Inv'
<1> DEFINE n == Untold(proc[p])
<1>1. Rest' /\ ui' = ui /\ knows' = knows
  BY ProcessFacts, RestUnmoved DEF ObserveFailed
<1>2. Become(p, n)
  BY DEF ObserveFailed, Untold
<1>3. /\ n \in Process /\ n.pc = "recovered" /\ n.got = NoReceipt /\ ~n.answered
      /\ n.flow = proc[p].flow /\ n.auth = proc[p].auth /\ n.tries = proc[p].tries
  <2>1. proc[p] \in Process
    BY ProcessFacts
  <2> QED
    BY <2>1, UntoldFields
<1> HIDE DEF n
<1>4. Good(ui, n, knows[p])
  BY <1>3, ProcessFacts DEF Good, ObserveFailed, At, Flowing, Tried, Knowing
<1> QED
  BY <1>1, <1>2, <1>4, SteppedUntold

LEMMA ObservedInv == ASSUME Inv, NEW p \in Commands, Observed(p) PROVE Inv'
<1>1. Rest' /\ ui' = ui
  <2>1. accepted' \in [Commands -> MaybeSession]
    BY AcceptedRest DEF Observed, history
  <2> QED
    BY <2>1, ProcessFacts DEF Observed, Rest, local
<1>2. /\ proc[p].pc = "observed"
      /\ knows[p] \subseteq {proc[p].seen}
                           \cup (IF proc[p].got.own THEN {proc[p].got.session} ELSE {})
  BY ProcessFacts DEF Observed, At, Knowing
<1>3. CASE Untrusted(p) /\ UNCHANGED history
  BY <1>1, <1>3, UntrustedInv DEF history
<1>4. CASE /\ ~(~proc[p].got.own \/ proc[p].got.session # proc[p].seen)
           /\ Become(p, Failed(proc[p])) /\ UNCHANGED history
  BY <1>1, <1>2, <1>4, FailedInv DEF history
<1>5. CASE /\ ~(~proc[p].got.own \/ proc[p].got.session # proc[p].seen)
           /\ Accepted(p)
  BY <1>1, <1>2, <1>5, AcceptedInv
<1> QED
  BY <1>3, <1>4, <1>5 DEF Observed

LEMMA RecoverInv == ASSUME Inv, NEW p \in Commands, Recover(p) PROVE Inv'
<1>1. Rest' /\ ui' = ui /\ knows' = knows
  BY ProcessFacts, RestUnmoved DEF Recover
<1>2. CASE Untrusted(p)
  BY <1>1, <1>2, UntrustedInv
<1>3. CASE Authorized(proc[p].seen) /\ Become(p, Called(proc[p], "observing", pin))
  <2> DEFINE n == Called(proc[p], "observing", pin)
  <2>1. proc[p] \in Process /\ "observing" \in Pcs /\ pin \in MaybeSession
    BY ProcessFacts DEF Pcs, CallPcs, Rest
  <2>2. /\ n \in Process /\ n.pc = "observing" /\ n.auth = pin /\ n.flow = proc[p].flow
        /\ n.tries = proc[p].tries
    BY <2>1, CalledFields
  <2> HIDE DEF n
  <2>3. knows[p] \subseteq {pin}
    BY <1>3, ProcessFacts, SessionsAssumption DEF Recover, At, Knowing, Authorized
  <2>4. Good(ui, n, knows[p])
    BY <2>2, <2>3, ProcessFacts DEF Good, Recover, At, Flowing, Tried, Knowing
  <2> QED
    BY <1>1, <1>3, <2>4, SteppedUntold DEF n
<1> QED
  BY <1>2, <1>3 DEF Recover, Called

\* The first observation of UI recovery may fail; it still leads to a settlement.
LEMMA UnrecoveredGood ==
  ASSUME ui \in BOOLEAN, NEW q \in Process, NEW k \in SUBSET Sessions, NEW s \in MaybeSession,
         q.flow \in {"uifirst", "uifinal", "status", "stop", "verify"},
         q.tries <= Before(ui, q.flow), q.flow = "uifinal" => q.tries >= 1,
         q.flow \in {"uifirst", "uifinal"} => ui, k \subseteq {s}
  PROVE Good(ui, Unrecovered(q, s), k)
<1>1. q.tries \in Nat
  BY ProcessFields
<1>2. CASE q.flow = "uifirst"
  <2> DEFINE a == Turned(q, "settle", "fallback")
             b == [a EXCEPT !.got = NoReceipt]
             n == [b EXCEPT !.seen = IF s # NoSession THEN s ELSE @]
  <2>1. "settle" \in Pcs /\ "fallback" \in Flows
    BY DEF Pcs, LoadPcs, Flows
  <2>2. /\ a \in Process /\ a.pc = "settle" /\ a.flow = "fallback" /\ a.seen = q.seen
        /\ a.tries = q.tries
    BY <2>1, TurnedFields
  <2>3. n = Unrecovered(q, s)
    BY <1>2 DEF Unrecovered, Turned
  <2> HIDE DEF a
  <2>4. /\ b \in Process /\ b.pc = "settle" /\ b.flow = "fallback" /\ b.seen = q.seen
        /\ b.tries = q.tries
    BY <2>2, NoReceiptTyped DEF Process
  <2> HIDE DEF b
  <2>5. /\ n \in Process /\ n.pc = "settle" /\ n.flow = "fallback"
        /\ n.seen = (IF s # NoSession THEN s ELSE q.seen) /\ n.tries = q.tries
    BY <2>4 DEF Process
  <2> HIDE DEF n
  <2>6. k \subseteq {n.seen}
    BY <2>5, SessionsAssumption
  <2>7. Flowing(ui, n) /\ Knowing(n, k)
    BY <2>5, <2>6 DEF Flowing, Knowing
  <2>8. Tried(ui, n)
    BY <1>1, <1>2, <2>5 DEF Tried, Before
  <2> QED
    BY <2>3, <2>5, <2>7, <2>8 DEF Good
<1>3. CASE q.flow # "uifirst"
  <2>1. Unrecovered(q, s) = Ended(q, "plain") /\ "plain" \in Outcomes
    BY <1>3 DEF Unrecovered, Outcomes
  <2>2. q.tries <= Before(ui, q.flow) + 1
    BY <1>1 DEF Before
  <2> QED
    BY <1>3, <2>1, <2>2, EndedGood
<1> QED
  BY <1>2, <1>3

LEMMA RecoveredInv == ASSUME Inv, NEW p \in Commands, Recovered(p) PROVE Inv'
<1> DEFINE q == Reset(proc[p])
           r == proc[p].got
<1>1. Rest' /\ ui' = ui /\ knows' = knows
  BY ProcessFacts, RestUnmoved DEF Recovered
<1>2. /\ proc[p] \in Process /\ knows[p] \in SUBSET Sessions /\ ui \in BOOLEAN
      /\ pin \in MaybeSession /\ r.session \in MaybeSession
  BY ProcessFacts, ProcessFields, ReceiptFields DEF Rest
<1>3. /\ q \in Process /\ q.pc = "recovered" /\ q.flow = proc[p].flow
      /\ q.got = proc[p].got /\ q.tries = proc[p].tries
  BY <1>2, ResetFields DEF Recovered, At
<1>4. /\ q.flow \in {"uifirst", "uifinal", "status", "stop", "verify"}
      /\ q.tries <= Before(ui, q.flow)
      /\ q.flow = "uifinal" => q.tries >= 1
      /\ q.flow \in {"uifirst", "uifinal"} => ui
  <2>1. proc[p].pc = "recovered"
    BY DEF Recovered, At
  <2> QED
    BY <1>3, <2>1, ProcessFacts, ProcessFields DEF Flowing, Tried, Before
<1>5. knows[p] \subseteq {proc[p].auth} \cup (IF proc[p].answered /\ r.own
                                              THEN {r.session} ELSE {})
  BY ProcessFacts DEF Recovered, At, Knowing
<1>6. CASE Untrusted(p)
  BY <1>1, <1>6, UntrustedInv
<1>7. CASE /\ Authorized(proc[p].auth) /\ ~proc[p].answered
           /\ Become(p, Unrecovered(q, pin))
  <2> HIDE DEF q
  <2>1. knows[p] \subseteq {pin}
    BY <1>2, <1>5, <1>7, SessionsAssumption DEF Authorized
  <2>2. Good(ui, Unrecovered(q, pin), knows[p])
    BY <1>2, <1>3, <1>4, <2>1, UnrecoveredGood
  <2> QED
    BY <1>1, <1>7, <2>2, SteppedUntold
<1>8. ASSUME Authorized(proc[p].auth), r.own, pin \in {NoSession, r.session}
      PROVE knows[p] \subseteq {r.session}
  BY <1>2, <1>5, <1>8, SessionsAssumption DEF Authorized
<1>9. CASE /\ Authorized(proc[p].auth) /\ r.own /\ pin \in {NoSession, r.session}
           /\ Become(p, Unrecovered(q, r.session))
  <2> HIDE DEF q
  <2>1. Good(ui, Unrecovered(q, r.session), knows[p])
    BY <1>2, <1>3, <1>4, <1>8, <1>9, UnrecoveredGood
  <2> QED
    BY <1>1, <1>9, <2>1, SteppedUntold
<1>10. ASSUME Authorized(proc[p].auth), r.own, pin \in {NoSession, r.session},
              NEW pc \in {"accept", "recheck"}, Become(p, [q EXCEPT !.pc = pc])
       PROVE Inv'
  <2> DEFINE n == [q EXCEPT !.pc = pc]
  <2> HIDE DEF q
  <2>1. pc \in Pcs
    BY DEF Pcs, LoadPcs
  <2>2. /\ n \in Process /\ n.pc = pc /\ n.flow = q.flow /\ n.got = q.got
        /\ n.tries = q.tries
    BY <1>3, <2>1, PcSet
  <2> HIDE DEF n
  <2>3. knows[p] \subseteq {n.got.session}
    BY <1>3, <1>8, <1>10, <2>2
  <2>4. n.tries <= Before(ui, n.flow)
    BY <1>4, <2>2
  <2>5. Flowing(ui, n) /\ Knowing(n, knows[p])
    BY <1>4, <2>2, <2>3 DEF Flowing, Knowing
  <2>6. Tried(ui, n)
    <3>1. n.tries \in Nat /\ Before(ui, n.flow) \in Nat
      BY <2>2, ProcessFields DEF Before
    <3> QED
      BY <1>4, <2>2, <2>4, <3>1 DEF Tried
  <2> QED
    BY <1>1, <1>10, <2>2, <2>5, <2>6, SteppedUntold DEF n, Good
<1>11. \/ Untrusted(p)
       \/ /\ Authorized(proc[p].auth) /\ ~proc[p].answered
          /\ Become(p, Unrecovered(q, pin))
       \/ /\ Authorized(proc[p].auth) /\ r.own /\ pin \in {NoSession, r.session}
          /\ \/ Become(p, Unrecovered(q, r.session))
             \/ Become(p, [q EXCEPT !.pc = IF pin = NoSession THEN "accept" ELSE "recheck"])
  <2>1. q.got = proc[p].got
    BY <1>3
  <2> QED
    BY <2>1 DEF Recovered, Reset
<1> HIDE DEF q
<1> QED
  BY <1>6, <1>7, <1>9, <1>10, <1>11

-----------------------------------------------------------------------------
(* Evidence *)

LEMMA CollectingInv ==
  ASSUME Inv, NEW p \in Commands, NEW n \in Process, Become(p, n),
         Rest', ui' = ui, knows' = knows,
         proc[p].pc \in {"collect", "fetch", "store"},
         n.pc \in {"collect", "fetch", "store"}, n.flow = proc[p].flow,
         n.seen = proc[p].seen, n.tries = proc[p].tries
  PROVE Inv'
<1>1. Flowing(ui, n) /\ Knowing(n, knows[p])
  BY ProcessFacts DEF Flowing, Knowing
<1>2. Tried(ui, n)
  BY ProcessFacts DEF Tried, Flowing
<1> QED
  BY <1>1, <1>2, SteppedUntold DEF Good

LEMMA FileFailedInv ==
  ASSUME Inv, NEW p \in Commands, Become(p, FileFailed(proc[p])),
         Rest', ui' = ui, knows' = knows, proc[p].pc \in {"fetch", "store"}
  PROVE Inv'
<1>1. CASE proc[p].flow = "run"
  <2>1. knows[p] \subseteq {proc[p].seen}
    BY ProcessFacts DEF Knowing
  <2> QED
    BY <1>1, <2>1, FailedInv DEF FileFailed
<1>2. CASE proc[p].flow # "run"
  <2> DEFINE n == FileDone(proc[p])
  <2>1. /\ n \in Process /\ n.pc = "collect" /\ n.flow = proc[p].flow
        /\ n.seen = proc[p].seen /\ n.tries = proc[p].tries
    BY ProcessFacts, FileDoneSet
  <2> HIDE DEF n
  <2> QED
    BY <1>2, <2>1, CollectingInv DEF FileFailed, n
<1> QED
  BY <1>1, <1>2

LEMMA CollectInv == ASSUME Inv, NEW p \in Commands, Collect(p) PROVE Inv'
<1>1. Rest' /\ ui' = ui /\ knows' = knows
  BY ProcessFacts, RestUnmoved DEF Collect
<1>2. proc[p].pc = "collect" /\ proc[p] \in Process /\ proc[p].todo \subseteq Files
  BY ProcessFacts, ProcessFields DEF Collect, At
<1>3. PICK f \in Files :
        \/ Become(p, FileListed([proc[p] EXCEPT !.file = f]))
        \/ Become(p, [[proc[p] EXCEPT !.file = f] EXCEPT !.pc = "fetch"])
        \/ Untrusted(p)
  BY <1>2 DEF Collect
<1> DEFINE q == [proc[p] EXCEPT !.file = f]
<1>4. q \in Process /\ q.flow = proc[p].flow /\ q.seen = proc[p].seen /\ q.tries = proc[p].tries
  BY <1>2, FileSet
<1>5. CASE Untrusted(p)
  BY <1>1, <1>5, UntrustedInv
<1>6. CASE Become(p, FileListed(q))
  <2> DEFINE n == FileListed(q)
  <2> HIDE DEF q
  <2>1. /\ n \in Process /\ n.pc = "collect" /\ n.flow = q.flow
        /\ n.seen = q.seen /\ n.tries = q.tries
    BY <1>4, FileListedSet
  <2>2. Become(p, n)
    BY <1>6
  <2> HIDE DEF n
  <2> QED
    BY <1>1, <1>2, <1>4, <2>1, <2>2, CollectingInv
<1>7. CASE Become(p, [q EXCEPT !.pc = "fetch"])
  <2> DEFINE n == [q EXCEPT !.pc = "fetch"]
  <2> HIDE DEF q
  <2>1. "fetch" \in Pcs
    BY DEF Pcs, CallPcs
  <2>2. /\ n \in Process /\ n.pc = "fetch" /\ n.flow = q.flow
        /\ n.seen = q.seen /\ n.tries = q.tries
    BY <1>4, <2>1, PcSet
  <2>3. Become(p, n)
    BY <1>7
  <2> HIDE DEF n
  <2> QED
    BY <1>1, <1>2, <1>4, <2>2, <2>3, CollectingInv
<1> QED
  BY <1>3, <1>5, <1>6, <1>7

LEMMA CollectedInv == ASSUME Inv, NEW p \in Commands, Collected(p) PROVE Inv'
<1> DEFINE flow == IF proc[p].flow = "run" THEN "main" ELSE "uisettle"
           n == Turned(proc[p], "settle", flow)
<1>1. Rest' /\ ui' = ui /\ knows' = knows
  BY ProcessFacts, RestUnmoved DEF Collected
<1>2. proc[p] \in Process /\ "settle" \in Pcs /\ flow \in Flows
  BY ProcessFacts DEF Pcs, LoadPcs, Flows
<1>3. /\ n \in Process /\ n.pc = "settle" /\ n.flow = flow /\ n.seen = proc[p].seen
      /\ n.tries = proc[p].tries
  BY <1>2, TurnedFields
<1>4. Become(p, n)
  BY DEF Collected, Turned
<1> HIDE DEF n
<1>5. /\ proc[p].pc = "collect" /\ proc[p].flow \in {"run", "uifirst"}
      /\ proc[p].flow = "uifirst" => ui
      /\ proc[p].tries <= Before(ui, proc[p].flow)
      /\ knows[p] \subseteq {proc[p].seen} /\ proc[p].tries \in Nat
  BY ProcessFacts, ProcessFields DEF Collected, At, Flowing, Tried, Knowing, Before
<1>6. Flowing(ui, n) /\ Knowing(n, knows[p])
  BY <1>3, <1>5 DEF Flowing, Knowing
<1>7. Tried(ui, n)
  BY <1>3, <1>5 DEF Tried, Before
<1> QED
  BY <1>1, <1>3, <1>4, <1>6, <1>7, SteppedUntold DEF Good

LEMMA FetchAnsweredInv == ASSUME Inv, NEW p \in Commands, FetchAnswered(p) PROVE Inv'
<1> DEFINE n == [proc[p] EXCEPT !.pc = "store"]
<1>1. Rest' /\ ui' = ui /\ knows' = knows
  BY ProcessFacts, RestUnmoved DEF FetchAnswered
<1>2. proc[p] \in Process /\ "store" \in Pcs /\ proc[p].pc = "fetch"
  BY ProcessFacts DEF Pcs, LoadPcs, FetchAnswered, At
<1>3. /\ n \in Process /\ n.pc = "store" /\ n.flow = proc[p].flow
      /\ n.seen = proc[p].seen /\ n.tries = proc[p].tries
  BY <1>2, PcSet
<1>4. Become(p, n)
  BY DEF FetchAnswered, Goto
<1> HIDE DEF n
<1> QED
  BY <1>1, <1>2, <1>3, <1>4, CollectingInv

LEMMA FetchFailedInv == ASSUME Inv, NEW p \in Commands, FetchFailed(p) PROVE Inv'
<1>1. Rest' /\ ui' = ui /\ knows' = knows
  BY ProcessFacts, RestUnmoved DEF FetchFailed
<1> QED
  BY <1>1, FileFailedInv DEF FetchFailed, At

LEMMA StoreInv == ASSUME Inv, NEW p \in Commands, Store(p) PROVE Inv'
<1>1. proc[p] \in Process /\ proc[p].file \in Files /\ proc[p].pc = "store"
  BY ProcessFacts, ProcessFields DEF Store, At
<1>2. Rest' /\ ui' = ui /\ knows' = knows
  <2>1. faults' \in 0 .. MaxFaults
    BY ProcessFacts, FaultTyped DEF Store
  <2>2. dir' \in [Commands -> Bundle]
    BY <1>1, ProcessFacts, DirTyped DEF Store, Rest
  <2> QED
    BY <2>1, <2>2, ProcessFacts DEF Store, Rest, local, history
<1>3. CASE Untrusted(p)
  BY <1>2, <1>3, UntrustedInv
<1>4. CASE Become(p, FileFailed(proc[p]))
  BY <1>1, <1>2, <1>4, FileFailedInv
<1>5. CASE Become(p, FileListed(proc[p]))
  <2> DEFINE n == FileListed(proc[p])
  <2>1. /\ n \in Process /\ n.pc = "collect" /\ n.flow = proc[p].flow
        /\ n.seen = proc[p].seen /\ n.tries = proc[p].tries
    BY <1>1, FileListedSet
  <2>2. Become(p, n)
    BY <1>5
  <2> HIDE DEF n
  <2> QED
    BY <1>1, <1>2, <2>1, <2>2, CollectingInv
<1> QED
  BY <1>3, <1>4, <1>5 DEF Store

-----------------------------------------------------------------------------
(* Settlement *)

LEMMA SettleInv == ASSUME Inv, NEW p \in Commands, Settle(p) PROVE Inv'
<1>1. Rest' /\ ui' = ui /\ knows' = knows
  <2>1. pin \in MaybeSession /\ requests' \subseteq Requests
    BY ProcessFacts DEF Settle, Send, Request, Requests, Rest
  <2> QED
    BY <2>1, ProcessFacts DEF Settle, Rest, local, history
<1>2. /\ proc[p] \in Process /\ pin \in MaybeSession /\ proc[p].pc = "settle"
      /\ proc[p].tries \in Nat /\ proc[p].tries <= Before(ui, proc[p].flow)
      /\ proc[p].flow \in {"ambiguous", "main", "fallback", "uisettle", "stop"}
      /\ knows[p] \subseteq {proc[p].seen}
      /\ proc[p].flow \in {"uifirst", "uisettle", "uifinal"} => ui
  BY ProcessFacts, ProcessFields
  DEF Settle, At, Flowing, Tried, Knowing, Rest, Before
<1>3. CASE Untrusted(p)
  BY <1>1, <1>3, UntrustedInv
<1>4. CASE Become(p, Settling(proc[p], pin))
  <2> DEFINE n == Settling(proc[p], pin)
  <2>1. proc[p].tries <= 2
    BY <1>2 DEF Before
  <2>2. /\ n \in Process /\ n.pc = "settling" /\ n.flow = proc[p].flow
        /\ n.seen = proc[p].seen /\ n.tries = proc[p].tries + 1
    BY <1>2, <2>1, SettlingFields
  <2> HIDE DEF n
  <2>3. Flowing(ui, n) /\ Knowing(n, knows[p])
    BY <1>2, <2>2 DEF Flowing, Knowing
  <2>4. Tried(ui, n)
    BY <1>2, <2>2 DEF Tried, Before
  <2> QED
    BY <1>1, <1>4, <2>2, <2>3, <2>4, SteppedUntold DEF n, Good
<1> QED
  BY <1>3, <1>4 DEF Settle, Send, Settling

LEMMA SettlingInv ==
  ASSUME Inv, NEW p \in Commands, proc[p].pc = "settling",
         NEW n \in {Paid(proc[p]), Unpaid(proc[p])}, Become(p, n),
         Rest', ui' = ui, knows' = knows
  PROVE Inv'
<1>1. /\ n \in Process /\ n.pc = "settled" /\ n.flow = proc[p].flow
      /\ n.seen = proc[p].seen /\ n.tries = proc[p].tries
  BY ProcessFacts, PaidFields
<1>2. Flowing(ui, n) /\ Knowing(n, knows[p])
  BY <1>1, ProcessFacts DEF Flowing, Knowing
<1>3. Tried(ui, n)
  BY <1>1, ProcessFacts DEF Tried
<1> QED
  BY <1>1, <1>2, <1>3, SteppedUntold DEF Good

LEMMA SettleAnsweredInv == ASSUME Inv, NEW p \in Commands, SettleAnswered(p) PROVE Inv'
<1>1. proc[p].auth \in MaybeSession
  BY ProcessFacts, ProcessFields
<1>2. host' \in Host
  BY <1>1, ProcessFacts, HostTyped DEF SettleAnswered
<1>3. Rest' /\ ui' = ui /\ knows' = knows
  BY <1>2, ProcessFacts DEF SettleAnswered, Rest, local, history
<1>4. Become(p, Paid(proc[p])) /\ proc[p].pc = "settling"
  BY DEF SettleAnswered, At, Paid
<1> QED
  BY <1>3, <1>4, SettlingInv

LEMMA SettleFailedInv == ASSUME Inv, NEW p \in Commands, SettleFailed(p) PROVE Inv'
<1>1. Rest' /\ ui' = ui /\ knows' = knows
  BY ProcessFacts, RestUnmoved DEF SettleFailed
<1>2. Become(p, Unpaid(proc[p])) /\ proc[p].pc = "settling"
  BY DEF SettleFailed, At, Unpaid
<1> QED
  BY <1>1, <1>2, SettlingInv

\* Both outcomes of a settlement, whichever caller reacts to it.
LEMMA SettledGood ==
  ASSUME ui \in BOOLEAN, NEW q \in Process, NEW k, q.pc = "settled", k \subseteq {q.seen},
         q.flow \in {"ambiguous", "main", "fallback", "uisettle", "stop"},
         q.flow = "uisettle" => ui, 1 <= q.tries, q.tries <= Before(ui, q.flow) + 1
  PROVE /\ Good(ui, SettledWell(q), k) /\ SettledWell(q).pc \notin CallPcs
        /\ Good(ui, Unsettled(q), k) /\ Unsettled(q).pc \notin CallPcs
<1>1. q.tries \in Nat
  BY ProcessFields
<1>2. CASE q.flow = "main"
  <2>1. Unsettled(q) = Failed(q) /\ SettledWell(q) = [q EXCEPT !.pc = "finish"]
    BY <1>2 DEF Unsettled, SettledWell
  <2>2. q.tries <= 1
    BY <1>1, <1>2 DEF Before
  <2> DEFINE n == [q EXCEPT !.pc = "finish"]
  <2>3. "finish" \in Pcs
    BY DEF Pcs, LoadPcs
  <2>4. /\ n \in Process /\ n.pc = "finish" /\ n.flow = "main" /\ n.seen = q.seen
        /\ n.tries = q.tries
    BY <1>2, <2>3, PcSet
  <2> HIDE DEF n
  <2>5. Flowing(ui, n) /\ Knowing(n, k)
    BY <2>4 DEF Flowing, Knowing
  <2>6. Tried(ui, n)
    BY <1>1, <2>2, <2>4 DEF Tried, Before
  <2>7. Good(ui, Failed(q), k)
    BY <2>2, FailedGood
  <2> QED
    BY <2>1, <2>4, <2>5, <2>6, <2>7, Uncalled DEF Good, n, CallPcs
<1>3. ASSUME NEW pc \in {"recover", "settle"}, NEW flow \in {"uifinal", "verify", "fallback"},
             flow = "uifinal" => ui, q.tries <= Before(ui, flow),
             IF flow = "fallback" THEN pc = "settle" ELSE pc = "recover"
      PROVE Good(ui, Turned(q, pc, flow), k) /\ Turned(q, pc, flow).pc \notin CallPcs
  <2> DEFINE n == Turned(q, pc, flow)
  <2>1. pc \in Pcs /\ flow \in Flows
    BY DEF Pcs, LoadPcs, Flows
  <2>2. n \in Process /\ n.pc = pc /\ n.flow = flow /\ n.seen = q.seen /\ n.tries = q.tries
    BY <2>1, TurnedFields
  <2> HIDE DEF n
  <2>3. Flowing(ui, n) /\ Knowing(n, k)
    BY <1>3, <2>2 DEF Flowing, Knowing
  <2>4. Tried(ui, n)
    BY <1>1, <1>3, <2>2 DEF Tried, Before
  <2> QED
    BY <2>2, <2>3, <2>4 DEF Good, n, CallPcs
<1>4. ASSUME q.flow # "main" PROVE Good(ui, Ended(q, "plain"), k)
  <2>1. "plain" \in Outcomes
    BY DEF Outcomes
  <2> QED
    BY <2>1, EndedGood
<1>5. CASE q.flow = "uisettle"
  <2>1. /\ Unsettled(q) = Turned(q, "settle", "fallback")
        /\ SettledWell(q) = Turned(q, "recover", "uifinal")
    BY <1>5 DEF Unsettled, SettledWell, Turned
  <2>2. q.tries <= Before(ui, "fallback") /\ q.tries <= Before(ui, "uifinal")
    BY <1>1, <1>5 DEF Before
  <2> QED
    BY <1>3, <1>5, <2>1, <2>2
<1>6. CASE q.flow = "stop"
  <2>1. /\ Unsettled(q) = Ended(q, "plain")
        /\ SettledWell(q) = Turned(q, "recover", "verify")
    BY <1>6 DEF Unsettled, SettledWell, Turned
  <2>2. q.tries <= Before(ui, "verify")
    BY <1>1, <1>6 DEF Before
  <2> QED
    BY <1>3, <1>4, <1>6, <2>1, <2>2, Uncalled
<1>7. CASE q.flow \in {"ambiguous", "fallback"}
  <2>1. Unsettled(q) = Ended(q, "plain") /\ SettledWell(q) = Ended(q, "plain")
    BY <1>7 DEF Unsettled, SettledWell
  <2> QED
    BY <1>4, <1>7, <2>1, Uncalled
<1> QED
  BY <1>2, <1>5, <1>6, <1>7

LEMMA SettleReturnsInv == ASSUME Inv, NEW p \in Commands, SettleReturns(p) PROVE Inv'
<1> DEFINE q == Reset(proc[p])
<1>1. Rest' /\ ui' = ui /\ knows' = knows
  BY ProcessFacts, RestUnmoved DEF SettleReturns
<1>2. /\ proc[p] \in Process /\ proc[p].pc = "settled" /\ knows[p] \subseteq {proc[p].seen}
      /\ proc[p].flow \in {"ambiguous", "main", "fallback", "uisettle", "stop"}
      /\ proc[p].flow = "uisettle" => ui
      /\ 1 <= proc[p].tries
      /\ proc[p].tries <= Before(ui, proc[p].flow) + 1
      /\ ui \in BOOLEAN
  BY ProcessFacts, ProcessFields DEF SettleReturns, At, Flowing, Tried, Knowing, Rest
<1>3. /\ q \in Process /\ q.pc = proc[p].pc /\ q.flow = proc[p].flow /\ q.seen = proc[p].seen
      /\ q.tries = proc[p].tries
  BY <1>2, ResetFields
<1>4. Untrusted(p) \/ Become(p, SettledWell(q)) \/ Become(p, Unsettled(q))
  BY DEF SettleReturns, Reset
<1> HIDE DEF q
<1>5. Good(ui, SettledWell(q), knows[p]) /\ Good(ui, Unsettled(q), knows[p])
  BY <1>2, <1>3, SettledGood
<1>6. CASE Untrusted(p)
  BY <1>1, <1>6, UntrustedInv
<1>7. CASE Become(p, SettledWell(q))
  BY <1>1, <1>5, <1>7, SteppedUntold
<1>8. CASE Become(p, Unsettled(q))
  BY <1>1, <1>5, <1>8, SteppedUntold
<1> QED
  BY <1>4, <1>6, <1>7, <1>8

-----------------------------------------------------------------------------
(* The bundle, and what happens around the steps of a command *)

LEMMA FinishInv == ASSUME Inv, NEW p \in Commands, Finish(p) PROVE Inv'
<1>1. /\ proc[p] \in Process /\ proc[p].pc = "finish" /\ proc[p].flow = "main"
      /\ 1 <= proc[p].tries /\ proc[p].tries <= Before(ui, proc[p].flow) + 1
      /\ knows[p] \subseteq {proc[p].seen} /\ ui \in BOOLEAN
  BY ProcessFacts, ProcessFields DEF Finish, At, Flowing, Tried, Knowing, Rest
<1>2. Rest' /\ ui' = ui /\ knows' = knows
  <2>1. faults' \in 0 .. MaxFaults
    BY ProcessFacts, FaultTyped DEF Finish
  <2>2. dir' \in [Commands -> Bundle]
    BY ProcessFacts, DirTyped DEF Finish, Rest
  <2> QED
    BY <2>1, <2>2, ProcessFacts DEF Finish, Rest, local, history
<1>3. CASE Untrusted(p)
  BY <1>2, <1>3, UntrustedInv
<1>4. CASE Become(p, Failed(proc[p]))
  BY <1>1, <1>2, <1>4, FailedInv
<1>5. CASE Become(p, Ended(proc[p], "ok"))
  <2>1. "ok" \in Outcomes
    BY DEF Outcomes
  <2>2. Good(ui, Ended(proc[p], "ok"), knows[p])
    BY <1>1, <2>1, EndedGood
  <2> QED
    BY <1>2, <1>5, <2>2, SteppedUntold
<1> QED
  BY <1>3, <1>4, <1>5 DEF Finish

LEMMA RebuildJournalInv == ASSUME Inv, NEW p \in Commands, RebuildJournal(p) PROVE Inv'
<1> DEFINE a == [proc[p] EXCEPT !.pc = "bundle"]
           b == [a EXCEPT !.listed = @ \cup {UIJournal}]
<1>1. /\ proc[p] \in Process /\ proc[p].pc = "rebuild" /\ proc[p].flow = "uifinal"
      /\ 1 <= proc[p].tries /\ proc[p].tries <= Before(ui, proc[p].flow)
      /\ knows[p] \subseteq {proc[p].got.session} /\ ui /\ "bundle" \in Pcs
  BY ProcessFacts, ProcessFields
  DEF RebuildJournal, At, Flowing, Tried, Knowing, Pcs, LoadPcs, Before
<1>2. Rest' /\ ui' = ui /\ knows' = knows
  <2>1. faults' \in 0 .. MaxFaults
    BY ProcessFacts, FaultTyped DEF RebuildJournal
  <2>2. dir' \in [Commands -> Bundle]
    BY ProcessFacts, DirTyped, FilesAssumption DEF RebuildJournal, Rest
  <2> QED
    BY <2>1, <2>2, ProcessFacts DEF RebuildJournal, Rest, local, history
<1>3. /\ a \in Process /\ a.pc = "bundle" /\ a.flow = proc[p].flow /\ a.got = proc[p].got
      /\ a.tries = proc[p].tries /\ a.listed \subseteq Files
  BY <1>1, PcSet, ProcessFields
<1>4. Untrusted(p) \/ Become(p, a) \/ Become(p, b)
  BY DEF RebuildJournal, Goto
<1>5. ASSUME NEW n \in Process, n.pc = "bundle", n.flow = proc[p].flow,
             n.got = proc[p].got, n.tries = proc[p].tries, Become(p, n)
      PROVE Inv'
  <2>1. Flowing(ui, n) /\ Knowing(n, knows[p])
    BY <1>1, <1>5 DEF Flowing, Knowing
  <2>2. Tried(ui, n)
    BY <1>1, <1>5 DEF Tried, Before
  <2> QED
    BY <1>2, <1>5, <2>1, <2>2, SteppedUntold DEF Good
<1> HIDE DEF a
<1>6. /\ b \in Process /\ b.pc = a.pc /\ b.flow = a.flow /\ b.got = a.got
      /\ b.tries = a.tries
  BY <1>3, FilesAssumption DEF Process
<1> HIDE DEF b
<1>7. CASE Untrusted(p)
  BY <1>2, <1>7, UntrustedInv
<1>8. CASE Become(p, a)
  BY <1>3, <1>5, <1>8
<1>9. CASE Become(p, b)
  BY <1>3, <1>5, <1>6, <1>9
<1> QED
  BY <1>4, <1>7, <1>8, <1>9

LEMMA FailureBundleInv == ASSUME Inv, NEW p \in Commands, FailureBundle(p) PROVE Inv'
<1>1. /\ proc[p] \in Process /\ proc[p].flow = "uifinal" /\ ui
      /\ 1 <= proc[p].tries /\ proc[p].tries <= Before(ui, proc[p].flow) + 1
  BY ProcessFacts, ProcessFields DEF FailureBundle, At, Flowing, Tried, Before
<1>2. Rest' /\ ui' = ui /\ knows' = knows
  <2>1. faults' \in 0 .. MaxFaults
    BY ProcessFacts, FaultTyped DEF FailureBundle
  <2>2. dir' \in [Commands -> Bundle]
    BY ProcessFacts, DirTyped DEF FailureBundle, Rest
  <2> QED
    BY <2>1, <2>2, ProcessFacts DEF FailureBundle, Rest, local, history
<1>3. CASE Untrusted(p)
  BY <1>2, <1>3, UntrustedInv
<1>4. CASE Become(p, Ended(proc[p], "plain"))
  <2>1. "plain" \in Outcomes
    BY DEF Outcomes
  <2>2. Good(ui, Ended(proc[p], "plain"), knows[p])
    BY <1>1, <2>1, EndedGood
  <2> QED
    BY <1>2, <1>4, <2>2, SteppedUntold
<1> QED
  BY <1>3, <1>4 DEF FailureBundle

LEMMA BeginInv ==
  ASSUME Inv, NEW p \in Commands, NEW flow \in {"status", "stop"}, Begin(p, flow)
  PROVE Inv'
<1> DEFINE n == Fresh("recover", flow)
<1>1. "recover" \in Pcs /\ flow \in Flows
  BY DEF Pcs, LoadPcs, Flows
<1>2. n \in Process /\ n.pc = "recover" /\ n.flow = flow /\ n.tries = 0
  BY <1>1, FreshTyped DEF Fresh
<1> HIDE DEF n
<1>3. knows \in [Commands -> SUBSET Sessions]
  BY TypeParts DEF Inv
<1>4. /\ knows' \in [Commands -> SUBSET Sessions] /\ knows'[p] = {}
      /\ \A o \in Commands \ {p} : knows'[o] = knows[o]
  BY <1>3 DEF Begin
<1>5. accepted' \in [Commands -> MaybeSession]
  BY ProcessFacts DEF Begin, Rest, MaybeSession
<1>6. Rest' /\ ui' = ui
  BY <1>5, ProcessFacts DEF Begin, Rest, local
<1>7. Flowing(ui, n) /\ Knowing(n, {})
  BY <1>2 DEF Flowing, Knowing
<1>8. Tried(ui, n)
  BY <1>2 DEF Tried, Before
<1> QED
  BY <1>2, <1>4, <1>6, <1>7, <1>8, Stepped DEF Begin, Good, n

LEMMA UnreadableInv == ASSUME Inv, NEW p \in Commands, Unreadable(p) PROVE Inv'
<1>1. Rest' /\ ui' = ui /\ knows' = knows
  BY ProcessFacts, RestUnmoved DEF Unreadable
<1> QED
  BY <1>1, UntrustedInv DEF Unreadable

LEMMA CrashInv == ASSUME Inv, NEW p \in Commands, Crash(p) PROVE Inv'
<1>1. Rest' /\ ui' = ui /\ knows' = knows
  BY ProcessFacts, RestUnmoved DEF Crash
<1> QED
  BY <1>1, EndedAnyhow, SteppedUntold DEF Crash

LEMMA LosePinInv == ASSUME Inv, LosePin PROVE Inv'
<1>1. Rest
  BY TypeParts DEF Inv
<1>2. faults' \in 0 .. MaxFaults
  BY <1>1, FaultTyped DEF LosePin
<1>3. Rest' /\ UNCHANGED <<ui, proc, knows>>
  BY <1>1, <1>2 DEF LosePin, Rest, local, MaybeSession
<1> QED
  BY <1>3, RestInv

Environment == Late \/ TaskIssues \/ TaskCompletes \/ TaskFails \/ Expire

LEMMA EnvironmentInv == ASSUME Inv, Environment PROVE Inv'
<1>1. Rest /\ host \in Host
  BY TypeParts DEF Inv, Rest
<1>2. host' \in Host
  <2>1. CASE Late
    <3>1. PICK m \in requests : host' \in Effects(m)
      BY <2>1 DEF Late
    <3>2. m.session \in MaybeSession /\ m.op \in {"acquire", "stage", "start", "settle"}
      BY <1>1 DEF Rest, Requests
    <3>3. host' \in Acquired \cup Staged \cup Started \cup Settled(m.session)
      BY <3>1, <3>2 DEF Effects
    <3> QED
      BY <1>1, <3>2, <3>3, HostTyped
  <2>2. CASE TaskIssues
    <3>1. PICK s \in Sessions : host' = [host EXCEPT !.session = s, !.state = "running"]
      BY <2>2 DEF TaskIssues
    <3> DEFINE a == [host EXCEPT !.session = s]
    <3>2. a \in Host
      BY <1>1, HostFields DEF MaybeSession
    <3>3. host' = [a EXCEPT !.state = "running"]
      BY <3>1
    <3> HIDE DEF a
    <3> QED
      BY <3>2, <3>3, HostFields DEF HostStates
  <2>3. ASSUME NEW st \in Terminal, NEW fs \in SUBSET Files,
               host' = [host EXCEPT !.state = st, !.files = fs]
        PROVE host' \in Host
    <3> DEFINE a == [host EXCEPT !.state = st]
    <3>1. a \in Host
      BY <1>1, HostFields DEF HostStates
    <3>2. host' = [a EXCEPT !.files = fs]
      BY <2>3
    <3> HIDE DEF a
    <3> QED
      BY <3>1, <3>2, HostFields
  <2>4. RequiredFiles \subseteq Files
    BY DEF RequiredFiles
  <2>5. CASE TaskCompletes
    <3>1. host' = [host EXCEPT !.state = "complete", !.files = RequiredFiles]
      BY <2>5 DEF TaskCompletes
    <3> QED
      BY <2>3, <2>4, <3>1 DEF Terminal
  <2>6. CASE TaskFails
    <3>1. PICK fs \in SUBSET RequiredFiles :
            host' = [host EXCEPT !.state = "failed", !.files = fs]
      BY <2>6 DEF TaskFails
    <3> QED
      BY <2>3, <2>4, <3>1 DEF Terminal
  <2>7. CASE Expire
    BY <1>1, <2>7 DEF Expire
  <2> QED
    BY <2>1, <2>2, <2>5, <2>6, <2>7 DEF Environment
<1>3. Rest' /\ UNCHANGED <<ui, proc, knows>>
  BY <1>1, <1>2
  DEF Environment, Late, TaskIssues, TaskCompletes, TaskFails, Expire, Rest, history, disk
<1> QED
  BY <1>3, RestInv

-----------------------------------------------------------------------------
(* Type correctness *)

LEMMA InitInv == ASSUME Init PROVE Inv
<1>1. Rest
  <2>1. host \in Host
    BY DEF Init, Host, HostStates, MaybeSession
  <2>2. dir \in [Commands -> Bundle]
    BY DEF Init, Bundle
  <2>3. faults \in 0 .. MaxFaults
    BY RunnerFaultsAssumption DEF Init
  <2> QED
    BY <2>1, <2>2, <2>3 DEF Init, Rest, MaybeSession
<1>2. knows \in [Commands -> SUBSET Sessions]
  BY DEF Init
<1>3. \A p \in Commands :
        Good(ui, proc[p], knows[p]) /\ proc[p] \in Process
  <2> TAKE p \in Commands
  <2>1. PICK pc \in {"record", "idle"} : proc[p] = Fresh(pc, "none")
    BY DEF Init
  <2>2. pc \in Pcs /\ "none" \in Flows
    BY DEF Pcs, Flows
  <2>3. /\ proc[p] \in Process /\ proc[p].pc = pc /\ proc[p].flow = "none"
        /\ proc[p].tries = 0
    BY <2>1, <2>2, FreshTyped DEF Fresh
  <2>4. knows[p] = {}
    BY DEF Init
  <2>5. Flowing(ui, proc[p]) /\ Knowing(proc[p], knows[p])
    BY <2>3, <2>4 DEF Flowing, Knowing
  <2>6. Tried(ui, proc[p])
    BY <2>3 DEF Tried, Before
  <2> QED
    BY <2>3, <2>5, <2>6 DEF Good
<1>4. proc \in [Commands -> Process]
  BY <1>3 DEF Init
<1> QED
  BY <1>1, <1>2, <1>3, <1>4, TypeParts DEF Inv

LEMMA NextInv == ASSUME Inv, [Next]_vars PROVE Inv'
<1>1. CASE UNCHANGED vars
  <2>1. Rest' /\ UNCHANGED <<ui, proc, knows>>
    BY <1>1, TypeParts DEF Inv, vars, disk, history, Rest
  <2> QED
    BY <2>1, RestInv
<1>2. ASSUME NEW p \in Commands, Progress(p) PROVE Inv'
  BY <1>2, RecordInv, InspectInv, AcquireAnsweredInv, AcquireFailedInv, StageAnsweredInv,
     StartAnsweredInv, CallFailedInv, StartValidatedInv, AcceptInv, PublishInv, RecheckInv,
     PollInv, ObserveAnsweredInv, ObserveFailedInv, ObservedInv, CollectInv, CollectedInv,
     FetchAnsweredInv, FetchFailedInv, StoreInv, SettleInv, SettleAnsweredInv,
     SettleFailedInv, SettleReturnsInv, RecoverInv, RecoveredInv, FinishInv,
     RebuildJournalInv, FailureBundleInv
  DEF Progress
<1> QED
  BY <1>1, <1>2, UnreadableInv, CrashInv, BeginInv, LosePinInv, EnvironmentInv
  DEF Next, Environment

LEMMA Invariance == Spec => []Inv
BY InitInv, NextInv, PTL DEF Spec

\* Every variable keeps its type; in particular no command sends more than three
\* settlement requests, whichever of its cleanups fail.
THEOREM TypeCorrect == Spec => []TypeOK
<1>1. Inv => TypeOK
  BY DEF Inv
<1> QED
  BY <1>1, Invariance, PTL

-----------------------------------------------------------------------------
(* One Session *)

LEMMA AcceptedSession ==
  ASSUME TypeOK, PinAgreement, NEW p \in Commands, Accepted(p),
         proc[p].got.session \in {NoSession, pin'}, pin' = pin \/ pin = NoSession
  PROVE PinAgreement'
<1>1. accepted \in [Commands -> MaybeSession]
  BY DEF TypeOK
<1>2. /\ accepted'[p] = proc[p].got.session
      /\ \A o \in Commands \ {p} : accepted'[o] = accepted[o]
  BY <1>1 DEF Accepted
<1> QED
  BY <1>2 DEF PinAgreement

LEMMA SameSession ==
  ASSUME PinAgreement, accepted' = accepted, pin' = pin \/ pin = NoSession
  PROVE PinAgreement'
BY DEF PinAgreement

\* All commands of a Run speak of one Session, the pinned one, however many of them
\* look for the pin and publish it at the same time.
THEOREM PinAgrees == Spec => []PinAgreement
<1>1. Init => PinAgreement
  BY DEF Init, PinAgreement
<1>2. ASSUME TypeOK, PinAgreement, [Next]_vars PROVE PinAgreement'
  <2>1. ASSUME NEW p \in Commands, Progress(p) PROVE PinAgreement'
    <3>1. CASE Recheck(p)
      BY <1>2, <3>1, AcceptedSession, SameSession DEF Recheck, Authorized, history
    <3>2. CASE Accept(p)
      BY <1>2, <3>2, AcceptedSession, SameSession DEF Accept, history
    <3>3. CASE Publish(p)
      <4>1. CASE PinPublished(p)
        BY <1>2, <4>1, AcceptedSession, SameSession DEF PinPublished, history
      <4>2. CASE pin = NoSession /\ UNCHANGED history
        BY <1>2, <4>2, SameSession DEF history
      <4> QED
        BY <3>3, <4>1, <4>2 DEF Publish
    <3>4. CASE Observed(p)
      BY <1>2, <3>4, AcceptedSession, SameSession DEF Observed, Authorized, history
    <3>5. CASE UNCHANGED <<pin, accepted>>
      BY <1>2, <3>5, SameSession
    <3>6. ASSUME ~Recheck(p), ~Accept(p), ~Publish(p), ~Observed(p)
          PROVE UNCHANGED <<pin, accepted>>
      BY <2>1, <3>6
      DEF Progress, Record, Inspect, AcquireAnswered, AcquireFailed, StageAnswered,
          StartAnswered, CallFailed, StartValidated, Poll, ObserveAnswered, ObserveFailed,
          Collect, Collected, FetchAnswered, FetchFailed, Store, Settle, SettleAnswered,
          SettleFailed, SettleReturns, Recover, Recovered, Finish, RebuildJournal,
          FailureBundle, Unmoved, history
    <3> QED
      BY <3>1, <3>2, <3>3, <3>4, <3>5, <3>6
  <2>2. ASSUME NEW p \in Commands, Unreadable(p) \/ Crash(p) PROVE PinAgreement'
    BY <1>2, <2>2, SameSession DEF Unreadable, Crash, Unmoved, history
  <2>3. ASSUME NEW p \in Commands, NEW flow, Begin(p, flow) PROVE PinAgreement'
    BY <1>2, <2>3 DEF Begin, TypeOK, PinAgreement
  <2>4. CASE LosePin
    BY <2>4 DEF LosePin, PinAgreement
  <2>5. CASE Environment \/ UNCHANGED vars
    <3>1. UNCHANGED <<pin, accepted>>
      BY <2>5
      DEF Environment, Late, TaskIssues, TaskCompletes, TaskFails, Expire, disk, history, vars
    <3> QED
      BY <1>2, <3>1, SameSession
  <2> QED
    BY <1>2, <2>1, <2>2, <2>3, <2>4, <2>5 DEF Next, Environment
<1> QED
  BY <1>1, <1>2, TypeCorrect, PTL DEF Spec

-----------------------------------------------------------------------------
(* No effect without the pin *)

Harmless(p) == Effect(p) => knows[p] \subseteq {pin}

\* A step after which p waits for nothing new.
LEMMA Quiet ==
  ASSUME Inv, NEW p \in Commands, NEW q, Become(p, q), dir' = dir,
         q.pc \in CallPcs => q.pc = proc[p].pc
  PROVE Harmless(p)
<1>1. proc'[p] = q
  BY TypeParts DEF Inv, Become
<1> QED
  BY <1>1 DEF Harmless, Effect

LEMMA QuietEnded ==
  ASSUME Inv, NEW p \in Commands, dir' = dir,
         \/ Untrusted(p) \/ Become(p, Failed(proc[p]))
         \/ \E o : Become(p, Ended(proc[p], o))
  PROVE Harmless(p)
<1>1. Failed(proc[p]).pc \notin CallPcs /\ \A o : Ended(proc[p], o).pc \notin CallPcs
  BY ProcessFacts, Uncalled
<1> QED
  BY <1>1, Quiet DEF Untrusted

\* A process to which no Session was revealed, or the one it has just looked up.
LEMMA Known ==
  ASSUME Inv, NEW p \in Commands,
         knows[p] = {} \/ \E s : Authorized(s) /\ knows[p] \subseteq {s}
  PROVE Harmless(p)
BY ProcessFacts, SessionsAssumption DEF Authorized, Harmless

\* The steps that send a request or write evidence.
LEMMA EffectSteps ==
  ASSUME Inv, NEW p \in Commands,
         \/ Inspect(p) \/ AcquireAnswered(p) \/ StageAnswered(p) \/ Poll(p) \/ Recover(p)
         \/ Collect(p) \/ Settle(p) \/ Store(p) \/ Finish(p) \/ RebuildJournal(p)
         \/ FailureBundle(p)
  PROVE Harmless(p)
<1>1. Knowing(proc[p], knows[p])
  BY ProcessFacts
<1>2. CASE Inspect(p) \/ AcquireAnswered(p) \/ StageAnswered(p)
  BY <1>1, <1>2, Known DEF Inspect, AcquireAnswered, StageAnswered, At, Knowing
<1>3. CASE Poll(p)
  <2>1. CASE Authorized(proc[p].seen)
    BY <1>1, <1>3, <2>1, Known DEF Poll, At, Knowing
  <2>2. CASE ~Authorized(proc[p].seen)
    <3>1. dir' = dir
      BY <1>3 DEF Poll, Unmoved
    <3> QED
      BY <1>3, <2>2, <3>1, QuietEnded DEF Poll
  <2> QED
    BY <2>1, <2>2
<1>4. CASE Recover(p)
  <2>1. CASE Authorized(proc[p].seen)
    BY <1>1, <1>4, <2>1, Known DEF Recover, At, Knowing
  <2>2. CASE ~Authorized(proc[p].seen)
    <3>1. dir' = dir
      BY <1>4 DEF Recover, Unmoved
    <3> QED
      BY <1>4, <2>2, <3>1, QuietEnded DEF Recover
  <2> QED
    BY <2>1, <2>2
<1>5. CASE Collect(p)
  <2>1. CASE Authorized(proc[p].seen)
    BY <1>1, <1>5, <2>1, Known DEF Collect, At, Knowing
  <2>2. CASE ~Authorized(proc[p].seen)
    <3>1. /\ proc[p] \in Process /\ proc[p].todo \subseteq Files /\ dir' = dir
      BY <1>5, ProcessFacts, ProcessFields DEF Collect, Unmoved
    <3>2. PICK f \in Files :
            LET q == [proc[p] EXCEPT !.file = f] IN
            Become(p, FileListed(q)) \/ Authorized(q.seen) \/ Untrusted(p)
      BY <1>5, <3>1 DEF Collect
    <3> DEFINE q == [proc[p] EXCEPT !.file = f]
    <3>3. q \in Process /\ q.seen = proc[p].seen
      BY <3>1, FileSet
    <3>4. Become(p, FileListed(q)) \/ Untrusted(p)
      BY <2>2, <3>2, <3>3
    <3> HIDE DEF q
    <3>5. FileListed(q).pc = "collect"
      BY <3>3, FileListedSet
    <3>6. CASE Become(p, FileListed(q))
      BY <3>1, <3>5, <3>6, Quiet DEF CallPcs
    <3>7. CASE Untrusted(p)
      BY <3>1, <3>7, QuietEnded
    <3> QED
      BY <3>4, <3>6, <3>7
  <2> QED
    BY <2>1, <2>2
<1>6. CASE Settle(p)
  <2>1. CASE Authorized(proc[p].seen)
    BY <1>1, <1>6, <2>1, Known DEF Settle, At, Knowing
  <2>2. CASE ~Authorized(proc[p].seen)
    BY <1>6, <2>2, QuietEnded DEF Settle
  <2> QED
    BY <2>1, <2>2
<1>7. CASE Store(p) \/ Finish(p)
  <2>1. CASE Authorized(proc[p].seen)
    BY <1>1, <1>7, <2>1, Known DEF Store, Finish, At, Knowing
  <2>2. CASE ~Authorized(proc[p].seen)
    BY <1>7, <2>2, QuietEnded DEF Store, Finish
  <2> QED
    BY <2>1, <2>2
<1>8. CASE FailureBundle(p)
  <2>1. CASE Authorized(proc[p].got.session)
    BY <1>1, <1>8, <2>1, Known DEF FailureBundle, At, Knowing
  <2>2. CASE ~Authorized(proc[p].got.session)
    BY <1>8, <2>2, QuietEnded DEF FailureBundle
  <2> QED
    BY <2>1, <2>2
<1>9. CASE RebuildJournal(p)
  <2>1. CASE Authorized(proc[p].got.session)
    BY <1>1, <1>9, <2>1, Known DEF RebuildJournal, At, Knowing
  <2>2. CASE ~Authorized(proc[p].got.session)
    <3> DEFINE n == [proc[p] EXCEPT !.pc = "bundle"]
    <3>1. dir' = dir /\ (Become(p, n) \/ Untrusted(p))
      BY <1>9, <2>2 DEF RebuildJournal, Goto
    <3>2. n.pc = "bundle"
      <4>1. proc[p] \in Process /\ "bundle" \in Pcs
        BY ProcessFacts DEF Pcs, LoadPcs
      <4> QED
        BY <4>1, PcSet
    <3> HIDE DEF n
    <3>3. CASE Become(p, n)
      BY <3>1, <3>2, <3>3, Quiet DEF CallPcs
    <3>4. CASE Untrusted(p)
      BY <3>1, <3>4, QuietEnded
    <3> QED
      BY <3>1, <3>3, <3>4
  <2> QED
    BY <2>1, <2>2
<1> QED
  BY <1>2, <1>3, <1>4, <1>5, <1>6, <1>7, <1>8, <1>9

\* The steps that follow an answer, or the lack of one.
LEMMA QuietSteps ==
  ASSUME Inv, NEW p \in Commands,
         \/ Record(p) \/ AcquireFailed(p) \/ CallFailed(p) \/ StartValidated(p)
         \/ ObserveAnswered(p) \/ ObserveFailed(p) \/ Collected(p) \/ FetchAnswered(p)
         \/ FetchFailed(p) \/ SettleAnswered(p) \/ SettleFailed(p)
  PROVE Harmless(p)
<1>1. proc[p] \in Process /\ dir' = dir
  BY ProcessFacts
  DEF Record, AcquireFailed, CallFailed, StartValidated, ObserveAnswered, ObserveFailed,
      Collected, FetchAnswered, FetchFailed, SettleAnswered, SettleFailed, Unmoved
<1>2. ASSUME NEW pc \in Pcs \ CallPcs, Goto(p, pc) PROVE Harmless(p)
  <2> DEFINE n == [proc[p] EXCEPT !.pc = pc]
  <2>1. n.pc = pc
    BY <1>1, PcSet
  <2>2. Become(p, n)
    BY <1>2 DEF Goto
  <2> HIDE DEF n
  <2> QED
    BY <1>1, <2>1, <2>2, Quiet
<1>3. CASE Record(p)
  <2>1. CASE Goto(p, "inspect")
    BY <1>2, <2>1 DEF Pcs, CallPcs
  <2> QED
    BY <1>1, <1>3, <2>1, QuietEnded DEF Record
<1>4. CASE AcquireFailed(p) \/ Collected(p)
  <2>1. PICK flow \in Flows : Become(p, Turned(proc[p], "settle", flow))
    <3>1. CASE AcquireFailed(p)
      BY <3>1 DEF AcquireFailed, Turned, Flows
    <3>2. CASE Collected(p)
      <4>1. Become(p, Turned(proc[p], "settle",
                             IF proc[p].flow = "run" THEN "main" ELSE "uisettle"))
        BY <3>2 DEF Collected, Turned
      <4> QED
        BY <4>1 DEF Flows
    <3> QED
      BY <1>4, <3>1, <3>2
  <2>2. "settle" \in Pcs /\ "settle" \notin CallPcs
    BY DEF Pcs, LoadPcs, CallPcs
  <2>3. Turned(proc[p], "settle", flow).pc = "settle"
    BY <1>1, <2>2, TurnedFields
  <2> QED
    BY <1>1, <2>1, <2>2, <2>3, Quiet
<1>5. CASE CallFailed(p)
  BY <1>1, <1>5, QuietEnded DEF CallFailed
<1>6. CASE StartValidated(p)
  <2>1. ASSUME NEW pc \in {"accept", "recheck"}, Goto(p, pc) PROVE Harmless(p)
    BY <1>2, <2>1 DEF Pcs, LoadPcs, CallPcs
  <2> QED
    BY <1>1, <1>6, <2>1, QuietEnded DEF StartValidated
<1>7. CASE ObserveAnswered(p)
  <2>1. PICK a \in Answers(host) :
           Become(p, Told(proc[p], AfterObserve(proc[p].pc), a.receipt))
    BY <1>7 DEF ObserveAnswered, Told
  <2>2. a.receipt \in Receipt
    BY ProcessFacts, AnswersTyped DEF Rest
  <2>3. AfterObserve(proc[p].pc) \in Pcs \ CallPcs
    BY DEF AfterObserve, Pcs, LoadPcs, CallPcs
  <2>4. Told(proc[p], AfterObserve(proc[p].pc), a.receipt).pc = AfterObserve(proc[p].pc)
    BY <1>1, <2>2, <2>3, ToldFields
  <2> QED
    BY <1>1, <2>1, <2>3, <2>4, Quiet
<1>8. CASE ObserveFailed(p)
  <2>1. Become(p, Untold(proc[p])) /\ Untold(proc[p]).pc = "recovered"
    BY <1>1, <1>8, UntoldFields DEF ObserveFailed, Untold
  <2> QED
    BY <1>1, <2>1, Quiet DEF CallPcs
<1>9. CASE FetchAnswered(p)
  BY <1>2, <1>9 DEF FetchAnswered, Pcs, LoadPcs, CallPcs
<1>10. CASE FetchFailed(p)
  <2>1. FileDone(proc[p]).pc = "collect"
    BY <1>1, FileDoneSet
  <2>2. CASE Become(p, FileDone(proc[p]))
    BY <1>1, <2>1, <2>2, Quiet DEF CallPcs
  <2> QED
    BY <1>1, <1>10, <2>2, QuietEnded DEF FetchFailed, FileFailed
<1>11. CASE SettleAnswered(p) \/ SettleFailed(p)
  <2>1. Become(p, Paid(proc[p])) \/ Become(p, Unpaid(proc[p]))
    BY <1>11 DEF SettleAnswered, SettleFailed, Paid, Unpaid
  <2>2. Paid(proc[p]).pc = "settled" /\ Unpaid(proc[p]).pc = "settled"
    BY <1>1, PaidFields
  <2> QED
    BY <1>1, <2>1, <2>2, Quiet DEF CallPcs
<1> QED
  BY <1>3, <1>4, <1>5, <1>6, <1>7, <1>8, <1>9, <1>10, <1>11

LEMMA QuietAnswers ==
  ASSUME Inv, NEW p \in Commands,
         StartAnswered(p) \/ Recovered(p) \/ SettleReturns(p)
  PROVE Harmless(p)
<1>1. proc[p] \in Process /\ dir' = dir /\ ui \in BOOLEAN
  BY ProcessFacts DEF StartAnswered, Recovered, SettleReturns, Unmoved, Rest
<1>2. CASE StartAnswered(p)
  <2> DEFINE started(r) == [proc[p] EXCEPT !.pc = "started", !.got = r]
  <2>1. PICK h \in Started : \E a \in Answers(h) :
          \/ Become(p, Failed(proc[p])) \/ UNCHANGED proc
          \/ Become(p, Revealed(started(a.receipt), a.receipt))
    BY <1>2 DEF StartAnswered
  <2>2. PICK a \in Answers(h) :
          \/ Become(p, Failed(proc[p])) \/ UNCHANGED proc
          \/ Become(p, Revealed(started(a.receipt), a.receipt))
    BY <2>1
  <2>3. CASE Become(p, Failed(proc[p]))
    BY <1>1, <2>3, QuietEnded
  <2>4. CASE UNCHANGED proc
    BY <1>1, <2>4 DEF Harmless, Effect
  <2>5. CASE Become(p, Revealed(started(a.receipt), a.receipt))
    <3> DEFINE m == [proc[p] EXCEPT !.pc = "started"]
               n == [m EXCEPT !.got = a.receipt]
    <3>1. h \in Host
      BY ProcessFacts, HostTyped DEF MaybeSession
    <3>2. a.receipt \in Receipt /\ a.receipt.session \in MaybeSession
      BY <3>1, AnswersTyped, ReceiptFields
    <3>3. m \in Process /\ m.pc = "started"
      BY <1>1 DEF Process, Pcs, LoadPcs
    <3>4. n = started(a.receipt)
      OBVIOUS
    <3> HIDE DEF m
    <3>5. n \in Process /\ n.pc = "started"
      BY <3>2, <3>3 DEF Process
    <3> HIDE DEF n
    <3>6. Revealed(n, a.receipt).pc = "started"
      BY <3>2, <3>5 DEF Revealed, Process
    <3>7. Become(p, Revealed(n, a.receipt))
      BY <2>5, <3>4
    <3> QED
      BY <1>1, <3>6, <3>7, Quiet DEF CallPcs
  <2> QED
    BY <2>2, <2>3, <2>4, <2>5
<1> DEFINE q == Reset(proc[p])
<1>3. /\ q \in Process /\ q.pc = proc[p].pc /\ q.flow = proc[p].flow /\ q.got = proc[p].got
  BY <1>1, ResetFields
<1>4. CASE Recovered(p)
  <2>1. \/ Untrusted(p)
        \/ Become(p, Unrecovered(q, pin))
        \/ Become(p, Unrecovered(q, proc[p].got.session))
        \/ Become(p, [q EXCEPT !.pc = IF pin = NoSession THEN "accept" ELSE "recheck"])
    <3>1. q.got = proc[p].got
      BY <1>3
    <3> QED
      BY <1>4, <3>1 DEF Recovered, Reset
  <2> HIDE DEF q
  <2>2. \A s : Unrecovered(q, s).pc \notin CallPcs
    <3> TAKE s
    <3>1. CASE q.flow = "uifirst"
      <4> DEFINE a == Turned(q, "settle", "fallback")
                 b == [a EXCEPT !.got = NoReceipt]
                 n == [b EXCEPT !.seen = IF s # NoSession THEN s ELSE @]
      <4>1. "settle" \in Pcs /\ "fallback" \in Flows
        BY DEF Pcs, LoadPcs, Flows
      <4>2. a \in Process /\ a.pc = "settle"
        BY <1>3, <4>1, TurnedFields
      <4>3. n = Unrecovered(q, s)
        BY <3>1 DEF Unrecovered, Turned
      <4> HIDE DEF a
      <4>4. b \in Process /\ b.pc = "settle"
        BY <4>2, NoReceiptTyped DEF Process
      <4> HIDE DEF b
      <4>5. n.pc = "settle"
        BY <4>4 DEF Process
      <4> QED
        BY <4>3, <4>5 DEF CallPcs
    <3>2. CASE q.flow # "uifirst"
      BY <1>3, <3>2, Uncalled DEF Unrecovered
    <3> QED
      BY <3>1, <3>2
  <2>3. [q EXCEPT !.pc = IF pin = NoSession THEN "accept" ELSE "recheck"].pc \notin CallPcs
    BY <1>3 DEF Process, CallPcs
  <2> QED
    BY <1>1, <2>1, <2>2, <2>3, Quiet, QuietEnded
<1>5. CASE SettleReturns(p)
  <2>1. Untrusted(p) \/ Become(p, SettledWell(q)) \/ Become(p, Unsettled(q))
    BY <1>5 DEF SettleReturns, Reset
  <2>2. /\ proc[p].pc = "settled" /\ knows[p] \subseteq {proc[p].seen}
        /\ proc[p].flow \in {"ambiguous", "main", "fallback", "uisettle", "stop"}
        /\ proc[p].flow = "uisettle" => ui
        /\ 1 <= proc[p].tries
        /\ proc[p].tries <= Before(ui, proc[p].flow) + 1
    BY <1>5, ProcessFacts, ProcessFields DEF SettleReturns, At, Flowing, Tried, Knowing
  <2>3. q.seen = proc[p].seen /\ q.tries = proc[p].tries
    BY <1>1, ResetFields
  <2> HIDE DEF q
  <2>4. SettledWell(q).pc \notin CallPcs /\ Unsettled(q).pc \notin CallPcs
    BY <1>1, <1>3, <2>2, <2>3, SettledGood
  <2> QED
    BY <1>1, <2>1, <2>4, Quiet, QuietEnded
<1> QED
  BY <1>2, <1>4, <1>5

LEMMA QuietJournal ==
  ASSUME Inv, NEW p \in Commands,
         Recheck(p) \/ Accept(p) \/ Publish(p) \/ Observed(p)
  PROVE Harmless(p)
<1>1. proc[p] \in Process /\ dir' = dir /\ Knowing(proc[p], knows[p])
  BY ProcessFacts DEF Recheck, Accept, Publish, Observed
<1>2. proc[p].pc \in {"accept", "publish", "recheck", "observed"}
  BY DEF Recheck, Accept, Publish, Observed, At
<1>3. CASE Untrusted(p) \/ Become(p, Failed(proc[p]))
  BY <1>1, <1>3, QuietEnded
<1>4. CASE Goto(p, "publish")
  <2> DEFINE n == [proc[p] EXCEPT !.pc = "publish"]
  <2>1. n.pc = "publish"
    BY <1>1 DEF Process
  <2>2. Become(p, n)
    BY <1>4 DEF Goto
  <2> HIDE DEF n
  <2> QED
    BY <1>1, <2>1, <2>2, Quiet DEF CallPcs
<1>5. CASE Accepted(p) /\ knows[p] \subseteq {proc[p].got.session}
  BY <1>1, <1>2, <1>5, AcceptedGood, Quiet DEF Accepted
<1>6. CASE Recheck(p)
  BY <1>1, <1>3, <1>5, <1>6 DEF Recheck, At, Knowing
<1>7. CASE Accept(p)
  BY <1>1, <1>3, <1>4, <1>5, <1>7 DEF Accept, At, Knowing
<1>8. CASE Publish(p)
  BY <1>1, <1>3, <1>5, <1>8 DEF Publish, PinPublished, At, Knowing
<1>9. CASE Observed(p)
  BY <1>1, <1>3, <1>5, <1>9 DEF Observed, At, Knowing
<1> QED
  BY <1>6, <1>7, <1>8, <1>9

\* The others notice nothing of a step.
LEMMA Alone ==
  ASSUME Inv, NEW p \in Commands, NEW o \in Commands \ {p}, NEW flow,
         Progress(p) \/ Unreadable(p) \/ Crash(p) \/ Begin(p, flow)
  PROVE Harmless(o)
<1> DEFINE moved == UNCHANGED proc \/ \E q : Become(p, q)
<1>1. /\ Untrusted(p) => moved
      /\ Accepted(p) => moved
      /\ \A pc : Goto(p, pc) => moved
      /\ \A op, s, q : Send(p, op, s, q) => moved
      /\ \A q : Become(p, q) => moved
      /\ UNCHANGED proc => moved
  BY DEF Untrusted, Accepted, Goto, Send
<1>2. \A q : Become(p, q) => proc'[o] = proc[o]
  BY TypeParts DEF Inv, Become
<1>3. moved => proc'[o] = proc[o]
  BY <1>2
<1> HIDE DEF moved
<1>4. moved
  <2>1. CASE Progress(p)
    <3>1. CASE \/ Record(p) \/ Inspect(p) \/ AcquireAnswered(p) \/ AcquireFailed(p)
               \/ StageAnswered(p) \/ CallFailed(p) \/ StartValidated(p)
      BY <1>1, <3>1
      DEF Record, Inspect, AcquireAnswered, AcquireFailed, StageAnswered, CallFailed,
          StartValidated
    <3>2. CASE StartAnswered(p)
      BY <1>1, <3>2 DEF StartAnswered
    <3>3. CASE Accept(p) \/ Publish(p) \/ Recheck(p) \/ Poll(p) \/ ObserveAnswered(p)
               \/ ObserveFailed(p) \/ Observed(p)
      BY <1>1, <3>3
      DEF Accept, Publish, PinPublished, Recheck, Poll, ObserveAnswered, ObserveFailed,
          Observed
    <3>4. CASE \/ Collect(p) \/ Collected(p) \/ FetchAnswered(p) \/ FetchFailed(p)
               \/ Store(p)
      BY <1>1, <3>4 DEF Collect, Collected, FetchAnswered, FetchFailed, Store
    <3>5. CASE \/ Settle(p) \/ SettleAnswered(p) \/ SettleFailed(p) \/ SettleReturns(p)
               \/ Recover(p) \/ Recovered(p)
      BY <1>1, <3>5
      DEF Settle, SettleAnswered, SettleFailed, SettleReturns, Recover, Recovered
    <3>6. CASE Finish(p) \/ RebuildJournal(p) \/ FailureBundle(p)
      BY <1>1, <3>6 DEF Finish, RebuildJournal, FailureBundle
    <3> QED
      BY <2>1, <3>1, <3>2, <3>3, <3>4, <3>5, <3>6 DEF Progress
  <2>2. CASE Unreadable(p) \/ Crash(p) \/ Begin(p, flow)
    BY <1>1, <2>2 DEF Unreadable, Crash, Begin
  <2> QED
    BY <2>1, <2>2
<1>5. dir'[o] = dir[o]
  <2>1. dir \in [Commands -> Bundle]
    BY TypeParts DEF Inv, Rest
  <2>2. /\ \A f : Stored(p, f)[o] = dir[o]
        /\ \A kind : Bundled(p, kind)[o] = dir[o]
    BY <2>1 DEF Stored, Bundled
  <2>3. CASE Store(p) \/ Finish(p) \/ RebuildJournal(p) \/ FailureBundle(p)
    BY <2>2, <2>3 DEF Store, Finish, RebuildJournal, FailureBundle
  <2>4. CASE Progress(p) /\ ~(Store(p) \/ Finish(p) \/ RebuildJournal(p) \/ FailureBundle(p))
    <3>1. dir' = dir
      BY <2>4
      DEF Progress, Record, Inspect, AcquireAnswered, AcquireFailed, StageAnswered,
          StartAnswered, CallFailed, StartValidated, Accept, Publish, Recheck, Poll,
          ObserveAnswered, ObserveFailed, Observed, Collect, Collected, FetchAnswered,
          FetchFailed, Settle, SettleAnswered, SettleFailed, SettleReturns, Recover,
          Recovered, Unmoved
    <3> QED
      BY <3>1
  <2>5. CASE Unreadable(p) \/ Crash(p) \/ Begin(p, flow)
    BY <2>5 DEF Unreadable, Crash, Begin, Unmoved
  <2> QED
    BY <2>3, <2>4, <2>5
<1> QED
  BY <1>3, <1>4, <1>5 DEF Harmless, Effect

\* Once a process was told of a Session under the Run's own claim, it sends no request
\* and writes no evidence unless exactly that Session is pinned.
THEOREM EffectsPinned == Spec => EffectsNeedPin
<1>1. ASSUME Inv, NEW p \in Commands, Progress(p) PROVE Harmless(p)
  BY <1>1, EffectSteps, QuietSteps, QuietAnswers, QuietJournal DEF Progress
<1>2. ASSUME Inv, NEW p \in Commands, Unreadable(p) \/ Crash(p) PROVE Harmless(p)
  BY <1>2, QuietEnded DEF Unreadable, Crash, Unmoved
<1>3. ASSUME Inv, NEW p \in Commands, NEW flow, Begin(p, flow) PROVE Harmless(p)
  <2>1. Fresh("recover", flow).pc = "recover"
    BY DEF Fresh
  <2> QED
    BY <1>3, <2>1, Quiet DEF Begin, CallPcs
<1>4. ASSUME Inv, NEW p \in Commands, NEW o \in Commands \ {p}, NEW flow,
             Progress(p) \/ Unreadable(p) \/ Crash(p) \/ Begin(p, flow)
      PROVE Harmless(o)
  BY <1>4, Alone
<1>5. ASSUME Inv, Environment \/ LosePin \/ UNCHANGED vars, NEW p \in Commands
      PROVE Harmless(p)
  BY <1>5
  DEF Harmless, Effect, Environment, Late, TaskIssues, TaskCompletes, TaskFails, Expire,
      LosePin, vars
<1>6. ASSUME Inv, [Next]_vars
      PROVE \A p \in Commands : Effect(p) => knows[p] \subseteq {pin}
  BY <1>1, <1>2, <1>3, <1>4, <1>5, <1>6 DEF Next, Environment, Harmless
<1> QED
  BY <1>6, Invariance, PTL DEF Spec, EffectsNeedPin

-----------------------------------------------------------------------------
(* What a step makes of a process, field by field *)

\* All fields of a process n.
Is(n, pc, flow, outcome, seen, got, answered, auth, todo, listed, file, tries) ==
  /\ n.pc = pc /\ n.flow = flow /\ n.outcome = outcome /\ n.seen = seen /\ n.got = got
  /\ n.answered = answered /\ n.auth = auth /\ n.todo = todo /\ n.listed = listed
  /\ n.file = file /\ n.tries = tries

LEMMA GoneIs ==
  ASSUME NEW q \in Process, NEW pc
  PROVE Is([q EXCEPT !.pc = pc], pc, q.flow, q.outcome, q.seen, q.got, q.answered, q.auth,
           q.todo, q.listed, q.file, q.tries)
BY DEF Process, Is

LEMMA EndedIs ==
  ASSUME NEW q \in Process, NEW o
  PROVE \/ /\ q.flow \in {"status", "stop", "verify"}
           /\ Is(Ended(q, o), "done", q.flow, o, NoSession, NoReceipt, FALSE, NoSession,
                 {}, {}, UIJournal, 0)
        \/ /\ q.flow \notin {"status", "stop", "verify"}
           /\ Is(Ended(q, o), "done", q.flow, o, NoSession, q.got, FALSE, NoSession,
                 {}, q.listed, UIJournal, q.tries)
BY DEF Ended, Fresh, Is

LEMMA FailedIs ==
  ASSUME NEW q \in Process
  PROVE IF ui
          THEN Is(Failed(q), "recover", "uifirst", q.outcome, q.seen, NoReceipt, q.answered,
                  q.auth, {}, {}, UIJournal, q.tries)
          ELSE Is(Failed(q), "settle", "fallback", q.outcome, q.seen, NoReceipt, q.answered,
                  q.auth, {}, {}, UIJournal, q.tries)
BY DEF Failed, Process, Is

LEMMA TurnedIs ==
  ASSUME NEW q \in Process, NEW pc, NEW flow
  PROVE Is(Turned(q, pc, flow), pc, flow, q.outcome, q.seen, q.got, q.answered, q.auth,
           q.todo, q.listed, q.file, q.tries)
BY DEF Process, Turned, Is

LEMMA ToldIs ==
  ASSUME NEW q \in Process, NEW pc, NEW r
  PROVE Is(Told(q, pc, r), pc, q.flow, q.outcome, q.seen, r, TRUE, q.auth,
           q.todo, q.listed, q.file, q.tries)
BY DEF Process, Told, Is

LEMMA UntoldIs ==
  ASSUME NEW q \in Process
  PROVE Is(Untold(q), "recovered", q.flow, q.outcome, q.seen, NoReceipt, FALSE, q.auth,
           q.todo, q.listed, q.file, q.tries)
BY DEF Process, Untold, Is

LEMMA PaidIs ==
  ASSUME NEW q \in Process
  PROVE /\ Is(Paid(q), "settled", q.flow, q.outcome, q.seen, q.got, TRUE, q.auth,
              q.todo, q.listed, q.file, q.tries)
        /\ Is(Unpaid(q), "settled", q.flow, q.outcome, q.seen, q.got, FALSE, q.auth,
              q.todo, q.listed, q.file, q.tries)
BY DEF Process, Paid, Unpaid, Is

LEMMA ResetIs ==
  ASSUME NEW q \in Process
  PROVE Is(Reset(q), q.pc, q.flow, q.outcome, q.seen, q.got, FALSE, NoSession,
           q.todo, q.listed, q.file, q.tries)
BY DEF Process, Reset, Is

LEMMA CalledIs ==
  ASSUME NEW q \in Process, NEW pc, NEW s
  PROVE Is(Called(q, pc, s), pc, q.flow, q.outcome, q.seen, q.got, q.answered, s,
           q.todo, q.listed, q.file, q.tries)
BY DEF Process, Called, Is

LEMMA SettlingIs ==
  ASSUME NEW q \in Process, NEW s
  PROVE Is(Settling(q, s), "settling", q.flow, q.outcome, q.seen, q.got, q.answered, s,
           q.todo, q.listed, q.file, q.tries + 1)
BY DEF Process, Settling, Is

LEMMA FileIs ==
  ASSUME NEW q \in Process, NEW f
  PROVE Is([q EXCEPT !.file = f], q.pc, q.flow, q.outcome, q.seen, q.got, q.answered, q.auth,
           q.todo, q.listed, f, q.tries)
BY DEF Process, Is

LEMMA FileDoneIs ==
  ASSUME NEW q \in Process
  PROVE Is(FileDone(q), "collect", q.flow, q.outcome, q.seen, q.got, q.answered, q.auth,
           q.todo \ {q.file}, q.listed, UIJournal, q.tries)
BY DEF Process, FileDone, Is

LEMMA RevealedIs ==
  ASSUME NEW q \in Process, NEW r \in Receipt
  PROVE Is(Revealed([q EXCEPT !.pc = "started", !.got = r], r),
           "started", q.flow, q.outcome,
           IF r.own /\ r.session # NoSession THEN r.session ELSE q.seen, r,
           q.answered, q.auth, q.todo, q.listed, q.file, q.tries)
BY DEF Process, Revealed, Is

-----------------------------------------------------------------------------
(* What commands report, and what their bundles hold *)

\* The host is settled, and no request can take it again.
HostDone == ~host.held /\ host.state \in Terminal

\* A process q with the directory d that takes the host to be settled.
Claims(q, d) ==
  \/ q.got.known
  \/ q.pc = "settled" /\ q.answered
  \/ q.pc \in {"finish", "rebuild", "bundle"}
  \/ q.outcome = "ok" /\ q.flow \in {"main", "verify"}
  \/ d.bundle # "none"

\* Its files are evidence of the Run, R; on the way to success no file of R is forgotten.
Stocked(R, q, d) ==
  /\ d.files \subseteq R /\ q.listed \subseteq d.files
  /\ d.bundle = "success" => R \subseteq d.files
  /\ q.todo \subseteq R /\ q.got.files \subseteq R
  /\ q.got.state = "complete" => R \subseteq q.got.files
  /\ q.pc \in {"fetch", "store"} => q.file \in R
  /\ q.flow = "run" /\ q.pc \in {"collect", "fetch", "store"}
       => R \subseteq d.files \cup q.todo
  /\ q.flow = "main" /\ q.pc # "done" => R \subseteq d.files

\* It is done when, and only when, it has an outcome.
Ending(q) == q.pc = "done" <=> q.outcome # "none"

\* The authority of a run command that has not settled yet, where c is claimed, s the pin
\* and f the number of faults: without any, it can only lose it to another Session's pin.
Trusts(q, c, s, f) ==
  /\ q.flow \notin {"status", "stop", "verify"} /\ q.pc # "idle"
  /\ q.flow # "none" \/ q.pc = "inspect" => c
  /\ q.outcome = "crashed" => f # 0
  /\ q.flow = "run" /\ q.pc \in {"accept", "publish", "recheck"}
       => q.got.session # NoSession
  /\ q.pc \in {"poll", "observe", "observed"} => q.seen # NoSession
  /\ f = 0 /\ q.tries = 0 =>
       /\ q.pc \in {"record", "inspect", "acquire", "stage", "start"}
            => q.seen = NoSession
       /\ q.pc \in {"poll", "observe", "observed"} => q.seen = s
       /\ q.pc \in {"recover", "observing", "recovered", "collect", "fetch", "store",
                    "settle"} => q.seen \in {NoSession, s}
       /\ q.pc \in {"observing", "recovered"} => q.auth \in {NoSession, s}
       /\ \/ q.pc \in {"started", "observed"}
          \/ q.pc = "recovered" /\ q.answered
          => q.got.own /\ q.got.sound
       /\ q.pc = "started" => q.got.session # NoSession
       /\ q.pc = "recheck" => s # NoSession
       /\ q.outcome = "authority" => s # NoSession /\ q.got.session # s

\* The evidence on the host is evidence of the Run, and a complete Run has all of it.
HostTrue ==
  /\ host.files \subseteq RequiredFiles
  /\ host.state = "complete" => RequiredFiles \subseteq host.files

\* The invariant of a command, and of all of them.
Honest(p) ==
  /\ Claims(proc[p], dir[p]) => HostDone
  /\ Stocked(RequiredFiles, proc[p], dir[p])
  /\ Ending(proc[p])
  /\ p \in Runners => Trusts(proc[p], claimed, pin, faults)
Honesty == HostTrue /\ \A p \in Commands : Honest(p)

\* A change of the host takes neither its end nor its evidence back.
HostKept ==
  /\ HostDone => HostDone'
  /\ HostTrue => HostTrue'

\* The step of one process, as far as the others and the host are concerned.
LEMMA HonestStep ==
  ASSUME Inv, Honesty, NEW p \in Commands, HostKept, ui' = ui,
         \A o \in Commands \ {p} : proc'[o] = proc[o] /\ dir'[o] = dir[o],
         claimed => claimed', faults \in Nat, faults' = faults \/ faults' = faults + 1,
         pin' = pin \/ pin = NoSession \/ faults' # 0,
         Honest(p)'
  PROVE Honesty'
<1>1. RequiredFiles' = RequiredFiles
  BY DEF RequiredFiles
<1>2. ASSUME NEW o \in Commands \ {p} PROVE Honest(o)'
  <2>1. /\ Claims(proc[o], dir[o]) => HostDone
        /\ Stocked(RequiredFiles, proc[o], dir[o]) /\ Ending(proc[o])
        /\ o \in Runners => Trusts(proc[o], claimed, pin, faults)
        /\ proc'[o] = proc[o] /\ dir'[o] = dir[o]
    BY DEF Honesty, Honest
  <2>2. o \in Runners => Trusts(proc[o], claimed', pin', faults')
    BY <2>1 DEF Trusts
  <2> QED
    BY <1>1, <2>1, <2>2 DEF Honest, HostKept
<1> QED
  BY <1>2 DEF Honesty, HostKept

\* A step that moves one process and leaves what the invariant speaks of alone.
Still == <<ui, claimed, pin, dir, host>>
LEMMA HonestMove ==
  ASSUME Inv, Honesty, NEW p \in Commands, NEW n, Become(p, n), UNCHANGED Still,
         faults' = faults \/ faults' = faults + 1,
         Claims(n, dir[p]) => HostDone,
         Stocked(RequiredFiles, n, dir[p]), Ending(n),
         p \in Runners => Trusts(n, claimed, pin, faults')
  PROVE Honesty'
<1>1. /\ proc'[p] = n /\ \A o \in Commands \ {p} : proc'[o] = proc[o]
      /\ faults \in Nat
  BY TypeParts DEF Inv, Become, Rest
<1>2. RequiredFiles' = RequiredFiles /\ host' = host /\ dir' = dir /\ pin' = pin
      /\ claimed' = claimed /\ ui' = ui
  BY DEF RequiredFiles, Still
<1>3. HostDone' = HostDone /\ HostTrue' = HostTrue
  BY <1>2 DEF HostDone, HostTrue
<1>4. Honest(p)'
  BY <1>1, <1>2, <1>3 DEF Honest, Honesty
<1> QED
  BY <1>1, <1>2, <1>3, <1>4, HonestStep DEF HostKept

\* What the invariants say of one command, in one place.
LEMMA HonestFacts ==
  ASSUME Inv, Honesty, NEW p \in Commands
  PROVE /\ proc[p] \in Process /\ Flowing(ui, proc[p]) /\ Tried(ui, proc[p])
        /\ proc[p].tries \in Nat /\ proc[p].got \in Receipt /\ faults \in Nat
        /\ Claims(proc[p], dir[p]) => HostDone
        /\ Stocked(RequiredFiles, proc[p], dir[p])
        /\ Ending(proc[p])
        /\ p \in Runners => Trusts(proc[p], claimed, pin, faults)
BY ProcessFacts, ProcessFields DEF Honesty, Honest, Rest

\* A process that ends with outcome o, when s is the pin and f the number of faults.
LEMMA EndedHonest ==
  ASSUME Inv, Honesty, NEW p \in Commands, NEW q \in Process, NEW o \in Outcomes,
         q.flow = proc[p].flow,
         q.flow \notin {"status", "stop", "verify"}
           => q.got = proc[p].got /\ q.listed = proc[p].listed /\ q.tries = proc[p].tries,
         NEW s, NEW f, o # "none",
         o = "ok" /\ q.flow \in {"main", "verify"} => HostDone,
         p \in Runners =>
           /\ o = "crashed" => f # 0
           /\ o = "authority" /\ f = 0 /\ proc[p].tries = 0
                => s # NoSession /\ proc[p].got.session # s
  PROVE LET n == Ended(q, o) IN
        /\ Claims(n, dir[p]) => HostDone
        /\ Stocked(RequiredFiles, n, dir[p]) /\ Ending(n)
        /\ p \in Runners => Trusts(n, claimed, s, f)
<1> DEFINE n == Ended(q, o)
<1>1. /\ Stocked(RequiredFiles, proc[p], dir[p]) /\ (Claims(proc[p], dir[p]) => HostDone)
      /\ p \in Runners => Trusts(proc[p], claimed, pin, faults)
  BY HonestFacts
<1>2. \/ /\ q.flow \in {"status", "stop", "verify"}
         /\ Is(n, "done", q.flow, o, NoSession, NoReceipt, FALSE, NoSession,
               {}, {}, UIJournal, 0)
      \/ /\ q.flow \notin {"status", "stop", "verify"}
         /\ Is(n, "done", q.flow, o, NoSession, q.got, FALSE, NoSession,
               {}, q.listed, UIJournal, q.tries)
  BY EndedIs
<1>3. NoReceipt.known = FALSE /\ NoReceipt.files = {} /\ NoReceipt.state = "none"
  BY DEF NoReceipt
<1> HIDE DEF n
<1>4. Claims(n, dir[p]) => HostDone
  BY <1>1, <1>2, <1>3 DEF Claims, Is
<1>5. Stocked(RequiredFiles, n, dir[p])
  BY <1>1, <1>2, <1>3 DEF Stocked, Is
<1>6. Ending(n)
  BY <1>2 DEF Ending, Is
<1>7. p \in Runners => Trusts(n, claimed, s, f)
  BY <1>1, <1>2 DEF Trusts, Is
<1> QED
  BY <1>4, <1>5, <1>6, <1>7 DEF n

\* The host after a step, and what of it the invariant speaks of.
HostIs(h, state, held, files) == h.state = state /\ h.held = held /\ h.files = files

LEMMA HostParts ==
  ASSUME NEW h \in Host
  PROVE /\ h.state \in HostStates /\ h.held \in BOOLEAN /\ h.files \subseteq Files
        /\ HostIs([h EXCEPT !.state = "accepted", !.held = TRUE], "accepted", TRUE, h.files)
        /\ HostIs([h EXCEPT !.state = "staged"], "staged", h.held, h.files)
        /\ HostIs([h EXCEPT !.state = "starting"], "starting", h.held, h.files)
        /\ \A s : HostIs([h EXCEPT !.session = s, !.state = "running"], "running", h.held,
                         h.files)
        /\ \A st, fs : HostIs([h EXCEPT !.state = st, !.files = fs], st, h.held, fs)
        /\ \A fs : HostIs([h EXCEPT !.held = FALSE, !.files = fs,
                                    !.state = IF @ \in Terminal THEN @ ELSE "failed"],
                          IF h.state \in Terminal THEN h.state ELSE "failed", FALSE, fs)
BY HostFields DEF Host, HostIs

LEMMA RequestsKeepHost ==
  ASSUME Rest, ui' = ui, NEW s,
         host' \in Acquired \/ host' \in Staged \/ host' \in Started \/ host' \in Settled(s)
  PROVE HostKept
<1>1. /\ host \in Host /\ ui \in BOOLEAN /\ RequiredFiles' = RequiredFiles
      /\ ui => UIJournal \in RequiredFiles
  BY FilesAssumption DEF Rest, RequiredFiles
<1>2. ASSUME NEW state \in {"accepted", "staged", "starting"}, NEW held \in BOOLEAN,
             HostIs(host', state, held, host.files), host.held \/ host.state = "none"
      PROVE HostKept
  BY <1>1, <1>2 DEF HostIs, HostKept, HostDone, HostTrue, Terminal
<1>3. CASE host' = host
  BY <1>1, <1>3 DEF HostKept, HostDone, HostTrue
<1>4. CASE host' \in Settled(s) /\ host' # host
  <2>1. PICK fs \in {host.files, host.files \cup {UIJournal}} :
          /\ fs # host.files => ui
          /\ host' = [host EXCEPT !.held = FALSE, !.files = fs,
                                  !.state = IF @ \in Terminal THEN @ ELSE "failed"]
    BY <1>4 DEF Settled
  <2>2. HostIs(host', IF host.state \in Terminal THEN host.state ELSE "failed", FALSE, fs)
    BY <1>1, <2>1, HostParts
  <2>3. HostDone => HostDone'
    BY <2>2 DEF HostIs, HostDone, Terminal
  <2>4. HostTrue => HostTrue'
    BY <1>1, <2>1, <2>2 DEF HostIs, HostTrue, Terminal
  <2> QED
    BY <2>3, <2>4 DEF HostKept
<1>5. CASE host' \in Acquired
  <2>1. \/ host' = host
        \/ host.state = "none" /\ host' = [host EXCEPT !.state = "accepted", !.held = TRUE]
    BY <1>5 DEF Acquired
  <2> QED
    BY <1>1, <1>2, <1>3, <2>1, HostParts, TRUE \in BOOLEAN
<1>6. CASE host' \in Staged
  <2>1. host.held /\ host' = [host EXCEPT !.state = "staged"]
    BY <1>6 DEF Staged
  <2> QED
    BY <1>1, <1>2, <2>1, HostParts
<1>7. CASE host' \in Started
  <2>1. \/ host' = host
        \/ host.held /\ host' = [host EXCEPT !.state = "starting"]
    BY <1>7 DEF Started
  <2> QED
    BY <1>1, <1>2, <1>3, <2>1, HostParts, TRUE \in BOOLEAN
<1> QED
  BY <1>3, <1>4, <1>5, <1>6, <1>7

LEMMA SettledEndsHost ==
  ASSUME Rest, NEW s, host' \in Settled(s)
  PROVE HostDone'
<1>1. host \in Host
  BY DEF Rest
<1>2. CASE host' = host /\ HostDone
  BY <1>2 DEF HostDone
<1>3. CASE ~(host' = host /\ HostDone)
  <2>1. PICK fs : host' = [host EXCEPT !.held = FALSE, !.files = fs,
                                  !.state = IF @ \in Terminal THEN @ ELSE "failed"]
    BY <1>3 DEF Settled, HostDone
  <2>2. HostIs(host', IF host.state \in Terminal THEN host.state ELSE "failed", FALSE, fs)
    BY <1>1, <2>1, HostParts
  <2> QED
    BY <2>2 DEF HostIs, HostDone, Terminal
<1> QED
  BY <1>2, <1>3

LEMMA TaskKeepsHost ==
  ASSUME Rest, TaskIssues \/ TaskCompletes \/ TaskFails
  PROVE HostKept
<1>1. host \in Host /\ ui' = ui /\ RequiredFiles' = RequiredFiles /\ host.held
  <2>1. host.held /\ ui' = ui
    BY DEF TaskIssues, TaskCompletes, TaskFails
  <2> QED
    BY <2>1 DEF Rest, RequiredFiles
<1>2. CASE TaskIssues
  <2>1. PICK s : host' = [host EXCEPT !.session = s, !.state = "running"]
    BY <1>2 DEF TaskIssues
  <2>2. HostIs(host', "running", host.held, host.files)
    BY <1>1, <2>1, HostParts
  <2> QED
    BY <1>1, <2>2 DEF HostIs, HostKept, HostDone, HostTrue
<1>3. CASE TaskCompletes \/ TaskFails
  <2>1. PICK st \in Terminal, fs \in SUBSET RequiredFiles :
          /\ host' = [host EXCEPT !.state = st, !.files = fs]
          /\ st = "complete" => fs = RequiredFiles
    BY <1>3 DEF TaskCompletes, TaskFails, Terminal
  <2>2. HostIs(host', st, host.held, fs)
    BY <1>1, <2>1, HostParts
  <2> QED
    BY <1>1, <2>1, <2>2 DEF HostIs, HostKept, HostDone, HostTrue
<1> QED
  BY <1>2, <1>3

LEMMA EndedMove ==
  ASSUME Inv, Honesty, NEW p \in Commands, NEW o \in {"plain", "authority", "crashed"},
         Become(p, Ended(proc[p], o)), UNCHANGED Still,
         faults' = faults \/ faults' = faults + 1,
         p \in Runners =>
           /\ o = "crashed" => faults' # 0
           /\ o = "authority" /\ faults' = 0 /\ proc[p].tries = 0
                => pin # NoSession /\ proc[p].got.session # pin
  PROVE Honesty'
<1>1. proc[p] \in Process /\ o \in Outcomes
  BY HonestFacts DEF Outcomes
<1> QED
  BY <1>1, EndedHonest, HonestMove

\* A Run that fails but keeps its authority.
LEMMA FailedHonest ==
  ASSUME Inv, Honesty, NEW p \in Commands, proc[p].flow \in {"run", "main"},
         proc[p].pc # "done", NEW q \in Process, q.outcome = proc[p].outcome,
         q.tries = proc[p].tries, NEW s, NEW f,
         p \in Runners /\ f = 0 /\ proc[p].tries = 0 => q.seen \in {NoSession, s}
  PROVE LET n == Failed(q) IN
        /\ Claims(n, dir[p]) => HostDone
        /\ Stocked(RequiredFiles, n, dir[p]) /\ Ending(n)
        /\ p \in Runners => Trusts(n, claimed, s, f)
<1> DEFINE n == Failed(q)
<1>1. /\ Stocked(RequiredFiles, proc[p], dir[p]) /\ Ending(proc[p])
      /\ Claims(proc[p], dir[p]) => HostDone
      /\ p \in Runners => Trusts(proc[p], claimed, pin, faults)
  BY HonestFacts
<1>2. /\ n.pc \in {"recover", "settle"} /\ n.flow \in {"uifirst", "fallback"}
      /\ n.outcome = q.outcome /\ n.seen = q.seen /\ n.got = NoReceipt
      /\ n.todo = {} /\ n.listed = {} /\ n.tries = q.tries
  BY FailedIs DEF Is
<1>3. NoReceipt.known = FALSE /\ NoReceipt.files = {} /\ NoReceipt.state = "none"
  BY DEF NoReceipt
<1> HIDE DEF n
<1>4. q.outcome = "none"
  BY <1>1 DEF Ending
<1>5. Claims(n, dir[p]) => HostDone
  BY <1>1, <1>2, <1>3, <1>4 DEF Claims
<1>6. Stocked(RequiredFiles, n, dir[p]) /\ Ending(n)
  BY <1>1, <1>2, <1>3, <1>4 DEF Stocked, Ending
<1>7. p \in Runners => Trusts(n, claimed, s, f)
  BY <1>1, <1>2, <1>4 DEF Trusts
<1> QED
  BY <1>5, <1>6, <1>7 DEF n

LEMMA FailedMove ==
  ASSUME Inv, Honesty, NEW p \in Commands, proc[p].pc # "done",
         proc[p].flow \in {"run", "main"}, Become(p, Failed(proc[p])), UNCHANGED Still,
         faults' = faults \/ faults' = faults + 1,
         p \in Runners /\ faults' = 0 /\ proc[p].tries = 0
           => proc[p].seen \in {NoSession, pin}
  PROVE Honesty'
<1>1. proc[p] \in Process
  BY HonestFacts
<1> QED
  BY <1>1, FailedHonest, HonestMove

\* A step that changes nothing but the program counter.
LEMMA GotoMove ==
  ASSUME Inv, Honesty, NEW p \in Commands, UNCHANGED Still, faults' = faults,
         NEW pc \in {"observe", "store", "accept", "publish", "recheck", "bundle"},
         Goto(p, pc), proc[p].pc # "done",
         pc = "bundle" => proc[p].pc = "rebuild", pc = "store" => proc[p].pc = "fetch",
         p \in Runners =>
           /\ proc[p].flow = "run" /\ pc \in {"accept", "publish", "recheck"}
                => proc[p].got.session # NoSession
           /\ pc = "observe" => proc[p].pc = "poll"
           /\ pc = "recheck" => pin # NoSession
  PROVE Honesty'
<1> DEFINE q == proc[p]
           n == [q EXCEPT !.pc = pc]
<1>1. /\ q \in Process /\ Stocked(RequiredFiles, q, dir[p]) /\ Ending(q)
      /\ q.pc # "done" /\ (Claims(q, dir[p]) => HostDone)
      /\ p \in Runners => Trusts(q, claimed, pin, faults)
  BY HonestFacts
<1>2. Is(n, pc, q.flow, q.outcome, q.seen, q.got, q.answered, q.auth, q.todo, q.listed,
         q.file, q.tries)
  BY <1>1, GoneIs
<1>3. Become(p, n)
  BY DEF Goto
<1> HIDE DEF n, q
<1>4. Claims(n, dir[p]) => HostDone
  BY <1>1, <1>2 DEF Claims, Is, q
<1>5. Stocked(RequiredFiles, n, dir[p]) /\ Ending(n)
  BY <1>1, <1>2 DEF Stocked, Ending, Is, q
<1>6. p \in Runners => Trusts(n, claimed, pin, faults)
  BY <1>1, <1>2 DEF Trusts, Is, q
<1> QED
  BY <1>3, <1>4, <1>5, <1>6, HonestMove DEF q

-----------------------------------------------------------------------------
(* What ends or interrupts a call *)

LEMMA FaultCounts ==
  ASSUME Inv, NEW kind, Fault(kind)
  PROVE faults' = faults + 1 /\ faults' # 0
<1>1. faults \in Nat
  BY TypeParts DEF Inv, Rest
<1> QED
  BY <1>1 DEF Fault

LEMMA UnreadableHonest ==
  ASSUME Inv, Honesty, NEW p \in Commands, Unreadable(p) PROVE Honesty'
<1>1. faults' = faults + 1 /\ faults' # 0
  BY FaultCounts DEF Unreadable
<1> QED
  BY <1>1, EndedMove DEF Unreadable, Untrusted, Unmoved, local, Still

LEMMA CrashHonest ==
  ASSUME Inv, Honesty, NEW p \in Commands, Crash(p) PROVE Honesty'
<1>1. faults' = faults + 1 /\ faults' # 0
  BY FaultCounts DEF Crash
<1> QED
  BY <1>1, EndedMove DEF Crash, Unmoved, local, Still

LEMMA CallFailedHonest ==
  ASSUME Inv, Honesty, NEW p \in Commands, CallFailed(p) PROVE Honesty'
<1>1. /\ proc[p].pc \in {"stage", "start", "observe"} /\ proc[p].flow = "run"
      /\ UNCHANGED Still /\ faults' = faults
      /\ p \in Runners => Trusts(proc[p], claimed, pin, faults)
  BY HonestFacts DEF CallFailed, Flowing, Unmoved, local, Still
<1>2. p \in Runners /\ faults' = 0 /\ proc[p].tries = 0 => proc[p].seen \in {NoSession, pin}
  BY <1>1 DEF Trusts
<1> QED
  BY <1>1, <1>2, FailedMove DEF CallFailed

LEMMA StartValidatedHonest ==
  ASSUME Inv, Honesty, NEW p \in Commands, StartValidated(p) PROVE Honesty'
<1> DEFINE r == proc[p].got
<1>1. /\ proc[p].pc = "started" /\ proc[p].flow = "run" /\ UNCHANGED Still
      /\ faults' = faults
      /\ p \in Runners => Trusts(proc[p], claimed, pin, faults)
  BY HonestFacts DEF StartValidated, At, Flowing, Unmoved, local, Still
<1>2. p \in Runners /\ faults' = 0 /\ proc[p].tries = 0
        => r.own /\ r.sound /\ r.session # NoSession
  BY <1>1 DEF Trusts
<1>3. CASE Untrusted(p) /\ (~r.own \/ pin \notin {NoSession, r.session})
  BY <1>1, <1>2, <1>3, EndedMove DEF Untrusted
<1>4. CASE Become(p, Failed(proc[p])) /\ (~r.sound \/ r.session = NoSession)
  BY <1>1, <1>2, <1>4, FailedMove
<1>5. CASE r.session # NoSession /\ Goto(p, IF pin = NoSession THEN "accept" ELSE "recheck")
  BY <1>1, <1>5, GotoMove
<1> QED
  BY <1>3, <1>4, <1>5 DEF StartValidated

LEMMA PollHonest ==
  ASSUME Inv, Honesty, NEW p \in Commands, Poll(p) PROVE Honesty'
<1>1. /\ proc[p].pc = "poll" /\ proc[p].flow = "run" /\ UNCHANGED Still
      /\ faults' = faults
      /\ p \in Runners => Trusts(proc[p], claimed, pin, faults)
  BY HonestFacts DEF Poll, At, Flowing, Unmoved, local, Still
<1>2. p \in Runners /\ faults' = 0 /\ proc[p].tries = 0 => proc[p].seen = pin
  BY <1>1 DEF Trusts
<1>3. CASE Become(p, Failed(proc[p]))
  BY <1>1, <1>2, <1>3, FailedMove
<1>4. CASE Goto(p, "observe")
  BY <1>1, <1>4, GotoMove
<1>5. CASE Untrusted(p) /\ ~Authorized(proc[p].seen)
  BY <1>1, <1>2, <1>5, EndedMove DEF Untrusted, Authorized
<1> QED
  BY <1>3, <1>4, <1>5 DEF Poll

-----------------------------------------------------------------------------
(* Observation and acceptance: a receipt that is trusted *)

LEMMA ObserveAnsweredHonest ==
  ASSUME Inv, Honesty, NEW p \in Commands, ObserveAnswered(p) PROVE Honesty'
<1> DEFINE q == proc[p]
           pc == AfterObserve(q.pc)
<1>1. /\ q \in Process /\ Stocked(RequiredFiles, q, dir[p]) /\ Ending(q)
      /\ q.pc \in {"observe", "observing"} /\ UNCHANGED Still
      /\ Claims(q, dir[p]) => HostDone
      /\ p \in Runners => Trusts(q, claimed, pin, faults)
  BY HonestFacts DEF ObserveAnswered, local, Still
<1>2. PICK a \in Answers(host) :
        FaultOr(a.fault) /\ Become(p, Told(q, pc, a.receipt))
  BY DEF ObserveAnswered, Told
<1> DEFINE r == a.receipt
           n == Told(q, pc, r)
<1>3. /\ r.files = host.files /\ r.state = host.state
      /\ r.known => HostDone
      /\ a.fault = "none" => r.own /\ r.sound
  <2>1. host \in Host
    BY TypeParts DEF Inv, Rest
  <2> QED
    BY <2>1, AnswersTyped DEF HostDone
<1>4. /\ faults' = faults \/ (faults' = faults + 1 /\ faults' # 0)
      /\ faults' = 0 => r.own /\ r.sound /\ faults = 0
  BY <1>2, <1>3, FaultCounts DEF FaultOr
<1>5. HostTrue
  BY DEF Honesty
<1>6. /\ pc \in {"observed", "recovered"} /\ (q.pc = "observe" <=> pc = "observed")
      /\ Is(n, pc, q.flow, q.outcome, q.seen, r, TRUE, q.auth, q.todo, q.listed, q.file,
            q.tries)
  BY <1>1, ToldIs DEF AfterObserve
<1> HIDE DEF n, pc, r, q
<1>7. Claims(n, dir[p]) => HostDone
  BY <1>1, <1>3, <1>6 DEF Claims, Is
<1>8. Stocked(RequiredFiles, n, dir[p]) /\ Ending(n)
  BY <1>1, <1>3, <1>5, <1>6 DEF Stocked, HostTrue, Ending, Is
<1>9. p \in Runners => Trusts(n, claimed, pin, faults')
  BY <1>1, <1>4, <1>6 DEF Trusts, Ending, Is
<1> QED
  BY <1>1, <1>2, <1>4, <1>7, <1>8, <1>9, HonestMove DEF n, pc, r, q

LEMMA ObserveFailedHonest ==
  ASSUME Inv, Honesty, NEW p \in Commands, ObserveFailed(p) PROVE Honesty'
<1> DEFINE q == proc[p]
           n == Untold(q)
<1>1. /\ q \in Process /\ Stocked(RequiredFiles, q, dir[p]) /\ Ending(q)
      /\ q.pc = "observing" /\ UNCHANGED Still /\ faults' = faults
      /\ Claims(q, dir[p]) => HostDone
      /\ p \in Runners => Trusts(q, claimed, pin, faults)
  BY HonestFacts DEF ObserveFailed, At, Unmoved, local, Still
<1>2. Become(p, n)
  BY DEF ObserveFailed, Untold
<1>3. Is(n, "recovered", q.flow, q.outcome, q.seen, NoReceipt, FALSE, q.auth, q.todo,
         q.listed, q.file, q.tries)
  BY <1>1, UntoldIs
<1>4. NoReceipt.known = FALSE /\ NoReceipt.files = {} /\ NoReceipt.state = "none"
  BY DEF NoReceipt
<1> HIDE DEF n, q
<1>5. Claims(n, dir[p]) => HostDone
  BY <1>1, <1>3, <1>4 DEF Claims, Is
<1>6. Stocked(RequiredFiles, n, dir[p]) /\ Ending(n)
  BY <1>1, <1>3, <1>4 DEF Stocked, Ending, Is
<1>7. p \in Runners => Trusts(n, claimed, pin, faults')
  BY <1>1, <1>3 DEF Trusts, Ending, Is
<1> QED
  BY <1>1, <1>2, <1>5, <1>6, <1>7, HonestMove

\* The process q after it has come to trust the receipt it validated.
Trusting(q) == [q EXCEPT !.seen = q.got.session, !.got = NoReceipt]
Collecting(q) == [Trusting(q) EXCEPT !.pc = "collect", !.todo = q.got.files]

LEMMA TrustingIs ==
  ASSUME NEW q \in Process
  PROVE /\ Trusting(q) \in Process
        /\ Is(Trusting(q), q.pc, q.flow, q.outcome, q.got.session, NoReceipt, q.answered,
              q.auth, q.todo, q.listed, q.file, q.tries)
        /\ Is(Collecting(q), "collect", q.flow, q.outcome, q.got.session, NoReceipt,
              q.answered, q.auth, q.got.files, q.listed, q.file, q.tries)
<1> DEFINE t == Trusting(q)
<1>1. NoReceipt \in Receipt /\ q.got.session \in MaybeSession
  BY NoReceiptTyped, ProcessFields, ReceiptFields
<1>2. t \in Process
  BY <1>1 DEF Trusting, Process
<1>3. Is(t, q.pc, q.flow, q.outcome, q.got.session, NoReceipt, q.answered,
         q.auth, q.todo, q.listed, q.file, q.tries)
  BY DEF Trusting, Process, Is
<1> HIDE DEF t
<1>4. Is([t EXCEPT !.pc = "collect", !.todo = q.got.files], "collect", t.flow, t.outcome,
         t.seen, t.got, t.answered, t.auth, q.got.files, t.listed, t.file, t.tries)
  BY <1>2 DEF Process, Is
<1>5. Collecting(q) = [t EXCEPT !.pc = "collect", !.todo = q.got.files]
  BY DEF Collecting, t
<1>6. Is(Collecting(q), "collect", q.flow, q.outcome, q.got.session, NoReceipt,
         q.answered, q.auth, q.got.files, q.listed, q.file, q.tries)
  BY <1>3, <1>4, <1>5 DEF Is
<1> QED
  BY <1>2, <1>3, <1>6 DEF t

\* Where acceptance leads, when s is the pin.
LEMMA ProceedHonest ==
  ASSUME Inv, Honesty, NEW p \in Commands,
         proc[p].pc \in {"observed", "recheck", "accept", "publish"}, NEW s,
         p \in Runners => proc[p].got.session \in {NoSession, s},
         p \in Runners /\ proc[p].flow = "run" => proc[p].got.session # NoSession
  PROVE LET n == Proceed(proc[p]) IN
        /\ Claims(n, dir[p]) => HostDone
        /\ Stocked(RequiredFiles, n, dir[p]) /\ Ending(n)
        /\ p \in Runners => Trusts(n, claimed, s, faults)
<1> DEFINE q == proc[p]
           t == Trusting(q)
           n == Proceed(q)
           Goal(m) == /\ Claims(m, dir[p]) => HostDone
                      /\ Stocked(RequiredFiles, m, dir[p]) /\ Ending(m)
                      /\ p \in Runners => Trusts(m, claimed, s, faults)
<1>1. /\ q \in Process /\ Stocked(RequiredFiles, q, dir[p]) /\ Ending(q)
      /\ q.pc \in {"observed", "recheck", "accept", "publish"}
      /\ q.flow \in {"run", "uifirst", "uifinal", "status", "stop", "verify"}
      /\ q.flow = "uifinal" => q.tries >= 1
      /\ Claims(q, dir[p]) => HostDone
      /\ p \in Runners => Trusts(q, claimed, pin, faults)
  BY HonestFacts DEF Flowing, Tried
<1>2. p \in Runners => /\ q.got.session \in {NoSession, s}
                       /\ q.flow = "run" => q.got.session # NoSession
  OBVIOUS
<1>3. /\ t \in Process
      /\ Is(t, q.pc, q.flow, q.outcome, q.got.session, NoReceipt, q.answered,
            q.auth, q.todo, q.listed, q.file, q.tries)
  BY <1>1, TrustingIs
<1>4. NoReceipt.known = FALSE /\ NoReceipt.files = {} /\ NoReceipt.state = "none"
  BY DEF NoReceipt
<1>5. CASE \/ q.flow = "run" /\ q.got.state = "complete"
           \/ q.flow = "uifirst"
  <2> DEFINE m == Collecting(q)
  <2>1. n = m
    <3>1. CASE q.flow = "run" /\ q.got.state = "complete"
      BY <3>1 DEF Proceed, Collecting, Trusting, Terminal
    <3>2. CASE q.flow = "uifirst"
      BY <3>2 DEF Proceed, Collecting, Trusting
    <3> QED
      BY <1>5, <3>1, <3>2
  <2>2. Is(m, "collect", q.flow, q.outcome, q.got.session, NoReceipt,
           q.answered, q.auth, q.got.files, q.listed, q.file, q.tries)
    BY <1>1, TrustingIs
  <2> HIDE DEF m, n, t, q
  <2>3. Claims(m, dir[p]) => HostDone
    BY <1>1, <1>4, <1>5, <2>2 DEF Claims, Is
  <2>4. Stocked(RequiredFiles, m, dir[p]) /\ Ending(m)
    BY <1>1, <1>4, <1>5, <2>2 DEF Stocked, Ending, Is
  <2>5. p \in Runners => Trusts(m, claimed, s, faults)
    BY <1>1, <1>2, <2>2 DEF Trusts, Ending, Is
  <2> QED
    BY <2>1, <2>3, <2>4, <2>5 DEF n, q
<1>6. CASE q.flow = "run" /\ q.got.state = "failed"
  <2>1. n = Failed(t)
    BY <1>6 DEF Proceed, Trusting, Terminal
  <2>2. q.pc # "done" /\ t.outcome = q.outcome /\ t.tries = q.tries /\ t.seen = q.got.session
    BY <1>1, <1>3 DEF Is
  <2> HIDE DEF t
  <2>3. Goal(Failed(t))
    BY <1>2, <1>3, <1>6, <2>2, FailedHonest
  <2> QED
    BY <2>1, <2>3
<1>7. ASSUME NEW pc \in {"poll", "settle"}, n = [t EXCEPT !.pc = pc],
             q.flow = IF pc = "poll" THEN "run" ELSE "stop"
      PROVE Goal(n)
  <2> DEFINE m == [t EXCEPT !.pc = pc]
  <2> HIDE DEF t
  <2>1. Is(m, pc, t.flow, t.outcome, t.seen, t.got, t.answered, t.auth, t.todo, t.listed,
           t.file, t.tries)
    BY <1>3, GoneIs
  <2>2. n = m
    BY <1>7
  <2> HIDE DEF m, n, q
  <2>3. Is(m, pc, q.flow, q.outcome, q.got.session, NoReceipt, q.answered,
            q.auth, q.todo, q.listed, q.file, q.tries)
    BY <1>3, <2>1 DEF Is
  <2>4. Claims(m, dir[p]) => HostDone
    BY <1>1, <1>4, <1>7, <2>3 DEF Claims, Is
  <2>5. Stocked(RequiredFiles, m, dir[p]) /\ Ending(m)
    BY <1>1, <1>4, <1>7, <2>3 DEF Stocked, Ending, Is
  <2>6. p \in Runners => Trusts(m, claimed, s, faults)
    BY <1>1, <1>2, <1>7, <2>3 DEF Trusts, Ending, Is
  <2> QED
    BY <2>2, <2>4, <2>5, <2>6
<1>8. CASE \/ q.flow = "run" /\ q.got.state \notin Terminal
           \/ q.flow = "stop"
  <2>1. \/ q.flow = "run" /\ n = [t EXCEPT !.pc = "poll"]
        \/ q.flow = "stop" /\ n = [t EXCEPT !.pc = "settle"]
    BY <1>8 DEF Proceed, Terminal, Trusting
  <2> QED
    BY <1>7, <2>1
<1>9. CASE q.flow = "uifinal"
  <2>1. \/ q.got.known /\ n = [q EXCEPT !.pc = "rebuild"]
        \/ n = Ended(q, "plain")
    BY <1>9 DEF Proceed
  <2>2. CASE n = Ended(q, "plain")
    <3>1. "plain" \in Outcomes
      BY DEF Outcomes
    <3>2. Goal(Ended(q, "plain"))
      BY <1>1, <3>1, EndedHonest
    <3> QED
      BY <2>2, <3>2
  <2>3. CASE q.got.known /\ n = [q EXCEPT !.pc = "rebuild"]
    <3> DEFINE m == [q EXCEPT !.pc = "rebuild"]
    <3>1. Is(m, "rebuild", q.flow, q.outcome, q.seen, q.got, q.answered, q.auth, q.todo,
             q.listed, q.file, q.tries)
      BY <1>1, GoneIs
    <3>2. n = m
      BY <2>3
    <3> HIDE DEF m, n, q
    <3>3. Claims(m, dir[p]) => HostDone
      BY <1>1, <2>3, <3>1 DEF Claims, Is
    <3>4. Stocked(RequiredFiles, m, dir[p]) /\ Ending(m)
      BY <1>1, <1>9, <3>1 DEF Stocked, Ending, Is
    <3>5. p \in Runners => Trusts(m, claimed, s, faults)
      BY <1>1, <1>9, <3>1 DEF Trusts, Ending, Is
    <3> QED
      BY <3>2, <3>3, <3>4, <3>5 DEF n, q
  <2> QED
    BY <2>1, <2>2, <2>3
<1>10. CASE q.flow \in {"status", "verify"}
  <2>1. PICK o \in {"ok", "plain"} :
          n = Ended(t, o) /\ (o = "ok" /\ q.flow = "verify" => q.got.known)
    BY <1>10 DEF Proceed, Trusting
  <2>2. o \in Outcomes /\ t.flow = q.flow
    BY <1>3 DEF Outcomes, Is
  <2>3. o = "ok" /\ t.flow \in {"main", "verify"} => HostDone
    BY <1>1, <1>10, <2>1, <2>2 DEF Claims
  <2> HIDE DEF t
  <2>4. Goal(Ended(t, o))
    BY <1>3, <1>10, <2>2, <2>3, EndedHonest
  <2> QED
    BY <2>1, <2>4
<1>11. q.got.state \in {"complete", "failed"} \/ q.got.state \notin Terminal
  BY DEF Terminal
<1> QED
  BY <1>1, <1>5, <1>6, <1>8, <1>9, <1>10, <1>11

LEMMA AcceptedMove ==
  ASSUME Inv, Honesty, NEW p \in Commands, Accepted(p), UNCHANGED Still, faults' = faults,
         proc[p].pc \in {"observed", "recheck", "accept"},
         Authorized(proc[p].got.session),
         p \in Runners /\ proc[p].flow = "run" => proc[p].got.session # NoSession
  PROVE Honesty'
<1>1. Become(p, Proceed(proc[p])) /\ proc[p].got.session \in {NoSession, pin}
  BY DEF Accepted, Authorized
<1> QED
  BY <1>1, ProceedHonest, HonestMove

LEMMA RecheckHonest ==
  ASSUME Inv, Honesty, NEW p \in Commands, Recheck(p) PROVE Honesty'
<1>1. /\ proc[p].pc = "recheck" /\ UNCHANGED Still /\ faults' = faults
      /\ p \in Runners => Trusts(proc[p], claimed, pin, faults)
  BY HonestFacts DEF Recheck, At, local, Still
<1>2. CASE Accepted(p) /\ Authorized(proc[p].got.session)
  <2>1. p \in Runners /\ proc[p].flow = "run" => proc[p].got.session # NoSession
    BY <1>1 DEF Trusts
  <2> QED
    BY <1>1, <1>2, <2>1, AcceptedMove
<1>3. CASE Untrusted(p) /\ ~Authorized(proc[p].got.session)
  <2>1. p \in Runners /\ faults' = 0 /\ proc[p].tries = 0
          => pin # NoSession /\ proc[p].got.session # pin
    BY <1>1, <1>3 DEF Trusts, Authorized
  <2> QED
    BY <1>1, <1>3, <2>1, EndedMove DEF Untrusted
<1> QED
  BY <1>2, <1>3 DEF Recheck

LEMMA AcceptHonest ==
  ASSUME Inv, Honesty, NEW p \in Commands, Accept(p) PROVE Honesty'
<1> DEFINE s == proc[p].got.session
<1>1. /\ proc[p].pc = "accept" /\ UNCHANGED Still /\ faults' = faults
      /\ p \in Runners => Trusts(proc[p], claimed, pin, faults)
  BY HonestFacts DEF Accept, At, local, Still
<1>2. p \in Runners /\ proc[p].flow = "run" => s # NoSession
  BY <1>1 DEF Trusts
<1>3. CASE Accepted(p) /\ s = pin
  BY <1>1, <1>2, <1>3, AcceptedMove DEF Authorized
<1>4. CASE Untrusted(p) /\ pin \notin {NoSession, s}
  BY <1>1, <1>4, EndedMove DEF Untrusted
<1>5. CASE Goto(p, "publish")
  BY <1>1, <1>2, <1>5, GotoMove
<1> QED
  BY <1>3, <1>4, <1>5 DEF Accept

LEMMA HostUnchanged ==
  ASSUME UNCHANGED <<ui, host>>
  PROVE HostKept /\ RequiredFiles' = RequiredFiles /\ HostDone' = HostDone
BY DEF HostKept, HostDone, HostTrue, RequiredFiles

\* A step that also publishes the pin.
LEMMA PublishHonest ==
  ASSUME Inv, Honesty, NEW p \in Commands, Publish(p) PROVE Honesty'
<1> DEFINE q == proc[p]
           s == q.got.session
<1>1. /\ q.pc = "publish" /\ UNCHANGED <<ui, claimed, dir, host>>
      /\ q \in Process /\ faults \in Nat
      /\ p \in Runners => Trusts(q, claimed, pin, faults)
  BY HonestFacts DEF Publish, At, local
<1>2. p \in Runners /\ q.flow = "run" => s # NoSession
  BY <1>1 DEF Trusts
<1>3. ASSUME NEW n, Become(p, n), faults' = faults \/ faults' = faults + 1,
             pin' = pin \/ pin = NoSession,
             Claims(n, dir[p]) => HostDone,
             Stocked(RequiredFiles, n, dir[p]), Ending(n),
             p \in Runners => Trusts(n, claimed, pin', faults')
      PROVE Honesty'
  <2>1. proc'[p] = n /\ \A o \in Commands \ {p} : proc'[o] = proc[o]
    BY <1>3, TypeParts DEF Inv, Become
  <2>2. Honest(p)'
    BY <1>1, <1>3, <2>1, HostUnchanged DEF Honest
  <2> QED
    BY <1>1, <1>3, <2>1, <2>2, HonestStep, HostUnchanged
<1>4. CASE /\ pin \in {NoSession, s} /\ Accepted(p) /\ faults' = faults
           /\ pin' = IF pin = NoSession THEN s ELSE pin
  <2>1. pin' = s /\ (pin' = pin \/ pin = NoSession)
    BY <1>4
  <2>2. Become(p, Proceed(q))
    BY <1>4 DEF Accepted
  <2>3. LET n == Proceed(q) IN
        /\ Claims(n, dir[p]) => HostDone
        /\ Stocked(RequiredFiles, n, dir[p]) /\ Ending(n)
        /\ p \in Runners => Trusts(n, claimed, s, faults)
    BY <1>1, <1>2, ProceedHonest
  <2> HIDE DEF q, s
  <2> QED
    BY <1>3, <1>4, <2>1, <2>2, <2>3
<1>5. CASE /\ Untrusted(p)
           /\ pin' = pin \/ pin = NoSession
           /\ \/ /\ faults' = faults /\ pin \notin {NoSession, s} /\ pin' = pin
              \/ /\ faults' = faults + 1 /\ pin = NoSession
  <2>1. "authority" \in Outcomes /\ (faults' = faults + 1 => faults' # 0)
    BY <1>1 DEF Outcomes
  <2>2. Become(p, Ended(q, "authority"))
    BY <1>5 DEF Untrusted
  <2>3. LET n == Ended(q, "authority") IN
        /\ Claims(n, dir[p]) => HostDone
        /\ Stocked(RequiredFiles, n, dir[p]) /\ Ending(n)
        /\ p \in Runners => Trusts(n, claimed, pin', faults')
    BY <1>1, <1>5, <2>1, EndedHonest
  <2> HIDE DEF q, s
  <2> QED
    BY <1>3, <1>5, <2>2, <2>3
<1>6. Fault("publish") => faults' = faults + 1
  BY DEF Fault
<1> QED
  BY <1>4, <1>5, <1>6 DEF Publish, PinPublished

LEMMA ObservedHonest ==
  ASSUME Inv, Honesty, NEW p \in Commands, Observed(p) PROVE Honesty'
<1> DEFINE r == proc[p].got
<1>1. /\ proc[p].pc = "observed" /\ proc[p].flow = "run" /\ UNCHANGED Still
      /\ faults' = faults
      /\ p \in Runners => Trusts(proc[p], claimed, pin, faults)
  BY HonestFacts DEF Observed, At, Flowing, local, Still
<1>2. p \in Runners /\ faults' = 0 /\ proc[p].tries = 0
        => r.own /\ r.sound /\ proc[p].seen = pin /\ pin # NoSession
  BY <1>1 DEF Trusts
<1>3. CASE Untrusted(p) /\ (~r.own \/ r.session # proc[p].seen \/ ~Authorized(r.session))
  BY <1>1, <1>2, <1>3, EndedMove DEF Untrusted, Authorized
<1>4. CASE Become(p, Failed(proc[p])) /\ ~r.sound
  BY <1>1, <1>2, <1>4, FailedMove
<1>5. CASE Accepted(p) /\ r.session = proc[p].seen /\ Authorized(r.session)
  <2>1. p \in Runners => r.session # NoSession
    BY <1>1, <1>5 DEF Trusts
  <2> QED
    BY <1>1, <1>5, <2>1, AcceptedMove
<1> QED
  BY <1>3, <1>4, <1>5 DEF Observed

-----------------------------------------------------------------------------
(* Recovery, and the turns between flows *)

LEMMA RecoverHonest ==
  ASSUME Inv, Honesty, NEW p \in Commands, Recover(p) PROVE Honesty'
<1> DEFINE q == proc[p]
           n == Called(q, "observing", pin)
<1>1. /\ q \in Process /\ Stocked(RequiredFiles, q, dir[p]) /\ Ending(q)
      /\ q.pc = "recover" /\ q.flow # "none" /\ UNCHANGED Still /\ faults' = faults
      /\ Claims(q, dir[p]) => HostDone
      /\ p \in Runners => Trusts(q, claimed, pin, faults)
  BY HonestFacts DEF Recover, At, Flowing, Unmoved, local, Still
<1>2. CASE Untrusted(p) /\ ~(claimed /\ Authorized(q.seen))
  <2>1. p \in Runners /\ faults' = 0 /\ q.tries = 0 => claimed /\ Authorized(q.seen)
    BY <1>1 DEF Trusts, Authorized
  <2> QED
    BY <1>1, <1>2, <2>1, EndedMove DEF Untrusted
<1>3. CASE Become(p, n)
  <2>1. Is(n, "observing", q.flow, q.outcome, q.seen, q.got, q.answered, pin, q.todo,
           q.listed, q.file, q.tries)
    BY <1>1, CalledIs
  <2> HIDE DEF n, q
  <2>2. Claims(n, dir[p]) => HostDone
    BY <1>1, <2>1 DEF Claims, Is
  <2>3. Stocked(RequiredFiles, n, dir[p]) /\ Ending(n)
    BY <1>1, <2>1 DEF Stocked, Ending, Is
  <2>4. p \in Runners => Trusts(n, claimed, pin, faults')
    BY <1>1, <2>1 DEF Trusts, Ending, Is
  <2> QED
    BY <1>1, <1>3, <2>2, <2>3, <2>4, HonestMove
<1> QED
  BY <1>2, <1>3 DEF Recover, Called

LEMMA UnrecoveredIs ==
  ASSUME NEW q \in Process, NEW s, q.flow = "uifirst"
  PROVE Is(Unrecovered(q, s), "settle", "fallback", q.outcome,
           IF s # NoSession THEN s ELSE q.seen, NoReceipt, q.answered, q.auth,
           q.todo, q.listed, q.file, q.tries)
<1>1. Unrecovered(q, s) = [q EXCEPT !.pc = "settle", !.flow = "fallback", !.got = NoReceipt,
                                    !.seen = IF s # NoSession THEN s ELSE @]
  BY DEF Unrecovered
<1> QED
  BY <1>1 DEF Process, Is

LEMMA RecoveredHonest ==
  ASSUME Inv, Honesty, NEW p \in Commands, Recovered(p) PROVE Honesty'
<1> DEFINE o == proc[p]
           q == Reset(o)
           r == o.got
<1>1. /\ o \in Process /\ Stocked(RequiredFiles, o, dir[p]) /\ Ending(o)
      /\ o.pc = "recovered" /\ UNCHANGED Still /\ faults' = faults
      /\ o.flow \in {"uifirst", "uifinal", "status", "stop", "verify"}
      /\ Claims(o, dir[p]) => HostDone
      /\ p \in Runners => Trusts(o, claimed, pin, faults)
  BY HonestFacts DEF Recovered, At, Flowing, Unmoved, local, Still
<1>2. /\ q \in Process
      /\ Is(q, o.pc, o.flow, o.outcome, o.seen, o.got, FALSE, NoSession, o.todo, o.listed,
            o.file, o.tries)
  BY <1>1, ResetFields, ResetIs
<1>3. p \in Runners /\ faults' = 0 /\ o.tries = 0
        => /\ Authorized(o.auth) /\ (o.answered => r.own /\ r.sound)
           /\ o.seen \in {NoSession, pin}
  BY <1>1 DEF Trusts, Authorized
<1>4. NoReceipt.known = FALSE /\ NoReceipt.files = {} /\ NoReceipt.state = "none"
  BY DEF NoReceipt
<1>5. CASE /\ Untrusted(p)
           /\ \/ ~Authorized(o.auth)
              \/ o.answered /\ (~r.own \/ pin \notin {NoSession, r.session})
  BY <1>1, <1>3, <1>5, EndedMove DEF Untrusted
<1>6. ASSUME NEW s, Become(p, Unrecovered(q, s)), s = pin \/ (o.answered /\ ~r.sound)
      PROVE Honesty'
  <2> DEFINE n == Unrecovered(q, s)
  <2>1. CASE q.flow = "uifirst"
    <3> HIDE DEF q
    <3>1. Is(n, "settle", "fallback", q.outcome, IF s # NoSession THEN s ELSE q.seen,
             NoReceipt, q.answered, q.auth, q.todo, q.listed, q.file, q.tries)
      BY <1>2, <2>1, UnrecoveredIs
    <3> HIDE DEF n, o
    <3>2. Claims(n, dir[p]) => HostDone
      BY <1>1, <1>2, <1>4, <3>1 DEF Claims, Is, Ending
    <3>3. Stocked(RequiredFiles, n, dir[p]) /\ Ending(n)
      BY <1>1, <1>2, <1>4, <3>1 DEF Stocked, Ending, Is
    <3>4. n.pc = "settle" /\ n.flow = "fallback" /\ n.outcome = "none" /\ n.tries = o.tries
          /\ n.seen = IF s # NoSession THEN s ELSE o.seen
      BY <1>1, <1>2, <3>1 DEF Ending, Is
    <3>5. p \in Runners => Trusts(n, claimed, pin, faults')
      BY <1>1, <1>3, <1>6, <3>4 DEF Trusts
    <3> QED
      BY <1>1, <1>6, <3>2, <3>3, <3>5, HonestMove DEF n, o
  <2>2. CASE q.flow # "uifirst"
    <3>1. Become(p, Ended(q, "plain")) /\ "plain" \in Outcomes
      BY <1>6, <2>2 DEF Unrecovered, Outcomes
    <3>2. q.flow = o.flow /\ q.got = o.got /\ q.listed = o.listed /\ q.tries = o.tries
      BY <1>2 DEF Is
    <3> HIDE DEF q
    <3>3. LET m == Ended(q, "plain") IN
          /\ Claims(m, dir[p]) => HostDone
          /\ Stocked(RequiredFiles, m, dir[p]) /\ Ending(m)
          /\ p \in Runners => Trusts(m, claimed, pin, faults)
      BY <1>2, <3>1, <3>2, EndedHonest
    <3> QED
      BY <1>1, <3>1, <3>3, HonestMove
  <2> QED
    BY <2>1, <2>2
<1>7. ASSUME NEW pc \in {"accept", "recheck"}, Become(p, [q EXCEPT !.pc = pc]),
             pc = "recheck" => pin # NoSession
      PROVE Honesty'
  <2> DEFINE n == [q EXCEPT !.pc = pc]
  <2> HIDE DEF q
  <2>1. Is(n, pc, q.flow, q.outcome, q.seen, q.got, q.answered, q.auth, q.todo, q.listed,
           q.file, q.tries)
    BY <1>2, GoneIs
  <2> HIDE DEF n, o, r
  <2>2. Is(n, pc, o.flow, o.outcome, o.seen, o.got, FALSE, NoSession, o.todo, o.listed,
           o.file, o.tries)
    BY <1>2, <2>1 DEF Is
  <2>3. Claims(n, dir[p]) => HostDone
    BY <1>1, <2>2 DEF Claims, Is
  <2>4. Stocked(RequiredFiles, n, dir[p]) /\ Ending(n)
    BY <1>1, <1>7, <2>2 DEF Stocked, Ending, Is
  <2>5. p \in Runners => Trusts(n, claimed, pin, faults')
    BY <1>1, <1>7, <2>2 DEF Trusts, Ending, Is
  <2> QED
    BY <1>1, <1>7, <2>3, <2>4, <2>5, HonestMove DEF n, o
<1>8. \/ /\ Untrusted(p)
         /\ \/ ~Authorized(o.auth)
            \/ o.answered /\ (~r.own \/ pin \notin {NoSession, r.session})
      \/ Become(p, Unrecovered(q, pin))
      \/ o.answered /\ ~r.sound /\ Become(p, Unrecovered(q, r.session))
      \/ \E pc \in {"accept", "recheck"} :
           Become(p, [q EXCEPT !.pc = pc]) /\ (pc = "recheck" => pin # NoSession)
  <2>1. q.got = o.got
    BY <1>2 DEF Is
  <2> QED
    BY <2>1 DEF Recovered, Reset
<1> QED
  BY <1>5, <1>6, <1>7, <1>8

LEMMA TurnedHonest ==
  ASSUME Inv, Honesty, NEW p \in Commands, NEW o \in Process, NEW pc, NEW flow,
         o.outcome = proc[p].outcome, o.tries = proc[p].tries, o.seen = proc[p].seen,
         o.got = proc[p].got, o.todo = proc[p].todo, o.listed = proc[p].listed,
         UNCHANGED Still, faults' = faults,
         Become(p, Turned(o, pc, flow)), proc[p].pc # "done",
         \/ pc = "acquire" /\ flow = "run" /\ proc[p].pc = "inspect"
         \/ pc = "settle" /\ flow = "ambiguous" /\ proc[p].pc = "acquire"
         \/ pc = "settle" /\ flow = "main" /\ proc[p].pc = "collect"
            /\ RequiredFiles \subseteq dir[p].files
         \/ pc = "settle" /\ flow = "uisettle" /\ proc[p].pc = "collect"
         \/ pc = "settle" /\ flow = "fallback" /\ proc[p].tries > 0
         \/ pc = "recover" /\ flow = "uifinal" /\ proc[p].tries > 0
         \/ pc = "recover" /\ flow = "verify" /\ p \notin Runners,
         p \in Runners => claimed
  PROVE Honesty'
<1> DEFINE q == proc[p]
           n == Turned(o, pc, flow)
<1>1. /\ q \in Process /\ Stocked(RequiredFiles, q, dir[p]) /\ Ending(q)
      /\ q.pc # "done"
      /\ Claims(q, dir[p]) => HostDone
      /\ p \in Runners => Trusts(q, claimed, pin, faults)
  BY HonestFacts
<1>2. /\ n.pc = pc /\ n.flow = flow /\ n.outcome = q.outcome /\ n.tries = q.tries
      /\ n.seen = q.seen /\ n.got = q.got /\ n.todo = q.todo /\ n.listed = q.listed
  BY TurnedIs DEF Is
<1> HIDE DEF n, q
<1>3. n.outcome = "none"
  BY <1>1, <1>2 DEF Ending
<1>4. Claims(n, dir[p]) => HostDone
  BY <1>1, <1>2, <1>3 DEF Claims
<1>5. Stocked(RequiredFiles, n, dir[p]) /\ Ending(n)
  BY <1>1, <1>2, <1>3 DEF Stocked, Ending, q
<1>6. p \in Runners => Trusts(n, claimed, pin, faults)
  BY <1>1, <1>2, <1>3 DEF Trusts, q
<1> QED
  BY <1>4, <1>5, <1>6, HonestMove DEF n

LEMMA InspectHonest ==
  ASSUME Inv, Honesty, NEW p \in Commands, Inspect(p) PROVE Honesty'
<1>1. /\ proc[p] \in Process /\ proc[p].pc = "inspect" /\ UNCHANGED Still /\ faults' = faults
      /\ p \in Runners => Trusts(proc[p], claimed, pin, faults)
  BY HonestFacts DEF Inspect, At, local, Still
<1>2. p \in Runners => claimed
  BY <1>1 DEF Trusts
<1>3. CASE Become(p, Turned(proc[p], "acquire", "run"))
  BY <1>1, <1>2, <1>3, TurnedHonest
<1>4. CASE Become(p, Ended(proc[p], "plain"))
  BY <1>1, <1>4, EndedMove
<1> QED
  BY <1>3, <1>4 DEF Inspect, Send, Turned

LEMMA AcquireFailedHonest ==
  ASSUME Inv, Honesty, NEW p \in Commands, AcquireFailed(p) PROVE Honesty'
<1>1. /\ proc[p] \in Process /\ proc[p].pc = "acquire" /\ proc[p].flow = "run"
      /\ UNCHANGED Still /\ faults' = faults
      /\ p \in Runners => Trusts(proc[p], claimed, pin, faults)
  BY HonestFacts DEF AcquireFailed, At, Flowing, Unmoved, local, Still
<1>2. p \in Runners => claimed
  BY <1>1 DEF Trusts
<1>3. Become(p, Turned(proc[p], "settle", "ambiguous"))
  BY DEF AcquireFailed, Turned
<1> QED
  BY <1>1, <1>2, <1>3, TurnedHonest

LEMMA CollectedHonest ==
  ASSUME Inv, Honesty, NEW p \in Commands, Collected(p) PROVE Honesty'
<1>1. /\ proc[p] \in Process /\ proc[p].pc = "collect" /\ proc[p].flow # "none"
      /\ proc[p].todo = {} /\ UNCHANGED Still /\ faults' = faults
      /\ Stocked(RequiredFiles, proc[p], dir[p])
      /\ p \in Runners => Trusts(proc[p], claimed, pin, faults)
  BY HonestFacts DEF Collected, At, Flowing, Unmoved, local, Still
<1>2. p \in Runners => claimed
  BY <1>1 DEF Trusts
<1>3. CASE proc[p].flow = "run"
  <2>1. Become(p, Turned(proc[p], "settle", "main"))
    BY <1>3 DEF Collected, Turned
  <2>2. RequiredFiles \subseteq dir[p].files
    BY <1>1, <1>3 DEF Stocked
  <2> QED
    BY <1>1, <1>2, <2>1, <2>2, TurnedHonest
<1>4. CASE proc[p].flow # "run"
  <2>1. Become(p, Turned(proc[p], "settle", "uisettle"))
    BY <1>4 DEF Collected, Turned
  <2> QED
    BY <1>1, <1>2, <2>1, TurnedHonest
<1> QED
  BY <1>3, <1>4

LEMMA SettleReturnsHonest ==
  ASSUME Inv, Honesty, NEW p \in Commands, SettleReturns(p) PROVE Honesty'
<1> DEFINE o == proc[p]
           q == Reset(o)
<1>1. /\ o \in Process /\ Stocked(RequiredFiles, o, dir[p]) /\ Ending(o)
      /\ o.pc = "settled" /\ UNCHANGED Still /\ faults' = faults
      /\ o.flow \in {"ambiguous", "main", "fallback", "uisettle", "stop"}
      /\ o.tries > 0
      /\ Claims(o, dir[p]) => HostDone
      /\ p \in Runners => Trusts(o, claimed, pin, faults)
  BY HonestFacts DEF SettleReturns, At, Flowing, Tried, Unmoved, local, Still
<1>2. /\ q \in Process
      /\ Is(q, o.pc, o.flow, o.outcome, o.seen, o.got, FALSE, NoSession, o.todo, o.listed,
            o.file, o.tries)
  BY <1>1, ResetFields, ResetIs
<1>3. p \in Runners => claimed /\ o.flow # "stop"
  BY <1>1 DEF Trusts
<1>4. CASE Untrusted(p)
  BY <1>1, <1>4, EndedMove DEF Untrusted
<1>5. CASE q.flow = "main" /\ Become(p, Failed(q))
  <2>1. q.outcome = o.outcome /\ q.tries = o.tries /\ q.flow = o.flow /\ o.tries # 0
    BY <1>1, <1>2 DEF Is
  <2> HIDE DEF q
  <2>2. LET n == Failed(q) IN
        /\ Claims(n, dir[p]) => HostDone
        /\ Stocked(RequiredFiles, n, dir[p]) /\ Ending(n)
        /\ p \in Runners => Trusts(n, claimed, pin, faults)
    BY <1>1, <1>2, <1>5, <2>1, FailedHonest
  <2> QED
    BY <1>1, <1>5, <2>2, HonestMove
<1>6. CASE Become(p, Ended(q, "plain"))
  <2>1. /\ q.flow = o.flow /\ q.got = o.got /\ q.listed = o.listed /\ q.tries = o.tries
        /\ "plain" \in Outcomes
    BY <1>2 DEF Is, Outcomes
  <2> HIDE DEF q
  <2>2. LET n == Ended(q, "plain") IN
        /\ Claims(n, dir[p]) => HostDone
        /\ Stocked(RequiredFiles, n, dir[p]) /\ Ending(n)
        /\ p \in Runners => Trusts(n, claimed, pin, faults)
    BY <1>2, <2>1, EndedHonest
  <2> QED
    BY <1>1, <1>6, <2>2, HonestMove
<1>7. ASSUME NEW pc, NEW flow, Become(p, Turned(q, pc, flow)),
             \/ pc = "settle" /\ flow = "fallback"
             \/ pc = "recover" /\ flow = "uifinal"
             \/ pc = "recover" /\ flow = "verify" /\ o.flow = "stop"
      PROVE Honesty'
  <2>1. /\ q.outcome = o.outcome /\ q.tries = o.tries /\ q.seen = o.seen
        /\ q.got = o.got /\ q.todo = o.todo /\ q.listed = o.listed
    BY <1>2 DEF Is
  <2> HIDE DEF q
  <2> QED
    BY <1>1, <1>2, <1>3, <1>7, <2>1, TurnedHonest
<1>8. CASE o.answered /\ q.flow = "main" /\ Become(p, [q EXCEPT !.pc = "finish"])
  <2> DEFINE n == [q EXCEPT !.pc = "finish"]
  <2> HIDE DEF q
  <2>1. Is(n, "finish", q.flow, q.outcome, q.seen, q.got, q.answered, q.auth, q.todo,
           q.listed, q.file, q.tries)
    BY <1>2, GoneIs
  <2> HIDE DEF n, o
  <2>2. Is(n, "finish", o.flow, o.outcome, o.seen, o.got, FALSE, NoSession, o.todo,
           o.listed, o.file, o.tries)
    BY <1>2, <2>1 DEF Is
  <2>3. Claims(n, dir[p]) => HostDone
    BY <1>1, <1>8 DEF Claims
  <2>4. Stocked(RequiredFiles, n, dir[p]) /\ Ending(n)
    BY <1>1, <2>2 DEF Stocked, Ending, Is
  <2>5. p \in Runners => Trusts(n, claimed, pin, faults')
    BY <1>1, <2>2 DEF Trusts, Ending, Is
  <2> QED
    BY <1>1, <1>8, <2>3, <2>4, <2>5, HonestMove DEF n
<1>9. Untrusted(p) \/ Become(p, Unsettled(q)) \/ (o.answered /\ Become(p, SettledWell(q)))
  BY DEF SettleReturns, Reset
<1>10. q.flow = o.flow
  BY <1>2 DEF Is
<1> HIDE DEF q
<1>11. CASE Become(p, Unsettled(q))
  <2>1. CASE q.flow = "main"
    BY <1>5, <1>11, <2>1 DEF Unsettled
  <2>2. CASE q.flow = "uisettle"
    <3>1. Unsettled(q) = Turned(q, "settle", "fallback")
      BY <2>2 DEF Unsettled, Turned
    <3> QED
      BY <1>7, <1>11, <3>1
  <2>3. CASE q.flow \notin {"main", "uisettle"}
    BY <1>6, <1>11, <2>3 DEF Unsettled
  <2> QED
    BY <2>1, <2>2, <2>3
<1>12. CASE o.answered /\ Become(p, SettledWell(q))
  <2>1. CASE q.flow = "main"
    <3>1. SettledWell(q) = [q EXCEPT !.pc = "finish"]
      BY <2>1 DEF SettledWell
    <3> QED
      BY <1>8, <1>12, <2>1, <3>1
  <2>2. CASE q.flow = "uisettle"
    <3>1. SettledWell(q) = Turned(q, "recover", "uifinal")
      BY <2>2 DEF SettledWell, Turned
    <3> QED
      BY <1>7, <1>12, <3>1
  <2>3. CASE q.flow = "stop"
    <3>1. SettledWell(q) = Turned(q, "recover", "verify")
      BY <2>3 DEF SettledWell, Turned
    <3> QED
      BY <1>7, <1>10, <1>12, <2>3, <3>1
  <2>4. CASE q.flow \notin {"main", "uisettle", "stop"}
    <3>1. SettledWell(q) = Ended(q, "plain")
      BY <2>4 DEF SettledWell
    <3> QED
      BY <1>6, <1>12, <3>1
  <2> QED
    BY <2>1, <2>2, <2>3, <2>4
<1> QED
  BY <1>4, <1>9, <1>11, <1>12

-----------------------------------------------------------------------------
(* Evidence and settlement *)

LEMMA FileListedIs ==
  ASSUME NEW q \in Process
  PROVE Is(FileListed(q), "collect", q.flow, q.outcome, q.seen, q.got, q.answered, q.auth,
           q.todo \ {q.file}, q.listed \cup {q.file}, UIJournal, q.tries)
<1> DEFINE e == FileDone(q)
<1>1. /\ e \in Process
      /\ Is(e, "collect", q.flow, q.outcome, q.seen, q.got, q.answered, q.auth,
            q.todo \ {q.file}, q.listed, UIJournal, q.tries)
  BY FileDoneSet, FileDoneIs
<1> HIDE DEF e
<1>2. FileListed(q) = [e EXCEPT !.listed = @ \cup {q.file}]
  BY DEF FileListed, e
<1>3. Is([e EXCEPT !.listed = @ \cup {q.file}], e.pc, e.flow, e.outcome, e.seen, e.got,
         e.answered, e.auth, e.todo, e.listed \cup {q.file}, e.file, e.tries)
  BY <1>1 DEF Process, Is
<1> QED
  BY <1>1, <1>2, <1>3 DEF Is

\* A file is collected.  The directory may have changed with it: d is the one after.
LEMMA FileHonest ==
  ASSUME Inv, Honesty, NEW p \in Commands, NEW q \in Process, NEW f,
         proc[p].pc \in {"collect", "fetch", "store"},
         Is(q, q.pc, proc[p].flow, proc[p].outcome, proc[p].seen, proc[p].got,
            proc[p].answered, proc[p].auth, proc[p].todo, proc[p].listed, f, proc[p].tries),
         NEW d, d.bundle = dir[p].bundle, dir[p].files \subseteq d.files,
         d.files \subseteq RequiredFiles
  PROVE /\ f \in d.files =>
             LET n == FileListed(q) IN
             /\ Claims(n, d) => HostDone
             /\ Stocked(RequiredFiles, n, d) /\ Ending(n)
             /\ p \in Runners => Trusts(n, claimed, pin, faults)
        /\ q.flow # "run" =>
             LET n == FileDone(q) IN
             /\ Claims(n, d) => HostDone
             /\ Stocked(RequiredFiles, n, d) /\ Ending(n)
             /\ p \in Runners => Trusts(n, claimed, pin, faults)
<1> DEFINE o == proc[p]
<1>1. /\ o \in Process /\ Stocked(RequiredFiles, o, dir[p]) /\ Ending(o)
      /\ o.pc \in {"collect", "fetch", "store"} /\ o.flow \in {"run", "uifirst"}
      /\ Claims(o, dir[p]) => HostDone
      /\ p \in Runners => Trusts(o, claimed, pin, faults)
  BY HonestFacts DEF Flowing
<1>2. /\ q.flow = o.flow /\ q.outcome = o.outcome /\ q.seen = o.seen /\ q.got = o.got
      /\ q.todo = o.todo /\ q.listed = o.listed /\ q.file = f /\ q.tries = o.tries
  BY DEF Is
<1> HIDE DEF o
<1>3. ASSUME NEW n, NEW g, n.listed = g, g \subseteq d.files,
             n.pc = "collect", n.flow = o.flow, n.outcome = o.outcome, n.seen = o.seen,
             n.got = o.got, n.todo = o.todo \ {f}, n.tries = o.tries,
             f \in d.files \/ o.flow # "run"
      PROVE /\ Claims(n, d) => HostDone
            /\ Stocked(RequiredFiles, n, d) /\ Ending(n)
            /\ p \in Runners => Trusts(n, claimed, pin, faults)
  <2>1. n.outcome = "none"
    BY <1>1, <1>3 DEF Ending
  <2>2. Claims(n, d) => HostDone
    BY <1>1, <1>3, <2>1 DEF Claims
  <2>3. Stocked(RequiredFiles, n, d) /\ Ending(n)
    BY <1>1, <1>3, <2>1 DEF Stocked, Ending
  <2>4. p \in Runners => Trusts(n, claimed, pin, faults)
    BY <1>1, <1>3, <2>1 DEF Trusts
  <2> QED
    BY <2>2, <2>3, <2>4
<1>4. o.listed \subseteq d.files
  BY <1>1 DEF Stocked
<1>5. ASSUME f \in d.files
      PROVE LET n == FileListed(q) IN
            /\ Claims(n, d) => HostDone
            /\ Stocked(RequiredFiles, n, d) /\ Ending(n)
            /\ p \in Runners => Trusts(n, claimed, pin, faults)
  <2> DEFINE n == FileListed(q)
  <2>1. /\ n.pc = "collect" /\ n.flow = o.flow /\ n.outcome = o.outcome /\ n.seen = o.seen
        /\ n.got = o.got /\ n.todo = o.todo \ {f} /\ n.tries = o.tries
        /\ n.listed = o.listed \cup {f}
    BY <1>2, FileListedIs DEF Is
  <2>2. o.listed \cup {f} \subseteq d.files
    BY <1>4, <1>5
  <2> HIDE DEF n
  <2>3. /\ Claims(n, d) => HostDone
        /\ Stocked(RequiredFiles, n, d) /\ Ending(n)
        /\ p \in Runners => Trusts(n, claimed, pin, faults)
    BY <1>3, <1>5, <2>1, <2>2
  <2> QED
    BY <2>3 DEF n
<1>6. ASSUME q.flow # "run"
      PROVE LET n == FileDone(q) IN
            /\ Claims(n, d) => HostDone
            /\ Stocked(RequiredFiles, n, d) /\ Ending(n)
            /\ p \in Runners => Trusts(n, claimed, pin, faults)
  <2> DEFINE n == FileDone(q)
  <2>1. /\ n.pc = "collect" /\ n.flow = o.flow /\ n.outcome = o.outcome /\ n.seen = o.seen
        /\ n.got = o.got /\ n.todo = o.todo \ {f} /\ n.tries = o.tries
        /\ n.listed = o.listed
    BY <1>2, FileDoneIs DEF Is
  <2> HIDE DEF n
  <2>2. /\ Claims(n, d) => HostDone
        /\ Stocked(RequiredFiles, n, d) /\ Ending(n)
        /\ p \in Runners => Trusts(n, claimed, pin, faults)
    BY <1>2, <1>3, <1>4, <1>6, <2>1
  <2> QED
    BY <2>2 DEF n
<1> QED
  BY <1>5, <1>6

LEMMA CollectHonest ==
  ASSUME Inv, Honesty, NEW p \in Commands, Collect(p) PROVE Honesty'
<1> DEFINE o == proc[p]
<1>1. /\ o \in Process /\ Stocked(RequiredFiles, o, dir[p]) /\ Ending(o)
      /\ o.pc = "collect" /\ o.todo \subseteq RequiredFiles
      /\ UNCHANGED Still /\ faults' = faults
      /\ Claims(o, dir[p]) => HostDone
      /\ p \in Runners => Trusts(o, claimed, pin, faults)
  BY HonestFacts DEF Collect, At, Stocked, Unmoved, local, Still
<1>2. PICK f \in RequiredFiles :
        LET q == [o EXCEPT !.file = f] IN
        \/ q.flow = "uifirst" /\ f \in dir[p].files /\ Become(p, FileListed(q))
        \/ Become(p, [q EXCEPT !.pc = "fetch"])
        \/ Untrusted(p) /\ ~Authorized(q.seen)
  BY <1>1 DEF Collect
<1> DEFINE q == [o EXCEPT !.file = f]
<1>3. RequiredFiles \subseteq Files
  BY DEF RequiredFiles
<1>4. /\ q \in Process
      /\ Is(q, o.pc, o.flow, o.outcome, o.seen, o.got, o.answered, o.auth, o.todo, o.listed,
            f, o.tries)
  BY <1>1, <1>3, FileIs, FileSet
<1>5. CASE Untrusted(p) /\ ~Authorized(q.seen)
  <2>1. q.seen = o.seen
    BY <1>4 DEF Is
  <2> HIDE DEF q
  <2>2. ~(p \in Runners /\ faults' = 0 /\ o.tries = 0)
    BY <1>1, <1>5, <2>1 DEF Trusts, Authorized
  <2> QED
    BY <1>1, <1>5, <2>2, EndedMove DEF Untrusted
<1>6. CASE f \in dir[p].files /\ Become(p, FileListed(q))
  <2>1. Is(q, q.pc, o.flow, o.outcome, o.seen, o.got, o.answered, o.auth, o.todo, o.listed,
           f, o.tries)
    BY <1>4 DEF Is
  <2>2. dir[p].files \subseteq RequiredFiles
    BY <1>1 DEF Stocked
  <2> HIDE DEF q
  <2>3. LET n == FileListed(q) IN
        /\ Claims(n, dir[p]) => HostDone
        /\ Stocked(RequiredFiles, n, dir[p]) /\ Ending(n)
        /\ p \in Runners => Trusts(n, claimed, pin, faults)
    BY <1>1, <1>4, <1>6, <2>1, <2>2, FileHonest
  <2> QED
    BY <1>1, <1>6, <2>3, HonestMove
<1>7. CASE Become(p, [q EXCEPT !.pc = "fetch"])
  <2> DEFINE n == [q EXCEPT !.pc = "fetch"]
  <2> HIDE DEF q
  <2>1. Is(n, "fetch", q.flow, q.outcome, q.seen, q.got, q.answered, q.auth, q.todo,
           q.listed, q.file, q.tries)
    BY <1>4, GoneIs
  <2> HIDE DEF n, o
  <2>2. Is(n, "fetch", o.flow, o.outcome, o.seen, o.got, o.answered, o.auth, o.todo,
           o.listed, f, o.tries)
    BY <1>4, <2>1 DEF Is
  <2>3. Claims(n, dir[p]) => HostDone
    BY <1>1, <2>2 DEF Claims, Is
  <2>4. Stocked(RequiredFiles, n, dir[p]) /\ Ending(n)
    BY <1>1, <2>2 DEF Stocked, Ending, Is
  <2>5. p \in Runners => Trusts(n, claimed, pin, faults')
    BY <1>1, <2>2 DEF Trusts, Ending, Is
  <2> QED
    BY <1>1, <1>7, <2>3, <2>4, <2>5, HonestMove DEF n, o
<1> QED
  BY <1>2, <1>5, <1>6, <1>7

LEMMA FetchAnsweredHonest ==
  ASSUME Inv, Honesty, NEW p \in Commands, FetchAnswered(p) PROVE Honesty'
BY GotoMove DEF FetchAnswered, At, Unmoved, local, Still

LEMMA FetchFailedHonest ==
  ASSUME Inv, Honesty, NEW p \in Commands, FetchFailed(p) PROVE Honesty'
<1> DEFINE o == proc[p]
<1>1. /\ o \in Process /\ Stocked(RequiredFiles, o, dir[p])
      /\ o.pc = "fetch" /\ UNCHANGED Still /\ faults' = faults
      /\ Is(o, o.pc, o.flow, o.outcome, o.seen, o.got, o.answered, o.auth, o.todo, o.listed,
            o.file, o.tries)
      /\ p \in Runners => Trusts(o, claimed, pin, faults)
  BY HonestFacts DEF FetchFailed, At, Unmoved, local, Still, Is
<1>2. CASE o.flow = "run"
  <2>1. Become(p, Failed(o))
    BY <1>2 DEF FetchFailed, FileFailed
  <2>2. p \in Runners /\ faults' = 0 /\ o.tries = 0 => o.seen \in {NoSession, pin}
    BY <1>1 DEF Trusts
  <2> QED
    BY <1>1, <1>2, <2>1, <2>2, FailedMove
<1>3. CASE o.flow # "run"
  <2>1. Become(p, FileDone(o))
    BY <1>3 DEF FetchFailed, FileFailed
  <2>2. dir[p].files \subseteq RequiredFiles
    BY <1>1 DEF Stocked
  <2>3. LET n == FileDone(o) IN
        /\ Claims(n, dir[p]) => HostDone
        /\ Stocked(RequiredFiles, n, dir[p]) /\ Ending(n)
        /\ p \in Runners => Trusts(n, claimed, pin, faults)
    BY <1>1, <1>3, <2>2, FileHonest
  <2> HIDE DEF o
  <2> QED
    BY <1>1, <2>1, <2>3, HonestMove
<1> QED
  BY <1>2, <1>3

LEMMA SettleHonest ==
  ASSUME Inv, Honesty, NEW p \in Commands, Settle(p) PROVE Honesty'
<1> DEFINE o == proc[p]
           n == Settling(o, pin)
<1>1. /\ o \in Process /\ Stocked(RequiredFiles, o, dir[p]) /\ Ending(o)
      /\ o.pc = "settle" /\ UNCHANGED Still /\ faults' = faults /\ o.tries \in Nat
      /\ Claims(o, dir[p]) => HostDone
      /\ p \in Runners => Trusts(o, claimed, pin, faults)
  BY HonestFacts DEF Settle, At, local, Still
<1>2. CASE Untrusted(p) /\ ~Authorized(o.seen)
  <2>1. ~(p \in Runners /\ faults' = 0 /\ o.tries = 0)
    BY <1>1, <1>2 DEF Trusts, Authorized
  <2> QED
    BY <1>1, <1>2, <2>1, EndedMove DEF Untrusted
<1>3. CASE Become(p, n)
  <2>1. Is(n, "settling", o.flow, o.outcome, o.seen, o.got, o.answered, pin, o.todo,
           o.listed, o.file, o.tries + 1)
    BY <1>1, SettlingIs
  <2>2. n.tries # 0
    BY <1>1, <2>1 DEF Is
  <2> HIDE DEF n, o
  <2>3. Claims(n, dir[p]) => HostDone
    BY <1>1, <2>1 DEF Claims, Is
  <2>4. Stocked(RequiredFiles, n, dir[p]) /\ Ending(n)
    BY <1>1, <2>1 DEF Stocked, Ending, Is
  <2>5. p \in Runners => Trusts(n, claimed, pin, faults')
    BY <1>1, <2>1, <2>2 DEF Trusts, Ending, Is
  <2> QED
    BY <1>1, <1>3, <2>3, <2>4, <2>5, HonestMove
<1> QED
  BY <1>2, <1>3 DEF Settle, Send, Settling

LEMMA SettleFailedHonest ==
  ASSUME Inv, Honesty, NEW p \in Commands, SettleFailed(p) PROVE Honesty'
<1> DEFINE o == proc[p]
           n == Unpaid(o)
<1>1. /\ o \in Process /\ Stocked(RequiredFiles, o, dir[p]) /\ Ending(o)
      /\ o.pc = "settling" /\ UNCHANGED Still /\ faults' = faults
      /\ Claims(o, dir[p]) => HostDone
      /\ p \in Runners => Trusts(o, claimed, pin, faults)
      /\ Become(p, n)
  BY HonestFacts DEF SettleFailed, Unpaid, At, Unmoved, local, Still
<1>2. Is(n, "settled", o.flow, o.outcome, o.seen, o.got, FALSE, o.auth, o.todo,
         o.listed, o.file, o.tries)
  BY <1>1, PaidIs
<1> HIDE DEF n, o
<1>3. Claims(n, dir[p]) => HostDone
  BY <1>1, <1>2 DEF Claims, Is
<1>4. Stocked(RequiredFiles, n, dir[p]) /\ Ending(n)
  BY <1>1, <1>2 DEF Stocked, Ending, Is
<1>5. p \in Runners => Trusts(n, claimed, pin, faults')
  BY <1>1, <1>2 DEF Trusts, Ending, Is
<1> QED
  BY <1>1, <1>3, <1>4, <1>5, HonestMove

LEMMA BeginHonest ==
  ASSUME Inv, Honesty, NEW p \in Commands, NEW flow \in {"status", "stop"}, Begin(p, flow)
  PROVE Honesty'
<1> DEFINE n == Fresh("recover", flow)
<1>1. /\ UNCHANGED Still /\ faults' = faults /\ Become(p, n) /\ p \notin Runners
      /\ Stocked(RequiredFiles, proc[p], dir[p])
      /\ Claims(proc[p], dir[p]) => HostDone
  BY HonestFacts, CommandsAssumption DEF Begin, local, Still
<1>2. Is(n, "recover", flow, "none", NoSession, NoReceipt, FALSE, NoSession, {}, {},
         UIJournal, 0)
  BY DEF Fresh, Is
<1>3. NoReceipt.known = FALSE /\ NoReceipt.files = {} /\ NoReceipt.state = "none"
  BY DEF NoReceipt
<1> HIDE DEF n
<1>4. Claims(n, dir[p]) => HostDone
  BY <1>1, <1>2, <1>3 DEF Claims, Is
<1>5. Stocked(RequiredFiles, n, dir[p]) /\ Ending(n)
  BY <1>1, <1>2, <1>3 DEF Stocked, Ending, Is
<1> QED
  BY <1>1, <1>4, <1>5, HonestMove

-----------------------------------------------------------------------------
(* Steps that change the claim, the host or the bundle *)

\* A step that also changes the claim, the host or the bundle.
LEMMA HonestAct ==
  ASSUME Inv, Honesty, NEW p \in Commands, NEW n, Become(p, n), HostKept, ui' = ui,
         claimed => claimed', pin' = pin,
         \A o \in Commands \ {p} : dir'[o] = dir[o],
         faults' = faults \/ faults' = faults + 1,
         Claims(n, dir'[p]) => HostDone',
         Stocked(RequiredFiles, n, dir'[p]), Ending(n),
         p \in Runners => Trusts(n, claimed', pin, faults')
  PROVE Honesty'
<1>1. /\ proc'[p] = n /\ \A o \in Commands \ {p} : proc'[o] = proc[o]
      /\ faults \in Nat
  BY TypeParts DEF Inv, Become, Rest
<1>2. RequiredFiles' = RequiredFiles
  BY DEF RequiredFiles
<1>3. Honest(p)'
  BY <1>1, <1>2 DEF Honest
<1> QED
  BY <1>1, <1>3, HonestStep

LEMMA RecordHonest ==
  ASSUME Inv, Honesty, NEW p \in Commands, Record(p) PROVE Honesty'
<1> DEFINE o == proc[p]
<1>1. /\ o \in Process /\ Stocked(RequiredFiles, o, dir[p]) /\ Ending(o)
      /\ o.pc = "record" /\ o.flow = "none"
      /\ UNCHANGED <<ui, pin, dir, host>> /\ (claimed => claimed')
      /\ faults' = faults \/ faults' = faults + 1
      /\ Claims(o, dir[p]) => HostDone
      /\ p \in Runners => Trusts(o, claimed, pin, faults)
  <2>1. /\ UNCHANGED <<ui, pin, dir, host>> /\ (claimed => claimed')
        /\ faults' = faults \/ faults' = faults + 1
    <3>1. UNCHANGED <<ui, pin, dir, host>>
      BY DEF Record
    <3>2. faults' = faults \/ faults' = faults + 1
      BY DEF Record, Fault
    <3>3. claimed' = TRUE \/ claimed' = claimed
      BY DEF Record
    <3> QED
      BY <3>1, <3>2, <3>3
  <2>2. o.pc = "record"
    BY DEF Record, At
  <2> QED
    BY <2>1, <2>2, HonestFacts DEF Flowing
<1>2. CASE Goto(p, "inspect") /\ claimed' /\ faults' = faults
  <2> DEFINE n == [o EXCEPT !.pc = "inspect"]
  <2>1. Is(n, "inspect", o.flow, o.outcome, o.seen, o.got, o.answered, o.auth, o.todo,
           o.listed, o.file, o.tries)
    BY <1>1, GoneIs
  <2>2. Become(p, n)
    BY <1>2 DEF Goto
  <2> HIDE DEF n, o
  <2>3. Claims(n, dir[p]) => HostDone
    BY <1>1, <2>1 DEF Claims, Is
  <2>4. Stocked(RequiredFiles, n, dir[p]) /\ Ending(n)
    BY <1>1, <2>1 DEF Stocked, Ending, Is
  <2>5. p \in Runners => Trusts(n, claimed', pin, faults')
    BY <1>1, <1>2, <2>1 DEF Trusts, Ending, Is
  <2> QED
    BY <1>1, <2>2, <2>3, <2>4, <2>5, HonestAct, HostUnchanged
<1>3. CASE Become(p, Ended(o, "plain"))
  <2>1. "plain" \in Outcomes
    BY DEF Outcomes
  <2>2. LET n == Ended(o, "plain") IN
        /\ Claims(n, dir[p]) => HostDone
        /\ Stocked(RequiredFiles, n, dir[p]) /\ Ending(n)
        /\ p \in Runners => Trusts(n, claimed, pin, faults')
    BY <1>1, <2>1, EndedHonest
  <2> DEFINE n == Ended(o, "plain")
  <2> HIDE DEF n, o
  <2>3. p \in Runners => Trusts(n, claimed', pin, faults')
    BY <1>1, <2>2 DEF Trusts, n
  <2> QED
    BY <1>1, <1>3, <2>2, <2>3, HonestAct, HostUnchanged DEF n
<1> QED
  BY <1>2, <1>3 DEF Record

LEMMA NextCallHonest ==
  ASSUME Inv, Honesty, NEW p \in Commands, NEW pc, proc[p].flow = "run",
         \/ proc[p].pc = "acquire" /\ pc = "stage"
         \/ proc[p].pc = "stage" /\ pc = "start",
         Become(p, [proc[p] EXCEPT !.pc = pc]), HostKept,
         UNCHANGED <<ui, claimed, pin, dir, faults>>
  PROVE Honesty'
<1> DEFINE o == proc[p]
           n == [o EXCEPT !.pc = pc]
<1>1. /\ o \in Process /\ Stocked(RequiredFiles, o, dir[p]) /\ Ending(o)
      /\ o.pc \in {"acquire", "stage"} /\ pc \in {"stage", "start"}
      /\ Claims(o, dir[p]) => HostDone
      /\ p \in Runners => Trusts(o, claimed, pin, faults)
  BY HonestFacts
<1>2. Is(n, pc, o.flow, o.outcome, o.seen, o.got, o.answered, o.auth, o.todo,
         o.listed, o.file, o.tries)
  BY <1>1, GoneIs
<1> HIDE DEF n, o
<1>3. Claims(n, dir[p]) => HostDone'
  BY <1>1, <1>2 DEF Claims, Is, HostKept
<1>4. Stocked(RequiredFiles, n, dir[p]) /\ Ending(n)
  BY <1>1, <1>2 DEF Stocked, Ending, Is, o
<1>5. p \in Runners => Trusts(n, claimed, pin, faults)
  BY <1>1, <1>2 DEF Trusts, Ending, Is
<1> QED
  BY <1>3, <1>4, <1>5, HonestAct DEF n, o

LEMMA AcquireAnsweredHonest ==
  ASSUME Inv, Honesty, NEW p \in Commands, AcquireAnswered(p) PROVE Honesty'
<1>1. /\ proc[p].pc = "acquire" /\ proc[p].flow = "run" /\ Rest
      /\ UNCHANGED <<ui, claimed, pin, dir, faults>>
  BY ProcessFacts DEF AcquireAnswered, At, Flowing, local
<1>2. HostKept
  BY <1>1, RequestsKeepHost DEF AcquireAnswered
<1> QED
  BY <1>1, <1>2, NextCallHonest DEF AcquireAnswered, Send

LEMMA StageAnsweredHonest ==
  ASSUME Inv, Honesty, NEW p \in Commands, StageAnswered(p) PROVE Honesty'
<1>1. /\ proc[p].pc = "stage" /\ proc[p].flow = "run" /\ Rest
      /\ UNCHANGED <<ui, claimed, pin, dir, faults>>
  BY ProcessFacts DEF StageAnswered, At, Flowing, local
<1>2. HostKept
  BY <1>1, RequestsKeepHost DEF StageAnswered
<1> QED
  BY <1>1, <1>2, NextCallHonest DEF StageAnswered, Send

LEMMA SettleAnsweredHonest ==
  ASSUME Inv, Honesty, NEW p \in Commands, SettleAnswered(p) PROVE Honesty'
<1> DEFINE o == proc[p]
           n == Paid(o)
<1>1. /\ o \in Process /\ Stocked(RequiredFiles, o, dir[p]) /\ Ending(o)
      /\ o.pc = "settling" /\ UNCHANGED <<ui, claimed, pin, dir, faults>>
      /\ p \in Runners => Trusts(o, claimed, pin, faults)
      /\ Become(p, n) /\ host' \in Settled(o.auth) /\ Rest
  BY HonestFacts, ProcessFacts DEF SettleAnswered, Paid, At, local
<1>2. HostKept /\ HostDone'
  BY <1>1, RequestsKeepHost, SettledEndsHost
<1>3. Is(n, "settled", o.flow, o.outcome, o.seen, o.got, TRUE, o.auth, o.todo,
         o.listed, o.file, o.tries)
  BY <1>1, PaidIs
<1> HIDE DEF n, o
<1>4. Stocked(RequiredFiles, n, dir[p]) /\ Ending(n)
  BY <1>1, <1>3 DEF Stocked, Ending, Is
<1>5. p \in Runners => Trusts(n, claimed, pin, faults)
  BY <1>1, <1>3 DEF Trusts, Ending, Is
<1> QED
  BY <1>1, <1>2, <1>4, <1>5, HonestAct

LEMMA StartAnsweredHonest ==
  ASSUME Inv, Honesty, NEW p \in Commands, StartAnswered(p) PROVE Honesty'
<1> DEFINE o == proc[p]
<1>1. /\ o \in Process /\ Stocked(RequiredFiles, o, dir[p]) /\ Ending(o)
      /\ o.pc = "start" /\ o.flow = "run" /\ UNCHANGED <<ui, claimed, pin, dir>>
      /\ Claims(o, dir[p]) => HostDone
      /\ p \in Runners => Trusts(o, claimed, pin, faults)
      /\ Rest /\ HostTrue
  BY HonestFacts, ProcessFacts DEF StartAnswered, At, Flowing, Honesty, local
<1> DEFINE Answer(h, a) ==
             /\ host' = h /\ FaultOr(a.fault)
             /\ IF a.receipt.own /\ a.receipt.sound /\ a.receipt.session = NoSession
                  THEN IF a.receipt.state \in Terminal
                         THEN Become(p, Failed(o)) ELSE UNCHANGED proc
                  ELSE Become(p, Revealed([o EXCEPT !.pc = "started", !.got = a.receipt],
                                          a.receipt))
<1>a. PICK h \in Started : \E a \in Answers(h) : Answer(h, a)
  BY DEF StartAnswered
<1>2. PICK a \in Answers(h) : Answer(h, a)
  BY <1>a
<1> DEFINE r == a.receipt
<1>3. HostKept /\ host' \in Host
  <2>1. h \in Host
    BY <1>1, HostTyped DEF MaybeSession
  <2> QED
    BY <1>1, <1>2, <2>1, RequestsKeepHost
<1>4. /\ r \in Receipt /\ r.state = host'.state /\ r.files = host'.files
      /\ r.known => HostDone'
      /\ a.fault = "none" => r.own /\ r.sound
  BY <1>2, <1>3, AnswersTyped DEF HostDone
<1>5. /\ faults' = faults \/ (faults' = faults + 1 /\ faults' # 0)
      /\ faults' = 0 => r.own /\ r.sound /\ faults = 0
  BY <1>2, <1>4, FaultCounts DEF FaultOr
<1>6. HostTrue' /\ RequiredFiles' = RequiredFiles
  BY <1>1, <1>3 DEF HostKept, RequiredFiles
<1> HIDE DEF r
<1>7. CASE Become(p, Failed(o))
  <2>1. p \in Runners /\ faults' = 0 /\ o.tries = 0 => o.seen \in {NoSession, pin}
    BY <1>1, <1>5 DEF Trusts
  <2>2. LET n == Failed(o) IN
        /\ Claims(n, dir[p]) => HostDone
        /\ Stocked(RequiredFiles, n, dir[p]) /\ Ending(n)
        /\ p \in Runners => Trusts(n, claimed, pin, faults')
    BY <1>1, <2>1, FailedHonest
  <2> HIDE DEF o
  <2> QED
    BY <1>1, <1>3, <1>5, <1>7, <2>2, HonestAct DEF HostKept
<1>8. CASE UNCHANGED proc
  <2>1. faults \in Nat
    BY <1>1 DEF Rest
  <2>2. Honest(p)'
    <3>1. p \in Runners => Trusts(o, claimed, pin, faults')
      BY <1>1, <1>5, <2>1 DEF Trusts, Ending
    <3> QED
      BY <1>1, <1>3, <1>6, <1>8, <3>1 DEF Honest, HostKept
  <2> QED
    BY <1>1, <1>3, <1>5, <1>8, <2>1, <2>2, HonestStep
<1>9. CASE /\ ~(r.own /\ r.sound /\ r.session = NoSession)
           /\ Become(p, Revealed([o EXCEPT !.pc = "started", !.got = r], r))
  <2> DEFINE n == Revealed([o EXCEPT !.pc = "started", !.got = r], r)
  <2>1. Is(n, "started", o.flow, o.outcome,
           IF r.own /\ r.session # NoSession THEN r.session ELSE o.seen, r,
           o.answered, o.auth, o.todo, o.listed, o.file, o.tries)
    BY <1>1, <1>4, RevealedIs
  <2>2. /\ n.pc = "started" /\ n.flow = "run" /\ n.outcome = "none" /\ n.got = r
        /\ n.todo = o.todo /\ n.listed = o.listed /\ n.tries = o.tries
    BY <1>1, <2>1 DEF Ending, Is
  <2> HIDE DEF n, o
  <2>3. Claims(n, dir[p]) => HostDone'
    BY <1>1, <1>3, <1>4, <2>2 DEF Claims, HostKept
  <2>4. Stocked(RequiredFiles, n, dir[p]) /\ Ending(n)
    BY <1>1, <1>4, <1>6, <2>2 DEF Stocked, Ending, HostTrue
  <2>5. p \in Runners => Trusts(n, claimed, pin, faults')
    BY <1>1, <1>5, <1>9, <2>2 DEF Trusts
  <2> QED
    BY <1>1, <1>3, <1>5, <1>9, <2>3, <2>4, <2>5, HonestAct DEF n
<1> QED
  BY <1>2, <1>7, <1>8, <1>9 DEF r

LEMMA DirParts ==
  ASSUME Inv, NEW p \in Commands
  PROVE /\ \A f : LET d == Stored(p, f) IN
                  /\ d[p].files = dir[p].files \cup {f} /\ d[p].bundle = dir[p].bundle
                  /\ \A o \in Commands \ {p} : d[o] = dir[o]
        /\ \A kind : LET d == Bundled(p, kind) IN
                  /\ d[p].files = dir[p].files /\ d[p].bundle = kind
                  /\ \A o \in Commands \ {p} : d[o] = dir[o]
<1>1. dir \in [Commands -> Bundle] /\ dir[p] \in Bundle
  BY ProcessFacts DEF Rest
<1>2. ASSUME NEW f
      PROVE LET e == [dir[p] EXCEPT !.files = @ \cup {f}] IN
            e.files = dir[p].files \cup {f} /\ e.bundle = dir[p].bundle
  BY <1>1 DEF Bundle
<1>3. ASSUME NEW kind
      PROVE LET e == [dir[p] EXCEPT !.bundle = kind] IN
            e.files = dir[p].files /\ e.bundle = kind
  BY <1>1 DEF Bundle
<1> QED
  BY <1>1, <1>2, <1>3 DEF Stored, Bundled

LEMMA StoreHonest ==
  ASSUME Inv, Honesty, NEW p \in Commands, Store(p) PROVE Honesty'
<1> DEFINE o == proc[p]
<1>1. /\ o \in Process /\ Stocked(RequiredFiles, o, dir[p]) /\ Ending(o)
      /\ o.pc = "store" /\ UNCHANGED <<ui, claimed, pin, host>> /\ faults \in Nat
      /\ o.flow \in {"run", "uifirst"} /\ o.file \in RequiredFiles
      /\ Claims(o, dir[p]) => HostDone
      /\ p \in Runners => Trusts(o, claimed, pin, faults)
  BY HonestFacts DEF Store, At, Flowing, Stocked, local
<1>2. Is(o, o.pc, o.flow, o.outcome, o.seen, o.got, o.answered, o.auth, o.todo, o.listed,
         o.file, o.tries)
  BY DEF Is
<1>3. HostKept /\ HostDone' = HostDone
  BY <1>1, HostUnchanged
<1>4. CASE Untrusted(p) /\ ~Authorized(o.seen) /\ UNCHANGED <<dir, faults>>
  <2>1. ~(p \in Runners /\ faults' = 0 /\ o.tries = 0)
    BY <1>1, <1>4 DEF Trusts, Authorized
  <2> QED
    BY <1>1, <1>4, <2>1, EndedMove DEF Untrusted, Still
<1>5. ASSUME dir' = dir \/ dir' = Stored(p, o.file)
      PROVE /\ dir'[p].bundle = dir[p].bundle /\ dir[p].files \subseteq dir'[p].files
            /\ dir'[p].files \subseteq RequiredFiles
            /\ dir' = Stored(p, o.file) => o.file \in dir'[p].files
            /\ \A c \in Commands \ {p} : dir'[c] = dir[c]
  <2>1. dir[p].files \subseteq RequiredFiles
    BY <1>1 DEF Stocked
  <2> QED
    BY <1>1, <1>5, <2>1, DirParts
<1>6. CASE dir' = Stored(p, o.file) /\ Become(p, FileListed(o)) /\ faults' = faults
  <2>1. LET n == FileListed(o) IN
        /\ Claims(n, dir'[p]) => HostDone
        /\ Stocked(RequiredFiles, n, dir'[p]) /\ Ending(n)
        /\ p \in Runners => Trusts(n, claimed, pin, faults)
    BY <1>1, <1>2, <1>5, <1>6, FileHonest
  <2> HIDE DEF o
  <2> QED
    BY <1>1, <1>3, <1>5, <1>6, <2>1, HonestAct
<1>7. CASE /\ dir' = dir \/ dir' = Stored(p, o.file)
           /\ Become(p, FileFailed(o)) /\ Fault("store")
  <2>1. faults' = faults + 1 /\ faults' # 0
    BY <1>7, FaultCounts
  <2>2. CASE o.flow = "run"
    <3>1. Become(p, Failed(o))
      BY <1>7, <2>2 DEF FileFailed
    <3>2. LET n == Failed(o) IN
          /\ Claims(n, dir[p]) => HostDone
          /\ Stocked(RequiredFiles, n, dir[p]) /\ Ending(n)
          /\ p \in Runners => Trusts(n, claimed, pin, faults')
      BY <1>1, <2>1, <2>2, FailedHonest
    <3> DEFINE n == Failed(o)
    <3>3. n.todo = {} /\ n.flow # "main" /\ n.flow # "run" /\ n.listed = {}
      BY <1>1, FailedIs DEF Is
    <3> HIDE DEF n, o
    <3>4. Claims(n, dir'[p]) => HostDone
      BY <1>5, <1>7, <3>2 DEF Claims, n
    <3>5. Stocked(RequiredFiles, n, dir'[p])
      BY <1>5, <1>7, <3>2, <3>3 DEF Stocked, n
    <3> QED
      BY <1>1, <1>3, <1>5, <1>7, <2>1, <3>1, <3>2, <3>4, <3>5, HonestAct DEF n
  <2>3. CASE o.flow # "run"
    <3>1. Become(p, FileDone(o))
      BY <1>7, <2>3 DEF FileFailed
    <3>2. LET n == FileDone(o) IN
          /\ Claims(n, dir'[p]) => HostDone
          /\ Stocked(RequiredFiles, n, dir'[p]) /\ Ending(n)
          /\ p \in Runners => Trusts(n, claimed, pin, faults)
      BY <1>1, <1>2, <1>5, <1>7, <2>3, FileHonest
    <3> DEFINE n == FileDone(o)
    <3>3. n.pc = "collect" /\ n.outcome = "none"
      BY <1>1, FileDoneIs DEF Is, Ending
    <3> HIDE DEF n, o
    <3>4. p \in Runners => Trusts(n, claimed, pin, faults')
      BY <2>1, <3>2, <3>3 DEF Trusts, n
    <3> QED
      BY <1>1, <1>3, <1>5, <1>7, <2>1, <3>1, <3>2, <3>4, HonestAct DEF n
  <2> QED
    BY <2>2, <2>3
<1> QED
  BY <1>4, <1>6, <1>7 DEF Store

LEMMA FinishHonest ==
  ASSUME Inv, Honesty, NEW p \in Commands, Finish(p) PROVE Honesty'
<1> DEFINE o == proc[p]
<1>1. /\ o \in Process /\ Stocked(RequiredFiles, o, dir[p]) /\ Ending(o)
      /\ o.pc = "finish" /\ UNCHANGED <<ui, claimed, pin, host>> /\ faults \in Nat
      /\ o.flow = "main" /\ o.tries > 0 /\ RequiredFiles \subseteq dir[p].files
      /\ HostDone
      /\ p \in Runners => Trusts(o, claimed, pin, faults)
  BY HonestFacts DEF Finish, At, Flowing, Tried, Stocked, Claims, local
<1>2. HostKept /\ HostDone' = HostDone
  BY <1>1, HostUnchanged
<1>3. CASE Untrusted(p) /\ UNCHANGED <<dir, faults>>
  BY <1>1, <1>3, EndedMove DEF Untrusted, Still
<1>4. ASSUME NEW n, Become(p, n), faults' = faults \/ faults' = faults + 1,
             \/ dir' = dir
             \/ \E kind \in {"partial", "success"} : dir' = Bundled(p, kind),
             Stocked(RequiredFiles, n, dir[p]), Ending(n),
             p \in Runners => Trusts(n, claimed, pin, faults')
      PROVE Honesty'
  <2>1. dir'[p].files = dir[p].files /\ \A c \in Commands \ {p} : dir'[c] = dir[c]
    BY <1>4, DirParts
  <2>2. Stocked(RequiredFiles, n, dir'[p])
    BY <1>1, <1>4, <2>1 DEF Stocked
  <2> QED
    BY <1>1, <1>2, <1>4, <2>1, <2>2, HonestAct
<1>5. CASE dir' = Bundled(p, "success") /\ Become(p, Ended(o, "ok")) /\ faults' = faults
  <2>1. "ok" \in Outcomes
    BY DEF Outcomes
  <2>2. LET n == Ended(o, "ok") IN
        /\ Stocked(RequiredFiles, n, dir[p]) /\ Ending(n)
        /\ p \in Runners => Trusts(n, claimed, pin, faults')
    BY <1>1, <2>1, EndedHonest
  <2> HIDE DEF o
  <2> QED
    BY <1>4, <1>5, <2>2
<1>6. CASE /\ dir' \in {dir, Bundled(p, "partial"), Bundled(p, "success")}
           /\ Become(p, Failed(o)) /\ Fault("store")
  <2>1. faults' = faults + 1 /\ faults' # 0
    BY <1>6, FaultCounts
  <2>2. LET n == Failed(o) IN
        /\ Stocked(RequiredFiles, n, dir[p]) /\ Ending(n)
        /\ p \in Runners => Trusts(n, claimed, pin, faults')
    BY <1>1, <2>1, FailedHonest
  <2> HIDE DEF o
  <2> QED
    BY <1>4, <1>6, <2>1, <2>2
<1> QED
  BY <1>3, <1>5, <1>6 DEF Finish

LEMMA RebuildJournalHonest ==
  ASSUME Inv, Honesty, NEW p \in Commands, RebuildJournal(p) PROVE Honesty'
<1> DEFINE o == proc[p]
<1>1. /\ o \in Process /\ Stocked(RequiredFiles, o, dir[p]) /\ Ending(o)
      /\ o.pc = "rebuild" /\ UNCHANGED <<ui, claimed, pin, host>> /\ faults \in Nat
      /\ o.flow = "uifinal" /\ o.tries > 0 /\ UIJournal \in RequiredFiles
      /\ HostDone
      /\ p \in Runners => Trusts(o, claimed, pin, faults)
  <2>1. ui
    BY HonestFacts DEF RebuildJournal, At, Flowing
  <2>2. UIJournal \in RequiredFiles
    BY <2>1, FilesAssumption DEF RequiredFiles
  <2>3. o.pc = "rebuild" /\ UNCHANGED <<ui, claimed, pin, host>>
    BY DEF RebuildJournal, At, local
  <2>4. o.flow = "uifinal" /\ o.tries > 0
    BY <2>3, HonestFacts DEF Flowing, Tried
  <2> QED
    BY <2>2, <2>3, <2>4, HonestFacts DEF Claims
<1>2. HostKept /\ HostDone' = HostDone
  BY <1>1, HostUnchanged
<1>3. CASE Untrusted(p) /\ UNCHANGED <<dir, faults>>
  BY <1>1, <1>3, EndedMove DEF Untrusted, Still
<1> DEFINE a == [o EXCEPT !.pc = "bundle"]
           b == [o EXCEPT !.pc = "bundle", !.listed = @ \cup {UIJournal}]
<1>4. ASSUME NEW n \in {a, b}, Become(p, n), dir' \in {dir, Stored(p, UIJournal)},
             n = a \/ dir' = Stored(p, UIJournal),
             faults' = faults \/ faults' = faults + 1
      PROVE Honesty'
  <2>1. \E g \in {o.listed, o.listed \cup {UIJournal}} :
          /\ Is(n, "bundle", o.flow, o.outcome, o.seen, o.got, o.answered, o.auth, o.todo, g,
                o.file, o.tries)
          /\ g # o.listed => dir' = Stored(p, UIJournal)
    <3>1. Is(a, "bundle", o.flow, o.outcome, o.seen, o.got, o.answered, o.auth, o.todo,
             o.listed, o.file, o.tries)
      BY <1>1, GoneIs
    <3>2. Is(b, "bundle", o.flow, o.outcome, o.seen, o.got, o.answered, o.auth, o.todo,
             o.listed \cup {UIJournal}, o.file, o.tries)
      BY <1>1 DEF Process, Is
    <3> HIDE DEF a, b
    <3> QED
      BY <1>4, <3>1, <3>2
  <2>2. /\ dir'[p].bundle = dir[p].bundle /\ dir[p].files \subseteq dir'[p].files
        /\ dir'[p].files \subseteq dir[p].files \cup {UIJournal}
        /\ dir' = Stored(p, UIJournal) => UIJournal \in dir'[p].files
        /\ \A c \in Commands \ {p} : dir'[c] = dir[c]
    BY <1>4, DirParts
  <2> HIDE DEF o, a, b
  <2>3. Stocked(RequiredFiles, n, dir'[p]) /\ Ending(n)
    BY <1>1, <2>1, <2>2 DEF Stocked, Ending, Is
  <2>4. p \in Runners => Trusts(n, claimed, pin, faults')
    BY <1>1, <2>1 DEF Trusts, Ending, Is
  <2> QED
    BY <1>1, <1>2, <1>4, <2>2, <2>3, <2>4, HonestAct
<1>5. Fault("store") => faults' = faults + 1
  BY DEF Fault
<1>6. \/ Untrusted(p) /\ UNCHANGED <<dir, faults>>
      \/ /\ faults' = faults \/ faults' = faults + 1
         /\ dir' \in {dir, Stored(p, UIJournal)}
         /\ \/ Become(p, a)
            \/ Become(p, b) /\ dir' = Stored(p, UIJournal)
  BY <1>5 DEF RebuildJournal, Goto
<1> HIDE DEF a, b
<1> QED
  BY <1>3, <1>4, <1>6

LEMMA FailureBundleHonest ==
  ASSUME Inv, Honesty, NEW p \in Commands, FailureBundle(p) PROVE Honesty'
<1> DEFINE o == proc[p]
           n == Ended(o, "plain")
<1>1. /\ o.pc = "bundle" /\ UNCHANGED <<ui, claimed, pin, host>>
      /\ faults' = faults \/ faults' = faults + 1
  BY DEF FailureBundle, At, Fault, local
<1>2. /\ o \in Process /\ o.flow = "uifinal" /\ o.tries > 0 /\ HostDone
      /\ "plain" \in Outcomes
  BY <1>1, HonestFacts DEF Flowing, Tried, Claims, Outcomes
<1>3. HostKept /\ HostDone' = HostDone
  BY <1>1, HostUnchanged
<1>4. CASE Untrusted(p) /\ UNCHANGED <<dir, faults>>
  BY <1>1, <1>2, <1>4, EndedMove DEF Untrusted, Still
<1>5. CASE /\ Become(p, n)
           /\ \/ dir' = dir
              \/ \E kind \in {"partial", "failure"} : dir' = Bundled(p, kind)
  <2>1. /\ Stocked(RequiredFiles, n, dir[p]) /\ Ending(n)
        /\ p \in Runners => Trusts(n, claimed, pin, faults')
    BY <1>2, EndedHonest
  <2>2. /\ dir'[p].files = dir[p].files /\ \A c \in Commands \ {p} : dir'[c] = dir[c]
        /\ dir'[p].bundle # "success" \/ dir'[p].bundle = dir[p].bundle
    BY <1>5, DirParts
  <2> HIDE DEF n, o
  <2>3. Stocked(RequiredFiles, n, dir'[p])
    BY <2>1, <2>2 DEF Stocked
  <2> QED
    BY <1>1, <1>2, <1>3, <1>5, <2>1, <2>2, <2>3, HonestAct
<1> QED
  BY <1>4, <1>5 DEF FailureBundle

\* No process moves.
LEMMA OutsideHonest ==
  ASSUME Inv, Honesty, UNCHANGED <<ui, claimed, proc, dir>>, HostKept,
         \/ UNCHANGED <<pin, faults>>
         \/ faults' # 0
  PROVE Honesty'
<1>1. RequiredFiles' = RequiredFiles
  BY DEF RequiredFiles
<1>2. ASSUME NEW p \in Commands PROVE Honest(p)'
  <2>1. /\ Claims(proc[p], dir[p]) => HostDone
        /\ Stocked(RequiredFiles, proc[p], dir[p]) /\ Ending(proc[p])
        /\ p \in Runners => Trusts(proc[p], claimed, pin, faults)
    BY DEF Honesty, Honest
  <2>2. p \in Runners => Trusts(proc[p], claimed, pin', faults')
    BY <2>1 DEF Trusts
  <2> QED
    BY <1>1, <2>1, <2>2 DEF Honest, HostKept
<1> QED
  BY <1>2 DEF Honesty, HostKept

LEMMA LosePinHonest == ASSUME Inv, Honesty, LosePin PROVE Honesty'
<1>1. UNCHANGED <<ui, claimed, proc, dir, host>> /\ faults' # 0
  BY FaultCounts DEF LosePin, local
<1> QED
  BY <1>1, OutsideHonest, HostUnchanged

LEMMA EnvironmentHonest == ASSUME Inv, Honesty, Environment PROVE Honesty'
<1>1. Rest /\ UNCHANGED <<ui, claimed, proc, dir, pin, faults>>
  BY TypeParts
  DEF Inv, Environment, Late, TaskIssues, TaskCompletes, TaskFails, Expire, disk
<1>2. HostKept
  <2>1. CASE Late
    <3>1. PICK m \in requests : host' \in Effects(m)
      BY <2>1 DEF Late
    <3>2. m.op \in {"acquire", "stage", "start", "settle"}
      BY <1>1 DEF Rest, Requests
    <3>3. \/ host' \in Acquired \/ host' \in Staged \/ host' \in Started
          \/ host' \in Settled(m.session)
      BY <3>1, <3>2 DEF Effects
    <3> QED
      BY <1>1, <3>3, RequestsKeepHost
  <2>2. CASE Expire
    BY <1>1, <2>2, HostUnchanged DEF Expire
  <2> QED
    BY <1>1, <2>1, <2>2, TaskKeepsHost DEF Environment
<1> QED
  BY <1>1, <1>2, OutsideHonest

LEMMA InitHonest == ASSUME Init PROVE Honesty
<1>1. HostTrue
  BY DEF Init, HostTrue
<1>2. ASSUME NEW p \in Commands PROVE Honest(p)
  <2>1. PICK pc \in {"record", "idle"} :
          proc[p] = Fresh(pc, "none") /\ (p \in Runners => pc = "record")
    BY DEF Init
  <2>2. dir[p] = [files |-> {}, bundle |-> "none"]
    BY DEF Init
  <2>3. Is(proc[p], pc, "none", "none", NoSession, NoReceipt, FALSE, NoSession, {}, {},
           UIJournal, 0)
    BY <2>1 DEF Fresh, Is
  <2>4. NoReceipt.known = FALSE /\ NoReceipt.files = {} /\ NoReceipt.state = "none"
    BY DEF NoReceipt
  <2>5. ~Claims(proc[p], dir[p])
    BY <2>2, <2>3, <2>4 DEF Claims, Is
  <2>6. Stocked(RequiredFiles, proc[p], dir[p]) /\ Ending(proc[p])
    BY <2>2, <2>3, <2>4 DEF Stocked, Ending, Is
  <2>7. p \in Runners => Trusts(proc[p], claimed, pin, faults)
    BY <2>1, <2>3 DEF Trusts, Is
  <2> QED
    BY <2>5, <2>6, <2>7 DEF Honest
<1> QED
  BY <1>1, <1>2 DEF Honesty

LEMMA NextHonest == ASSUME Inv, Honesty, [Next]_vars PROVE Honesty'
<1>1. CASE UNCHANGED vars
  BY <1>1, OutsideHonest, HostUnchanged DEF vars, disk
<1>2. ASSUME NEW p \in Commands, Progress(p) PROVE Honesty'
  BY <1>2, RecordHonest, InspectHonest, AcquireAnsweredHonest, AcquireFailedHonest,
     StageAnsweredHonest, StartAnsweredHonest, CallFailedHonest, StartValidatedHonest,
     AcceptHonest, PublishHonest, RecheckHonest, PollHonest, ObserveAnsweredHonest,
     ObserveFailedHonest, ObservedHonest, CollectHonest, CollectedHonest,
     FetchAnsweredHonest, FetchFailedHonest, StoreHonest, SettleHonest,
     SettleAnsweredHonest, SettleFailedHonest, SettleReturnsHonest, RecoverHonest,
     RecoveredHonest, FinishHonest, RebuildJournalHonest, FailureBundleHonest
  DEF Progress
<1> QED
  BY <1>1, <1>2, UnreadableHonest, CrashHonest, BeginHonest, LosePinHonest,
     EnvironmentHonest
  DEF Next, Environment

LEMMA HonestyHolds == Spec => [](Inv /\ Honesty)
<1>1. Init => Inv /\ Honesty
  BY InitInv, InitHonest
<1>2. (Inv /\ Honesty) /\ [Next]_vars => (Inv /\ Honesty)'
  BY NextInv, NextHonest
<1> QED
  BY <1>1, <1>2, PTL DEF Spec

\* What `run' or `stop' has reported as settled is settled for good: no request that is
\* still on its way, whoever sent it, takes the host again.
THEOREM SettledForGood == Spec => []SettledIsFinal
<1>1. Honesty => SettledIsFinal
  BY DEF Honesty, Honest, Claims, HostDone, SettledIsFinal
<1> QED
  BY <1>1, HonestyHolds, PTL

\* A successful bundle has all the evidence of its Run, and a failure bundle lists no file
\* that is not there.
THEOREM BundlesAreTrue == Spec => []BundleTrue
<1>1. Honesty => BundleTrue
  <2> SUFFICES ASSUME Honesty, NEW p \in Commands
               PROVE /\ dir[p].bundle = "success" => dir[p].files = RequiredFiles
                     /\ dir[p].bundle = "failure" => proc[p].listed \subseteq dir[p].files
    BY DEF BundleTrue
  <2>1. Stocked(RequiredFiles, proc[p], dir[p])
    BY DEF Honesty, Honest
  <2> QED
    BY <2>1 DEF Stocked
<1> QED
  BY <1>1, HonestyHolds, PTL

\* A Run that tried to take the Host Lock has tried to settle it when it ends, or it
\* crashed, or it has a reason to distrust its authority; and it does not try for ever.
THEOREM CleanupsAttempted == Spec => []CleanupAttempted
<1>1. Inv /\ Honesty => CleanupAttempted
  <2> SUFFICES ASSUME Inv, Honesty, NEW p \in Commands, Leased(p)
               PROVE /\ (/\ proc[p].pc = "done" /\ proc[p].tries = 0)
                          => \/ proc[p].outcome = "crashed"
                             \/ /\ proc[p].outcome = "authority"
                                /\ faults > 0 \/ proc[p].got.session # pin
                     /\ proc[p].tries <= (IF proc[p].flow = "ambiguous" THEN 1
                                          ELSE IF ui THEN 3 ELSE 2)
    BY DEF CleanupAttempted
  <2> DEFINE q == proc[p]
  <2>1. /\ Flowing(ui, q) /\ Tried(ui, q) /\ Ending(q) /\ Trusts(q, claimed, pin, faults)
        /\ q.tries \in Nat /\ faults \in Nat /\ q.outcome \in Outcomes /\ q.flow # "none"
    BY HonestFacts, ProcessFields DEF Leased
  <2> HIDE DEF q
  <2>2. ASSUME q.pc = "done", q.tries = 0
        PROVE \/ q.outcome = "crashed"
              \/ /\ q.outcome = "authority"
                 /\ faults > 0 \/ q.got.session # pin
    <3>1. q.outcome \notin {"ok", "plain", "none"}
      BY <2>1, <2>2 DEF Tried, Trusts, Ending
    <3>2. q.outcome = "authority" /\ faults = 0 => q.got.session # pin
      BY <2>1, <2>2 DEF Trusts
    <3> QED
      BY <2>1, <3>1, <3>2 DEF Outcomes
  <2>3. q.tries <= (IF q.flow = "ambiguous" THEN 1 ELSE IF ui THEN 3 ELSE 2)
    BY <2>1 DEF Tried, Before, Flowing
  <2> QED
    BY <2>2, <2>3 DEF q
<1> QED
  BY <1>1, HonestyHolds, PTL
=============================================================================
