------------------------------- MODULE Runner -------------------------------
(***************************************************************************)
(* The client side of one Run (src/internal/orchestrator: runner.go,       *)
(* journal.go, uiaction.go).  `run' drives the host through acquire,       *)
(* stage, start, observation, evidence and settlement; `status' and `stop' *)
(* recover the same Run from other processes at the same time.  All of     *)
(* them share the Run's claim record and its Session pin on the client's   *)
(* disk, and agree about the Run only through these two files.             *)
(*                                                                         *)
(* A request takes effect at the host at any time after it was sent, any   *)
(* number of times, or never; whoever sent it may be waiting for the       *)
(* answer or may have given up.  The host is one atomic step per request:  *)
(* what HostRun shows of its interrupted commands is not repeated here.    *)
(***************************************************************************)
EXTENDS Naturals

CONSTANTS
  Runners,      \* `run' commands for the Run ID; at most one gets past its record
  Observers,    \* other processes: each runs `status' and `stop', one at a time
  Sessions, NoSession,
  Files,        \* the evidence of a complete Run
  UIJournal,    \* the one of them that only a Run with UI actions has
  Faults,       \* what may go wrong, a subset of FaultKinds
  MaxFaults     \* bound on how many of them happen

\*   crash      a client process dies
\*   record     publishing the claim fails, before or after it took effect
\*   publish    publishing the pin fails, before or after it took effect
\*   unread     a record cannot be read
\*   lose       the pin is deleted
\*   store      a file of the Evidence Bundle cannot be written
\*   malformed  a receipt of the right claim does not validate
\*   foreign    a receipt names another claim
\*   imposter   a receipt names another Session than the host's, or none
FaultKinds == {"crash", "record", "publish", "unread", "lose", "store",
               "malformed", "foreign", "imposter"}

Commands == Runners \cup Observers

ASSUME CommandsAssumption == Runners \cap Observers = {}
ASSUME SessionsAssumption == NoSession \notin Sessions
ASSUME FilesAssumption == UIJournal \in Files
ASSUME RunnerFaultsAssumption == Faults \subseteq FaultKinds /\ MaxFaults \in Nat

VARIABLES
  ui,        \* the Run Payload has UI actions
  claimed,   \* runs/<run>.json, the claim record, exists
  pin,       \* runs/<run>.session.json
  proc,      \* the client processes
  dir,       \* their Evidence Bundle directories
  requests,  \* every request that changes the host, ever sent
  host,      \* the Run's receipt and Host Lock
  expired,   \* the Run deadline has passed
  knows,     \* history: Sessions a process was told of under the original claim
  accepted,  \* history: the Session of the receipt a process accepted last, since the
             \* pin was last lost
  faults     \* number of faults so far

disk == <<claimed, pin>>
history == <<knows, accepted>>
vars == <<ui, disk, proc, dir, requests, host, expired, history, faults>>

Terminal == {"complete", "failed"}
HostStates == {"none", "accepted", "staged", "starting", "running"} \cup Terminal
MaybeSession == Sessions \cup {NoSession}

\* A decoded RunReceipt: own, it has the original claim; sound, the rest validates;
\* known, its cleanup is.
Receipt == [own : BOOLEAN, sound : BOOLEAN, session : MaybeSession,
            state : HostStates, files : SUBSET Files, known : BOOLEAN]
NoReceipt == [own |-> FALSE, sound |-> FALSE, session |-> NoSession,
              state |-> "none", files |-> {}, known |-> FALSE]

\* At these the process waits for an answer ...
CallPcs == {"acquire", "stage", "start", "observe", "fetch", "settling", "observing"}
\* ... and at these it next loads claim and pin (journal.load).
LoadPcs == {"started", "recheck", "accept", "publish", "poll", "observed", "store",
            "settle", "settled", "finish", "recover", "recovered", "rebuild", "bundle"}
Pcs == {"idle", "record", "inspect", "collect", "done"} \cup CallPcs \cup LoadPcs
\* Who called: run before and after its main settlement, its deferred cleanup,
\* recoverUIFailure's two observations and settlement, status, and stop.
Flows == {"none", "ambiguous", "run", "main", "fallback",
          "uifirst", "uisettle", "uifinal", "status", "stop", "verify"}
Outcomes == {"none", "ok", "plain", "authority", "crashed"}

Process ==
  [pc : Pcs, flow : Flows, outcome : Outcomes,
   seen : MaybeSession,        \* SessionID of the receipt it trusts
   got : Receipt,              \* the receipt it is validating
   answered : BOOLEAN,         \* the last settle or observe returned no error
   auth : MaybeSession,        \* the pin it loaded before that call
   todo : SUBSET Files,        \* evidence still to collect
   listed : SUBSET Files,      \* evidence its bundle will list
   file : Files,
   tries : 0 .. 3]             \* settle requests sent

Fresh(pc, flow) ==
  [pc |-> pc, flow |-> flow, outcome |-> "none", seen |-> NoSession, got |-> NoReceipt,
   answered |-> FALSE, auth |-> NoSession, todo |-> {}, listed |-> {},
   file |-> UIJournal, tries |-> 0]

Request(op, s) == [op |-> op, session |-> s]
Requests == [op : {"acquire", "stage", "start", "settle"}, session : MaybeSession]

TypeOK ==
  /\ ui \in BOOLEAN /\ claimed \in BOOLEAN /\ pin \in MaybeSession
  /\ proc \in [Commands -> Process]
  /\ dir \in [Commands -> [files : SUBSET Files,
                           bundle : {"none", "partial", "success", "failure"}]]
  /\ requests \subseteq Requests
  /\ host \in [state : HostStates, held : BOOLEAN, session : MaybeSession,
               files : SUBSET Files]
  /\ expired \in BOOLEAN
  /\ knows \in [Commands -> SUBSET Sessions]
  /\ accepted \in [Commands -> MaybeSession]
  /\ faults \in 0 .. MaxFaults

Init ==
  /\ ui \in BOOLEAN /\ claimed = FALSE /\ pin = NoSession
  /\ proc = [p \in Commands |-> Fresh(IF p \in Runners THEN "record" ELSE "idle", "none")]
  /\ dir = [p \in Commands |-> [files |-> {}, bundle |-> "none"]]
  /\ requests = {}
  /\ host = [state |-> "none", held |-> FALSE, session |-> NoSession, files |-> {}]
  /\ expired = FALSE
  /\ knows = [p \in Commands |-> {}] /\ accepted = [p \in Commands |-> NoSession]
  /\ faults = 0

Fault(kind) == kind \in Faults /\ faults < MaxFaults /\ faults' = faults + 1
FaultOr(kind) == IF kind = "none" THEN UNCHANGED faults ELSE Fault(kind)

-----------------------------------------------------------------------------
(* The host: what a request does, as the set of its possible results, empty *)
(* if the host refuses it.                                                  *)

RequiredFiles == IF ui THEN Files ELSE Files \ {UIJournal}

\* Mutant: a receipt without its lock does not reserve the Run ID.
AcquiredAgain ==
  IF expired THEN {}
  ELSE IF ~host.held
    THEN {[state |-> "accepted", held |-> TRUE, session |-> NoSession, files |-> {}]}
  ELSE IF host.session = NoSession THEN {host}
  ELSE {}
\* Service.Acquire.  A receipt reserves its Run ID; only an unstarted one that still
\* has the lock may be acquired again, which changes nothing.
Acquired ==
  IF expired THEN {}
  ELSE IF host.state = "none" THEN {[host EXCEPT !.state = "accepted", !.held = TRUE]}
  ELSE IF /\ host.held /\ host.session = NoSession
          /\ host.state \in {"accepted", "staged", "starting"} THEN {host}
  ELSE {}
\* Service.Stage.  The rename onto an existing Run root fails.
Staged ==
  IF host.held /\ host.state = "accepted" THEN {[host EXCEPT !.state = "staged"]} ELSE {}
\* Service.Start.  Repeated, it returns the stored receipt.
Started ==
  IF expired \/ ~host.held \/ host.state \in {"none", "accepted"} THEN {}
  ELSE IF host.state = "staged" THEN {[host EXCEPT !.state = "starting"]}
  ELSE {host}
\* Service.Settle.  It may list the UI journal it publishes (publishUIJournal).
Settled(s) ==
  IF ~host.held THEN IF host.state \in Terminal THEN {host} ELSE {}
  ELSE IF s \notin {NoSession, host.session} THEN {}
  ELSE {[host EXCEPT !.held = FALSE, !.files = fs,
                     !.state = IF @ \in Terminal THEN @ ELSE "failed"] :
        fs \in IF ui /\ host.session # NoSession
                 THEN {host.files, host.files \cup {UIJournal}} ELSE {host.files}}

Effects(m) ==
  CASE m.op = "acquire" -> Acquired
    [] m.op = "stage" -> Staged
    [] m.op = "start" -> Started
    [] m.op = "settle" -> Settled(m.session)

\* A request takes effect and its answer reaches nobody.
Late ==
  /\ \E m \in requests : host' \in Effects(m)
  /\ UNCHANGED <<ui, disk, proc, dir, requests, expired, history, faults>>

\* The interactive task of the Run, and the deadline.
TaskIssues ==
  /\ host.held /\ host.state = "starting"
  /\ \E s \in Sessions : host' = [host EXCEPT !.session = s, !.state = "running"]
  /\ UNCHANGED <<ui, disk, proc, dir, requests, expired, history, faults>>
TaskCompletes ==
  /\ host.held /\ host.state = "running"
  /\ host' = [host EXCEPT !.state = "complete", !.files = RequiredFiles]
  /\ UNCHANGED <<ui, disk, proc, dir, requests, expired, history, faults>>
TaskFails ==
  /\ host.held /\ host.state \in {"starting", "running"}
  /\ \E fs \in SUBSET RequiredFiles :
       /\ host.state = "starting" => fs = {}
       /\ host' = [host EXCEPT !.state = "failed", !.files = fs]
  /\ UNCHANGED <<ui, disk, proc, dir, requests, expired, history, faults>>
Expire ==
  /\ ~expired /\ expired' = TRUE
  /\ UNCHANGED <<ui, disk, proc, dir, requests, host, history, faults>>

\* The receipts a client may decode while the host's is h, with the fault each needs.
ReceiptOf(h) ==
  [own |-> TRUE, sound |-> TRUE, session |-> h.session, state |-> h.state,
   files |-> h.files, known |-> ~h.held /\ h.state \in Terminal]
Answers(h) ==
  LET r == ReceiptOf(h) IN
  {[fault |-> "none", receipt |-> r],
   [fault |-> "malformed", receipt |-> [r EXCEPT !.sound = FALSE]],
   [fault |-> "foreign", receipt |-> [r EXCEPT !.own = FALSE]]}
  \cup {[fault |-> "imposter", receipt |-> [r EXCEPT !.session = s]] :
         s \in MaybeSession \ {h.session}}

-----------------------------------------------------------------------------
(* Steps of a process *)

At(p, pc) == proc[p].pc = pc
Become(p, q) == proc' = [proc EXCEPT ![p] = q]
Goto(p, pc) == Become(p, [proc[p] EXCEPT !.pc = pc])
\* What the process keeps in memory matters no more, but for what a Run listed, the
\* receipt it rejected and how often it tried to settle.
Ended(q, outcome) ==
  LET end == [Fresh("done", q.flow) EXCEPT !.outcome = outcome] IN
  IF q.flow \in {"status", "stop", "verify"} THEN end
  ELSE [end EXCEPT !.tries = q.tries, !.got = q.got, !.listed = q.listed]
Untrusted(p) == Become(p, Ended(proc[p], "authority"))

local == <<ui, claimed, expired>>
\* What a step that only moves the process leaves alone.
Unmoved == <<local, pin, dir, requests, host, history>>

\* Run's deferred cleanup after an error that left its authority intact.
Failed(q) ==
  IF ui THEN [q EXCEPT !.pc = "recover", !.flow = "uifirst", !.got = NoReceipt,
                       !.todo = {}, !.listed = {}, !.file = UIJournal]
  ELSE [q EXCEPT !.pc = "settle", !.flow = "fallback", !.got = NoReceipt,
                 !.todo = {}, !.listed = {}, !.file = UIJournal]

\* Mutant: what is not pinned yet is authority enough.
AuthorizedUnpinned(s) == s = NoSession \/ pin \in {s, NoSession}
\* journal.settlement: a known Session must be the pinned one.
Authorized(s) == s = NoSession \/ pin = s

\* journal.load fails at a step that begins with it.
Unreadable(p) ==
  /\ proc[p].pc \in LoadPcs /\ Fault("unread")
  /\ Untrusted(p) /\ UNCHANGED Unmoved

Learned(p, r) ==
  knows' = IF r.own /\ r.session # NoSession
             THEN [knows EXCEPT ![p] = @ \cup {r.session}] ELSE knows

\* The receipt q has validated becomes the one it trusts.
Proceed(q) ==
  LET t == [q EXCEPT !.seen = q.got.session, !.got = NoReceipt] IN
  CASE q.flow = "run" /\ q.got.state = "complete" ->
         [t EXCEPT !.pc = "collect", !.todo = q.got.files]
    [] q.flow = "run" /\ q.got.state = "failed" -> Failed(t)
    [] q.flow = "run" /\ q.got.state \notin Terminal -> [t EXCEPT !.pc = "poll"]
    [] q.flow = "uifirst" -> [t EXCEPT !.pc = "collect", !.todo = q.got.files]
    [] q.flow = "uifinal" ->
         IF q.got.known THEN [q EXCEPT !.pc = "rebuild"] ELSE Ended(q, "plain")
    [] q.flow = "status" -> Ended(t, "ok")
    [] q.flow = "stop" -> [t EXCEPT !.pc = "settle"]
    [] q.flow = "verify" -> Ended(t, IF q.got.known THEN "ok" ELSE "plain")
Accepted(p) ==
  /\ Become(p, Proceed(proc[p]))
  /\ accepted' = [accepted EXCEPT ![p] = proc[p].got.session]
  /\ UNCHANGED knows

-----------------------------------------------------------------------------
(* The journal: journal.record, and journal.accept with its reload *)

\* The claim record is created, never replaced; no host is contacted without it.
Record(p) ==
  /\ At(p, "record")
  /\ \/ /\ ~claimed /\ claimed' = TRUE
        /\ Goto(p, "inspect") /\ UNCHANGED faults
     \/ /\ claimed /\ UNCHANGED claimed
        /\ Become(p, Ended(proc[p], "plain")) /\ UNCHANGED faults
     \/ /\ claimed' \in {claimed, TRUE} /\ Fault("record")
        /\ Become(p, Ended(proc[p], "plain"))
  /\ UNCHANGED <<ui, expired, pin, dir, requests, host, history>>

\* A Session is pinned already: the receipt must name it.
Recheck(p) ==
  /\ At(p, "recheck")
  /\ IF Authorized(proc[p].got.session)
       THEN Accepted(p) ELSE Untrusted(p) /\ UNCHANGED history
  /\ UNCHANGED <<local, pin, dir, requests, host, faults>>

Accept(p) ==
  /\ At(p, "accept")
  /\ LET s == proc[p].got.session IN
       IF pin \notin {NoSession, s} THEN Untrusted(p) /\ UNCHANGED history
       ELSE IF s = pin THEN Accepted(p)
       ELSE Goto(p, "publish") /\ UNCHANGED history
  /\ UNCHANGED <<local, pin, dir, requests, host, faults>>

\* Mutant: whoever comes last publishes the pin.
PinReplaced(p) == pin' = proc[p].got.session /\ Accepted(p) /\ UNCHANGED faults
\* privatefile.Publish without replacement, and what accept makes of ErrExist.
PinPublished(p) ==
  /\ pin' = IF pin = NoSession THEN proc[p].got.session ELSE pin
  /\ IF pin \in {NoSession, proc[p].got.session}
       THEN Accepted(p) ELSE Untrusted(p) /\ UNCHANGED history
  /\ UNCHANGED faults
Publish(p) ==
  /\ At(p, "publish")
  /\ \/ PinPublished(p)
     \/ /\ pin = NoSession /\ pin' \in {NoSession, proc[p].got.session}
        /\ Fault("publish") /\ Untrusted(p) /\ UNCHANGED history
  /\ UNCHANGED <<local, dir, requests, host>>

-----------------------------------------------------------------------------
(* Run: inspection to the first accepted receipt *)

Send(p, op, s, q) ==
  /\ requests' = requests \cup {Request(op, s)} /\ Become(p, q)

Inspect(p) ==
  /\ At(p, "inspect")
  /\ \/ Send(p, "acquire", NoSession, [proc[p] EXCEPT !.pc = "acquire", !.flow = "run"])
     \/ Become(p, Ended(proc[p], "plain")) /\ UNCHANGED requests
  /\ UNCHANGED <<local, pin, dir, host, history, faults>>

AcquireAnswered(p) ==
  /\ At(p, "acquire") /\ host' \in Acquired
  /\ Send(p, "stage", NoSession, [proc[p] EXCEPT !.pc = "stage"])
  /\ UNCHANGED <<local, pin, dir, history, faults>>
\* An error is ambiguous: the lock may have been taken.
AcquireFailed(p) ==
  /\ At(p, "acquire")
  /\ Become(p, [proc[p] EXCEPT !.pc = "settle", !.flow = "ambiguous"])
  /\ UNCHANGED <<Unmoved, faults>>

StageAnswered(p) ==
  /\ At(p, "stage") /\ host' \in Staged
  /\ Send(p, "start", NoSession, [proc[p] EXCEPT !.pc = "start"])
  /\ UNCHANGED <<local, pin, dir, history, faults>>

\* Session of a receipt under the original claim, whatever else is wrong with it.
Revealed(q, r) ==
  IF r.own /\ r.session # NoSession THEN [q EXCEPT !.seen = r.session] ELSE q

\* The adapter repeats start while the receipt has no Session and is not terminal.
StartAnswered(p) ==
  /\ At(p, "start")
  /\ \E h \in Started : \E a \in Answers(h) :
       /\ host' = h /\ FaultOr(a.fault) /\ Learned(p, a.receipt)
       /\ IF a.receipt.own /\ a.receipt.sound /\ a.receipt.session = NoSession
            THEN IF a.receipt.state \in Terminal
                   THEN Become(p, Failed(proc[p])) ELSE UNCHANGED proc
            ELSE Become(p, Revealed([proc[p] EXCEPT !.pc = "started", !.got = a.receipt],
                                    a.receipt))
  /\ UNCHANGED <<local, pin, dir, requests, accepted>>

CallFailed(p) ==
  /\ proc[p].pc \in {"stage", "start", "observe"}
  /\ Become(p, Failed(proc[p]))
  /\ UNCHANGED <<Unmoved, faults>>

\* validateReceipt against the pin loaded now.
StartValidated(p) ==
  /\ At(p, "started")
  /\ LET r == proc[p].got IN
       IF ~r.own \/ pin \notin {NoSession, r.session} THEN Untrusted(p)
       ELSE IF ~r.sound \/ r.session = NoSession THEN Become(p, Failed(proc[p]))
       ELSE Goto(p, IF pin = NoSession THEN "accept" ELSE "recheck")
  /\ UNCHANGED <<Unmoved, faults>>

-----------------------------------------------------------------------------
(* Observation, by Run (observe) and by recoverReceipt (observing) *)

\* Mutant: a Run that reaches its deadline just returns.
PollReturns(p) ==
  /\ At(p, "poll")
  /\ \/ Become(p, Ended(proc[p], "plain"))
     \/ ~expired /\ IF Authorized(proc[p].seen) THEN Goto(p, "observe") ELSE Untrusted(p)
  /\ UNCHANGED <<Unmoved, faults>>
\* waitForPoll fails after the deadline and when the user interrupts the Run.
Poll(p) ==
  /\ At(p, "poll")
  /\ \/ Become(p, Failed(proc[p]))
     \/ ~expired /\ IF Authorized(proc[p].seen) THEN Goto(p, "observe") ELSE Untrusted(p)
  /\ UNCHANGED <<Unmoved, faults>>

AfterObserve(pc) == IF pc = "observe" THEN "observed" ELSE "recovered"
ObserveAnswered(p) ==
  /\ proc[p].pc \in {"observe", "observing"} /\ host.state # "none"
  /\ \E a \in Answers(host) :
       /\ FaultOr(a.fault) /\ Learned(p, a.receipt)
       /\ Become(p, [proc[p] EXCEPT !.pc = AfterObserve(@), !.got = a.receipt,
                                    !.answered = TRUE])
  /\ UNCHANGED <<local, pin, dir, requests, host, accepted>>
ObserveFailed(p) ==
  /\ At(p, "observing")
  /\ Become(p, [proc[p] EXCEPT !.pc = "recovered", !.got = NoReceipt, !.answered = FALSE])
  /\ UNCHANGED <<Unmoved, faults>>

Observed(p) ==
  /\ At(p, "observed")
  /\ LET r == proc[p].got IN
       IF ~r.own \/ r.session # proc[p].seen
         THEN Untrusted(p) /\ UNCHANGED history
       ELSE IF ~r.sound THEN Become(p, Failed(proc[p])) /\ UNCHANGED history
       ELSE IF Authorized(r.session) THEN Accepted(p)
       ELSE Untrusted(p) /\ UNCHANGED history
  /\ UNCHANGED <<local, pin, dir, requests, host, faults>>

\* Mutant: nothing is recovered before a Session is pinned.
RecoverPinned(p) ==
  /\ At(p, "recover")
  /\ IF pin # NoSession /\ Authorized(proc[p].seen)
       THEN Become(p, [proc[p] EXCEPT !.pc = "observing", !.auth = pin])
       ELSE Untrusted(p)
  /\ UNCHANGED <<Unmoved, faults>>
\* recoverReceipt: the pin is loaded before and after the observation.
Recover(p) ==
  /\ At(p, "recover")
  /\ IF claimed /\ Authorized(proc[p].seen)
       THEN Become(p, [proc[p] EXCEPT !.pc = "observing", !.auth = pin])
       ELSE Untrusted(p)
  /\ UNCHANGED <<Unmoved, faults>>

\* The observation failed or did not validate; it may still have told the Session.
\* A settled UI Run ends here, a failing one goes on to settle.
Unrecovered(q, s) ==
  IF q.flow = "uifirst"
    THEN [q EXCEPT !.pc = "settle", !.flow = "fallback", !.got = NoReceipt,
                   !.seen = IF s # NoSession THEN s ELSE @]
    ELSE Ended(q, "plain")
Recovered(p) ==
  /\ At(p, "recovered")
  /\ LET q == [proc[p] EXCEPT !.answered = FALSE, !.auth = NoSession]
         r == q.got IN
       IF ~Authorized(proc[p].auth) THEN Untrusted(p)
       ELSE IF ~proc[p].answered THEN Become(p, Unrecovered(q, pin))
       ELSE IF ~r.own \/ pin \notin {NoSession, r.session} THEN Untrusted(p)
       ELSE IF ~r.sound THEN Become(p, Unrecovered(q, r.session))
       ELSE Become(p, [q EXCEPT !.pc = IF pin = NoSession THEN "accept" ELSE "recheck"])
  /\ UNCHANGED <<Unmoved, faults>>

-----------------------------------------------------------------------------
(* Evidence: collectEvidence, and recoverUIFailure's loop around it *)

FileDone(q) == [q EXCEPT !.pc = "collect", !.todo = @ \ {q.file}, !.file = UIJournal]
FileListed(q) == [FileDone(q) EXCEPT !.listed = @ \cup {q.file}]
\* Mutant: UI recovery lists the files it could not collect.
FileFailedListed(q) == IF q.flow = "run" THEN Failed(q) ELSE FileListed(q)
\* A file that failed stops a Run; UI recovery goes on with the next one.
FileFailed(q) == IF q.flow = "run" THEN Failed(q) ELSE FileDone(q)

Collect(p) ==
  /\ At(p, "collect")
  /\ \E f \in proc[p].todo :
       LET q == [proc[p] EXCEPT !.file = f] IN
       IF q.flow = "uifirst" /\ f \in dir[p].files THEN Become(p, FileListed(q))
       ELSE IF Authorized(q.seen) THEN Become(p, [q EXCEPT !.pc = "fetch"])
       ELSE Untrusted(p)
  /\ UNCHANGED <<Unmoved, faults>>
Collected(p) ==
  /\ At(p, "collect") /\ proc[p].todo = {}
  /\ Become(p, [proc[p] EXCEPT !.pc = "settle",
                               !.flow = IF @ = "run" THEN "main" ELSE "uisettle"])
  /\ UNCHANGED <<Unmoved, faults>>

\* Service.Fetch needs the exact Session and the Host Lock.
FetchAnswered(p) ==
  /\ At(p, "fetch") /\ host.held /\ host.session = proc[p].seen
  /\ proc[p].file \in host.files
  /\ Goto(p, "store")
  /\ UNCHANGED <<Unmoved, faults>>
\* No answer, or contents that differ from the manifest.
FetchFailed(p) ==
  /\ At(p, "fetch") /\ Become(p, FileFailed(proc[p]))
  /\ UNCHANGED <<Unmoved, faults>>

\* writeEvidence links a temporary file and then unlinks it: it may also fail with the
\* file in place.
Stored(p, f) == [dir EXCEPT ![p].files = @ \cup {f}]
Store(p) ==
  /\ At(p, "store")
  /\ IF ~Authorized(proc[p].seen)
       THEN Untrusted(p) /\ UNCHANGED <<dir, faults>>
       ELSE \/ /\ dir' = Stored(p, proc[p].file)
               /\ Become(p, FileListed(proc[p])) /\ UNCHANGED faults
            \/ /\ Fault("store") /\ dir' \in {dir, Stored(p, proc[p].file)}
               /\ Become(p, FileFailed(proc[p]))
  /\ UNCHANGED <<local, pin, requests, host, history>>

-----------------------------------------------------------------------------
(* Settlement, and what follows it *)

\* settle fills in the pinned Session, also one this process has not seen.
Settle(p) ==
  /\ At(p, "settle")
  /\ IF Authorized(proc[p].seen)
       THEN Send(p, "settle", pin, [proc[p] EXCEPT !.pc = "settling", !.auth = pin,
                                                   !.tries = @ + 1])
       ELSE Untrusted(p) /\ UNCHANGED requests
  /\ UNCHANGED <<local, pin, dir, host, history, faults>>

SettleAnswered(p) ==
  /\ At(p, "settling") /\ host' \in Settled(proc[p].auth)
  /\ Become(p, [proc[p] EXCEPT !.pc = "settled", !.answered = TRUE])
  /\ UNCHANGED <<local, pin, dir, requests, history, faults>>
SettleFailed(p) ==
  /\ At(p, "settling")
  /\ Become(p, [proc[p] EXCEPT !.pc = "settled", !.answered = FALSE])
  /\ UNCHANGED <<Unmoved, faults>>

\* Mutant: a settlement is tried until it succeeds.
UnsettledForever(q) == [q EXCEPT !.pc = "settle"]
\* The caller's reaction to a settlement that failed or left its outcome unknown.
Unsettled(q) ==
  CASE q.flow = "main" -> Failed(q)
    [] q.flow = "uisettle" -> [q EXCEPT !.pc = "settle", !.flow = "fallback"]
    [] q.flow \notin {"main", "uisettle"} -> Ended(q, "plain")
SettledWell(q) ==
  CASE q.flow = "main" -> [q EXCEPT !.pc = "finish"]
    [] q.flow = "uisettle" -> [q EXCEPT !.pc = "recover", !.flow = "uifinal"]
    [] q.flow = "stop" -> [q EXCEPT !.pc = "recover", !.flow = "verify"]
    [] q.flow \notin {"main", "uisettle", "stop"} -> Ended(q, "plain")
SettleReturns(p) ==
  /\ At(p, "settled")
  /\ IF ~Authorized(proc[p].auth) THEN Untrusted(p)
     ELSE LET q == [proc[p] EXCEPT !.answered = FALSE, !.auth = NoSession] IN
          Become(p, IF proc[p].answered THEN SettledWell(q) ELSE Unsettled(q))
  /\ UNCHANGED <<Unmoved, faults>>

\* publishBundleMetadata writes two files without replacing any; failing it may have
\* written none, one or both.
Bundled(p, kind) == [dir EXCEPT ![p].bundle = kind]
Finish(p) ==
  /\ At(p, "finish")
  /\ IF ~Authorized(proc[p].seen)
       THEN Untrusted(p) /\ UNCHANGED <<dir, faults>>
       ELSE \/ /\ dir' = Bundled(p, "success")
               /\ Become(p, Ended(proc[p], "ok")) /\ UNCHANGED faults
            \/ /\ Fault("store")
               /\ dir' \in {dir, Bundled(p, "partial"), Bundled(p, "success")}
               /\ Become(p, Failed(proc[p]))
  /\ UNCHANGED <<local, pin, requests, host, history>>

\* recoverUIFailure writes the journal of the settled receipt itself if no file of it
\* could be collected.
RebuildJournal(p) ==
  /\ At(p, "rebuild")
  /\ LET q == proc[p] IN
       IF UIJournal \notin q.got.files \/ UIJournal \in q.listed
         THEN Goto(p, "bundle") /\ UNCHANGED <<dir, faults>>
       ELSE IF ~Authorized(q.got.session) THEN Untrusted(p) /\ UNCHANGED <<dir, faults>>
       ELSE \/ /\ UIJournal \notin dir[p].files /\ dir' = Stored(p, UIJournal)
               /\ Become(p, [q EXCEPT !.pc = "bundle", !.listed = @ \cup {UIJournal}])
               /\ UNCHANGED faults
            \/ /\ UIJournal \in dir[p].files
               /\ Goto(p, "bundle") /\ UNCHANGED <<dir, faults>>
            \/ /\ Fault("store") /\ dir' \in {dir, Stored(p, UIJournal)}
               /\ Goto(p, "bundle")
  /\ UNCHANGED <<local, pin, requests, host, history>>
FailureBundle(p) ==
  /\ At(p, "bundle")
  /\ IF ~Authorized(proc[p].got.session)
       THEN Untrusted(p) /\ UNCHANGED <<dir, faults>>
       ELSE /\ Become(p, Ended(proc[p], "plain"))
            /\ \/ dir[p].bundle # "none" /\ UNCHANGED <<dir, faults>>
               \/ /\ dir[p].bundle = "none" /\ dir' = Bundled(p, "failure")
                  /\ UNCHANGED faults
               \/ /\ dir[p].bundle = "none" /\ Fault("store")
                  /\ dir' \in {dir, Bundled(p, "partial"), Bundled(p, "failure")}
  /\ UNCHANGED <<local, pin, requests, host, history>>

-----------------------------------------------------------------------------
(* Processes come, die and lose what they recorded *)

\* A new `status' or `stop' knows nothing of those before it.
Begin(p, flow) ==
  /\ p \in Observers /\ proc[p].pc \in {"idle", "done"}
  /\ Become(p, Fresh("recover", flow))
  /\ knows' = [knows EXCEPT ![p] = {}] /\ accepted' = [accepted EXCEPT ![p] = NoSession]
  /\ UNCHANGED <<local, pin, dir, requests, host, faults>>

Crash(p) ==
  /\ proc[p].pc \notin {"idle", "done"} /\ Fault("crash")
  /\ Become(p, Ended(proc[p], "crashed"))
  /\ UNCHANGED Unmoved

LosePin ==
  /\ pin # NoSession /\ pin' = NoSession /\ Fault("lose")
  /\ accepted' = [p \in Commands |-> NoSession]
  /\ UNCHANGED <<local, proc, dir, requests, host, knows>>

\* A step of a command under way, whose calls all end.
Progress(p) ==
  \/ Record(p) \/ Inspect(p) \/ AcquireAnswered(p) \/ AcquireFailed(p)
  \/ StageAnswered(p) \/ StartAnswered(p) \/ CallFailed(p) \/ StartValidated(p)
  \/ Accept(p) \/ Publish(p) \/ Recheck(p)
  \/ Poll(p) \/ ObserveAnswered(p) \/ ObserveFailed(p) \/ Observed(p)
  \/ Collect(p) \/ Collected(p) \/ FetchAnswered(p) \/ FetchFailed(p) \/ Store(p)
  \/ Settle(p) \/ SettleAnswered(p) \/ SettleFailed(p) \/ SettleReturns(p)
  \/ Recover(p) \/ Recovered(p)
  \/ Finish(p) \/ RebuildJournal(p) \/ FailureBundle(p)

Next ==
  \/ \E p \in Commands :
       \/ Progress(p) \/ Unreadable(p) \/ Crash(p)
       \/ Begin(p, "status") \/ Begin(p, "stop")
  \/ Late \/ TaskIssues \/ TaskCompletes \/ TaskFails \/ Expire \/ LosePin

Spec == Init /\ [][Next]_vars

\* Every call of a command ends; the user repeats `stop', and its observation and its
\* settlement are answered now and then.
FairSpec ==
  /\ Spec
  /\ \A p \in Observers :
       /\ WF_vars(Progress(p)) /\ SF_vars(Begin(p, "stop"))
       /\ SF_vars(proc[p].flow = "stop" /\ ObserveAnswered(p))
       /\ SF_vars(SettleAnswered(p))

-----------------------------------------------------------------------------
(* Properties *)

\* Every process that has accepted a receipt has accepted the pinned Session: whoever
\* observed first, all commands of the Run speak of one Session, although each of them
\* looks for the pin and publishes it in separate steps (journal.accept).  A pin that
\* is deleted takes its promise along; the next one makes a new one.
PinAgreement ==
  \A p \in Commands : accepted[p] # NoSession => accepted[p] = pin

\* A process contacts the host and writes evidence.
Effect(p) ==
  \/ proc'[p].pc \in CallPcs /\ proc'[p].pc # proc[p].pc
  \/ dir'[p] # dir[p]
\* Once a process has been told of a Session, it takes no effect, and sends no
\* settlement without that Session, unless exactly that Session is pinned: neither a
\* lost pin nor a conflicting or unpublished one lets it fall back to what it knew.
EffectsNeedPin ==
  [][\A p \in Commands : Effect(p) => knows[p] \subseteq {pin}]_vars

Leased(p) == p \in Runners /\ proc[p].flow # "none"
\* A Run that tried to take the Host Lock does not end without having tried to settle
\* it, unless it crashed or has reason to distrust its authority: something went wrong
\* with a record or a receipt, or the receipt it observed is older than the pin that
\* another command has published meanwhile.  It tries only a bounded number of times,
\* and an ambiguous acquisition once.
CleanupAttempted ==
  \A p \in Commands : Leased(p) =>
    /\ (/\ proc[p].pc = "done" /\ proc[p].tries = 0)
         => \/ proc[p].outcome = "crashed"
            \/ /\ proc[p].outcome = "authority"
               /\ faults > 0 \/ proc[p].got.session # pin
    /\ proc[p].tries <= (IF proc[p].flow = "ambiguous" THEN 1 ELSE IF ui THEN 3 ELSE 2)

\* Without any fault, whoever took the Host Lock tries to settle before it returns.
AlwaysSettles ==
  \A p \in Commands :
    Leased(p) /\ proc[p].pc = "done" /\ faults = 0 => proc[p].tries > 0

\* What a command reports as settled is settled, and no request that is still on its
\* way, of this command or another, takes the host again.
SettledIsFinal ==
  \A p \in Commands :
    \/ proc[p].outcome = "ok" /\ proc[p].flow \in {"main", "verify"}
    \/ dir[p].bundle # "none"
    => ~host.held /\ host.state \in Terminal

\* The metadata of a bundle lists what is there: after success all the evidence of
\* the Run, after a UI failure no file that could not be stored, whichever of the two
\* collections and the rebuilt journal it came from.
BundleTrue ==
  \A p \in Commands :
    /\ dir[p].bundle = "success" => dir[p].files = RequiredFiles
    /\ dir[p].bundle = "failure" => proc[p].listed \subseteq dir[p].files

\* Whatever became of the command that took the host, a user who repeats `stop' gets
\* it released.
HostReleased == []<>~host.held
=============================================================================
