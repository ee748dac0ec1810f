------------------------------ MODULE HostLease ------------------------------
(***************************************************************************)
(* What the host promises about its Host Lock, whatever happens to the     *)
(* files behind it: one owner at a time; a Run ID is granted the host at   *)
(* most once; only the owner's Run has a Session, and the lock names no    *)
(* Session but one issued for its owner; the host is given up only after   *)
(* the Run ID has been reserved for ever and the Session has been stopped. *)
(***************************************************************************)
CONSTANTS Claims, Runs, RunOf, Sessions, NoClaim, NoSession

VARIABLES
  owner,     \* the claim that holds the host
  bound,     \* the Session the lease names
  running,   \* the Session on record with the broker
  issued,    \* the claim each Session identity was issued for
  reserved   \* Run IDs that can never be granted again

leaseVars == <<owner, bound, running, issued, reserved>>

Init ==
  /\ owner = NoClaim /\ bound = NoSession /\ running = NoSession
  /\ issued = [s \in Sessions |-> NoClaim]
  /\ reserved = {}

Grant(c) ==
  /\ owner = NoClaim /\ RunOf[c] \notin reserved
  /\ owner' = c
  /\ UNCHANGED <<bound, running, issued, reserved>>

Reserve ==
  /\ owner # NoClaim
  /\ reserved' = reserved \cup {RunOf[owner]}
  /\ UNCHANGED <<owner, bound, running, issued>>

\* A Session identity is never issued twice.
Issue(s) ==
  /\ owner # NoClaim /\ RunOf[owner] \in reserved
  /\ running = NoSession /\ issued[s] = NoClaim
  /\ running' = s /\ issued' = [issued EXCEPT ![s] = owner]
  /\ UNCHANGED <<owner, bound, reserved>>

Bind(s) ==
  /\ bound = NoSession /\ issued[s] = owner
  /\ bound' = s
  /\ UNCHANGED <<owner, running, issued, reserved>>

\* Only the Session the lease names is stopped, or one that it never named.
Stop ==
  /\ running # NoSession /\ bound \in {running, NoSession}
  /\ running' = NoSession
  /\ UNCHANGED <<owner, bound, issued, reserved>>

Release ==
  /\ owner # NoClaim /\ RunOf[owner] \in reserved /\ running = NoSession
  /\ owner' = NoClaim /\ bound' = NoSession
  /\ UNCHANGED <<running, issued, reserved>>

Next ==
  \/ \E c \in Claims : Grant(c)
  \/ Reserve
  \/ \E s \in Sessions : Issue(s) \/ Bind(s)
  \/ Stop \/ Release

Spec == Init /\ [][Next]_leaseVars

=============================================================================
