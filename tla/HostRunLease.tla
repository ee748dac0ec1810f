----------------------------- MODULE HostRunLease -----------------------------
(* HostRun implements HostLease.                                           *)
EXTENDS HostRun

\* A lock file without contents grants nothing.
Owner == IF lock.claim = Torn THEN NoClaim ELSE lock.claim

OnRecord == {broker[r] : r \in Runs} \ {NoSession}
Running == IF OnRecord = {} THEN NoSession ELSE CHOOSE s \in OnRecord : TRUE

Reserved == {r \in Runs : receipt[r].state # "none"}

Lease == INSTANCE HostLease WITH
  owner <- Owner, bound <- lock.session, running <- Running, reserved <- Reserved

\* Every step of the commands, the task and their interruptions is a step of the
\* lease or leaves it alone: a Run ID gets the host once, a Session runs and is
\* named only under its owner, and the host is given up only after the stop.
ImplementsLease == Lease!Spec

=============================================================================
