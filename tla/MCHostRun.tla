------------------------------ MODULE MCHostRun ------------------------------
(* Instances of HostRun for TLC. *)
EXTENDS HostRunLease, TLC

CONSTANTS c1, c2, c3, r1, r2, s1, s2

\* A Run ID that two claims use, beside a Run of another.
ThreeClaims == c1 :> r1 @@ c2 :> r2 @@ c3 :> r1
SharedRun == c1 :> r1 @@ c3 :> r1
OneRun == c1 :> r1

=============================================================================
