----------------------------- MODULE MCSetupOwner -----------------------------
(* Instances of SetupOwner for TLC. *)
EXTENDS SetupOwner, TLC

CONSTANTS d, x1, p1, p2

\* One package, which is the runtime directory itself.
Tree == d :> NoPath
Callers == Permutations(Procs)
=============================================================================
