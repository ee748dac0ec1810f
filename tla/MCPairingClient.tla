--------------------------- MODULE MCPairingClient ---------------------------
(* Instances of PairingClient for TLC. *)
EXTENDS PairingClient, TLC

CONSTANTS p1, p2, k1, k2, o1, o2, c1, c2

Symmetric == Permutations(Pairs) \cup Permutations(Keys) \cup Permutations(Procs)

=============================================================================
