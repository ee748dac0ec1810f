---------------------------- MODULE MCPairingHost ----------------------------
(* Instances of PairingHost for TLC. *)
EXTENDS PairingHost, TLC

CONSTANTS p1, p2, k1, k2, o1, i1, i2, i3, q1, q2

\* Two requests compete for p1; the second client has p2.
Rivals == i1 :> p1 @@ i2 :> p1 @@ i3 :> p2
RivalKeys == i1 :> k1 @@ i2 :> k2 @@ i3 :> k2
OneOffer == i1 :> o1 @@ i2 :> o1 @@ i3 :> o1
SymmetricProcs == Permutations(Procs)

=============================================================================
