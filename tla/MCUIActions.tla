----------------------------- MODULE MCUIActions -----------------------------
(* Instances of UIActions for TLC. *)
EXTENDS UIActions, TLC
=============================================================================
