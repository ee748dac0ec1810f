------------------------------ MODULE MCSSHSetup ------------------------------
(* Instances of SSHSetup for TLC. *)
EXTENDS SSHSetup

CONSTANTS p1, p2
=============================================================================
