----------------------------- MODULE MCInstaller -----------------------------
(* Instances of Installer for TLC. *)
EXTENDS Installer, TLC

CONSTANTS d, f, p, x1, x2

\* One directory with a file and a package.
Tree == d :> NoPath @@ f :> d @@ p :> d
=============================================================================
