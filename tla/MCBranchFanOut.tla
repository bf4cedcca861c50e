--------------------------- MODULE MCBranchFanOut ---------------------------
(***************************************************************************)
(* BranchFanOut on small instances.  Liveness properties are checked with  *)
(* the others, so that there is no symmetry.                               *)
(***************************************************************************)
EXTENDS BranchFanOutProperties
=============================================================================
