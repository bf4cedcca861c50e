-------------------------- MODULE MCReleaseInstants -------------------------
(***************************************************************************)
(* ReleaseInstants on small instances.                                     *)
(***************************************************************************)
EXTENDS ReleaseInstants, TLC

\* The handlers are interchangeable.
Symmetry == Permutations(Handlers)
=============================================================================
