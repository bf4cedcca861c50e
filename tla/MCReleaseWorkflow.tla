-------------------------- MODULE MCReleaseWorkflow -------------------------
(***************************************************************************)
(* ReleaseWorkflow on small instances.                                     *)
(***************************************************************************)
EXTENDS ReleaseWorkflowProperties, TLC

\* Requests, checks and form identities are interchangeable.
Symmetry ==
    Permutations(Handlers) \cup Permutations(Checks) \cup Permutations(ResponseIds)
=============================================================================
