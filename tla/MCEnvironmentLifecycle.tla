----------------------- MODULE MCEnvironmentLifecycle -----------------------
(* Two services, so that a command can succeed for one and fail for the     *)
(* other, and two job identities, so that a second lineage could start      *)
(* while the first is unreconciled.                                         *)
EXTENDS EnvironmentLifecycle, TLC

Symmetry == Permutations(Services) \cup Permutations(Jobs)
=============================================================================
