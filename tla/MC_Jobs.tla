------------------------------- MODULE MC_Jobs -------------------------------
(* The job manager with three jobs, two workers, and a registry that keeps one job. *)
EXTENDS Jobs, TLC

Symmetry == Permutations(Jobs)
=============================================================================
