----------------------------- MODULE MC_Staging -----------------------------
(* Staging on a small instance: the ids and the handlers are interchangeable. *)
EXTENDS Staging, TLC

Symmetry == Permutations(Uploads) \cup Permutations(Handlers)
=============================================================================
