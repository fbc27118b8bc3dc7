------------------------------- MODULE MCPool -------------------------------
(* Instances of Pool for TLC. *)
EXTENDS Pool, TLC

Symmetry == Permutations(Workers) \cup Permutations(Callers)
=============================================================================
