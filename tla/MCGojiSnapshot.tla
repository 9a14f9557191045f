-------------------------- MODULE MCGojiSnapshot --------------------------
(* GojiSnapshot on a small instance. *)
EXTENDS GojiSnapshot, TLC

Symmetry == Permutations(Keys)
===========================================================================
