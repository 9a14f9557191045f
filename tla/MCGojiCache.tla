---------------------------- MODULE MCGojiCache ----------------------------
(* GojiCache on a small instance. *)
EXTENDS GojiCache, TLC

Symmetry == Permutations(Keys) \cup Permutations(Values) \cup Permutations(Readers)
===========================================================================
