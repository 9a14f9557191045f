--------------------------- MODULE MCGojiBatchGet ---------------------------
(* GojiBatchGet on a small instance. *)
EXTENDS GojiBatchGet, TLC

CONSTANTS k1, k2, k3

\* The index takes every value, so one order of the keys in the files is enough.
MCOffset == k1 :> 0 @@ k2 :> 1 @@ k3 :> 2
===========================================================================
