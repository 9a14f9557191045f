---------------------------- MODULE GojiClaims ----------------------------
(***************************************************************************)
(* What the README and the comments of db.go say of the store and          *)
(* GojiStore shows it not to do.  Each claim is checked by a run of its    *)
(* own, in which the claim is violated.                                    *)
(***************************************************************************)
EXTENDS GojiStore

\* README_EN.md:20, "Crash-safe data persistence with transaction recovery": a key whose
\* deletion is in the data files is still deleted after a restart.
DeletedStaysDeleted ==
  [][Restart => \A k \in Keys : keyDir[k] # None /\ keyDir[k].Deleted => ~Live(k)']_vars

\* db.go:714, "expireKey deletes expired keys asynchronously": what it deletes has expired.
ExpiresOnlyExpired ==
  [][\A k \in Keys : ExpireKey(k) /\ Live(k) => Expired(k)]_vars
===========================================================================
