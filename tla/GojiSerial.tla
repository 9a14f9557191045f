---------------------------- MODULE GojiSerial ----------------------------
(***************************************************************************)
(* GojiStore used by one caller at a time, with operations that run from   *)
(* start to end before the next one begins, and the refinement that says   *)
(* what such a caller gets: KVStore, through rotations, compactions,       *)
(* expiries, restarts and crashes in the middle of a put.  SetTTL is left  *)
(* out, because it changes the index and no file: a restart undoes it.     *)
(* The history variable last keeps what the caller asked for last, so that *)
(* nothing but a call can change what the store answers.                   *)
(***************************************************************************)
EXTENDS GojiStore

VARIABLE last   \* some keys |-> what the last call was to leave in them

\* What the caller asks for with a put.
Asked(k, v, ttl) == [x \in {k} |-> [val |-> v, until |-> Deadline(ttl)]]

\* A Get that finds k expired and its expireKey goroutine, with nothing in between.
GetAndExpire(k) ==
  /\ Live(k)
  /\ Expired(k)
  /\ WriteTombstone(k)
  /\ UNCHANGED <<pending, expiring, now>>

SerialInit == Init /\ last = [k \in {} |-> None]

\* The calls.  A put that a crash cuts off after its write counts as made.
Call ==
  \/ \E k \in Keys, v \in Values, ttl \in TTLs :
       /\ Put(k, v, ttl) \/ CrashWriting(Stamp(k, v, ttl))
       /\ last' = Asked(k, v, ttl)
  \/ \E items \in Batches :
       /\ \E ord \in Orders(DOMAIN items) : BatchPut(items, ord)
       /\ last' = [k \in DOMAIN items |-> [val |-> items[k], until |-> 0]]
  \/ \E k \in Keys : Delete(k) /\ last' = [x \in {k} |-> None]

\* What the store does besides them.
Internal ==
  \/ \E k \in Keys : GetAndExpire(k)
  \/ \E ord \in Orders(ActiveKeys) : Compact(ord)
  \/ Restart

SerialNext == Call \/ (Internal /\ UNCHANGED last) \/ (Tick /\ UNCHANGED last)

serialVars == <<vars, last>>

SerialSpec == SerialInit /\ [][SerialNext]_serialVars
---------------------------------------------------------------------------
\* Every key's entries lie in the files in the order of their timestamps, and no
\* timestamp is ahead of the clock: the scan of a restart then ends with the last write.
AllInOrder ==
  /\ \A k \in Keys : InOrder(k)
  /\ \A e \in log : e.ts <= now

KV == INSTANCE KVStore WITH
  kv    <- [k \in Keys |-> Read(k)],
  clock <- now,
  Lives <- {0} \cup {ttl \in TTLs : ttl > 0}

\* The serial store implements the dictionary: a key reads as it was last put until it is
\* deleted or lapses, and compaction, rotation and restarts never show.
ImplementsKV == KV!KVSpec
===========================================================================
