-------------------------- MODULE GojiSerialProofs --------------------------
(***************************************************************************)
(* Proofs about GojiSerial.  For a lone caller the entries of every key    *)
(* are in timestamp order, so that the restart of GojiStoreProofs is exact *)
(* without a condition, and the engine implements the dictionary KVStore.  *)
(* The refinement rests on the invariant of the store, on that order, and  *)
(* on an index whose expiries are those in the files.                      *)
(***************************************************************************)
EXTENDS GojiSerial, GojiStoreProofs

\* The expiry the index has for a live key is the one its entry carries: a restart reads
\* it there.  SetTTL breaks this, and a lone caller of GojiSerial does without it.
TTLKept ==
  \A k \in Keys : keyDir[k] # None /\ keyDir[k].Deleted = FALSE =>
    \A e \in log : e.file = keyDir[k].FileID /\ e.pos = keyDir[k].ValuePos
                   => e.ttl = keyDir[k].TTL

SerialInv == StoreInv /\ AllInOrder /\ TTLKept

\* The entry in place p of file id of the log L, and what a reader makes of the record i at
\* time t; Read is this of the index and the files as they are.
At(L, id, p) == CHOOSE e \in L : e.file = id /\ e.pos = p

ReadOf(i, L, t) ==
  IF i # None /\ ~i.Deleted /\ ~(i.TTL > 0 /\ t >= i.TTL)
  THEN [val |-> At(L, i.FileID, i.ValuePos).val, until |-> i.TTL]
  ELSE None

\* Entries behind all others, stamped now, at most one of a key.
Newest(B) ==
  /\ B \subseteq Entry
  /\ \A e \in B : e.ts = now
  /\ \A d, e \in B : d.key = e.key => d = e
  /\ \A d \in log, e \in B : Before(d, e)
---------------------------------------------------------------------------
\* The CHOOSE of At picks the entry that is there.
LEMMA AtIs ==
  ASSUME NEW fs, NEW L, DiskOK(fs, L), NEW e \in L
  PROVE  At(L, e.file, e.pos) = e
  BY DEF At, DiskOK

\* Read in the two states of a step.
LEMMA ReadIs ==
  ASSUME NEW k \in Keys
  PROVE  /\ Read(k) = ReadOf(keyDir[k], log, now)
         /\ Read(k)' = ReadOf(keyDir'[k], log', now')
  BY DEF Read, ReadOf, Live, Expired, EntryAt, At

\* Entries written to the end of the newest file, all of them stamped now, leave every key
\* in order.
LEMMA AppendOrder ==
  ASSUME StoreInv, AllInOrder, NEW B, Newest(B), log' = log \cup B, now' = now
  PROVE  AllInOrder'
<1>1. now \in Nat /\ log \subseteq Entry /\ B \subseteq Entry
  BY StateTyped DEF DiskOK, Newest
<1>2. \A e \in log \cup B : e.ts <= now
  BY <1>1 DEF AllInOrder, Newest
<1>3. ASSUME NEW k \in Keys, NEW d \in EntriesOf(log', k), NEW e \in EntriesOf(log', k),
             Before(d, e)
      PROVE  d.ts <= e.ts
  <2>1. d \in log \cup B /\ e \in log \cup B /\ d.key = k /\ e.key = k
    BY DEF EntriesOf
  <2>2. CASE e \in B
    BY <1>1, <1>2, <2>1, <2>2 DEF Newest
  <2>3. CASE e \in log /\ d \in log
    BY <1>3, <2>1, <2>3 DEF AllInOrder, InOrder, EntriesOf
  <2>4. CASE e \in log /\ d \in B
    BY <1>1, <1>3, <2>4 DEF Newest, Before, Entry
  <2> QED
    BY <2>1, <2>2, <2>3, <2>4
<1> QED
  BY <1>2, <1>3 DEF AllInOrder, InOrder

\* Fresh entries stamped now are newest.
LEMMA FreshNewest ==
  ASSUME StoreInv, NEW id \in {activeFileID, activeFileID + 1}, NEW n \in Nat,
         NEW B, Fresh(B, id, n), \A e \in B : e.ts = now
  PROVE  Newest(B)
<1>1. DiskOK(files, log) /\ IsNewest(files, activeFileID)
  BY StateTyped DEF StoreInv
<1>2. \A d \in log, e \in B : Before(d, e)
  BY <1>1, AppendDisk
<1> QED
  BY <1>2 DEF Newest, Fresh
---------------------------------------------------------------------------
\* What a reader makes at once of the record h a write leaves.
AtOnce(h) == IF h # None /\ h.until > 0 /\ now >= h.until THEN None ELSE h

\* A step after which the keys of w read as w says, and all other keys as before.
Wrote(w) ==
  /\ last' = w /\ now' = now
  /\ \A k \in Keys : Read(k)' = IF k \in DOMAIN w THEN AtOnce(w[k]) ELSE Read(k)

\* What can be read has not lapsed.
LEMMA ReadFresh ==
  ASSUME NEW k \in Keys
  PROVE  AtOnce(Read(k)) = Read(k)
  BY DEF AtOnce, Read, Expired

\* Such a step is a write of the dictionary.
LEMMA WroteStep ==
  ASSUME NEW w, Wrote(w)
  PROVE  KV!KVWrite(w)
<1>1. \A k \in Keys : Read(k)' = AtOnce(IF k \in DOMAIN w THEN w[k] ELSE Read(k))
  BY ReadFresh DEF Wrote
<1> DEFINE kv == [k \in Keys |-> Read(k)]
           d == [k \in Keys |-> IF k \in DOMAIN w THEN w[k] ELSE kv[k]]
<1>2. [k \in Keys |-> Read(k)'] = [k \in Keys |-> AtOnce(d[k])]
  BY <1>1
<1> QED
  BY <1>2 DEF KV!KVWrite, KV!AsOf, KV!Lapsed, AtOnce, Wrote

\* A key whose index record stays as it is reads as before, however the files grow.
LEMMA SameRead ==
  ASSUME StoreInv, StoreInv', NEW k \in Keys, keyDir'[k] = keyDir[k], now' = now,
         log \subseteq log'
  PROVE  Read(k)' = Read(k)
<1>1. CASE keyDir[k] = None
  BY <1>1, ReadIs DEF ReadOf
<1>2. CASE keyDir[k] # None
  <2>1. PICK e \in log : e.file = keyDir[k].FileID /\ e.pos = keyDir[k].ValuePos
    BY <1>2 DEF StoreInv, IndexExact
  <2>2. DiskOK(files, log) /\ DiskOK(files', log') /\ e \in log'
    BY <2>1 DEF StoreInv, TypeOK, IndexExact, DiskOK
  <2>3. At(log, e.file, e.pos) = e /\ At(log', e.file, e.pos) = e
    BY <2>1, <2>2, AtIs
  <2> QED
    BY <2>1, <2>3, ReadIs DEF ReadOf
<1> QED
  BY <1>1, <1>2

\* A key whose index record is that of a new entry e reads as e says.
LEMMA NewRead ==
  ASSUME StoreInv', now' = now, NEW k \in Keys, NEW e \in log', keyDir'[k] = Info(e, FALSE)
  PROVE  Read(k)' = AtOnce([val |-> e.val, until |-> e.ttl])
<1>1. DiskOK(files', log') /\ e \in Entry
  BY DEF StoreInv, TypeOK, IndexExact, DiskOK
<1>2. At(log', e.file, e.pos) = e
  BY <1>1, AtIs
<1>3. /\ keyDir'[k] # None /\ keyDir'[k].Deleted = FALSE /\ keyDir'[k].TTL = e.ttl
      /\ keyDir'[k].FileID = e.file /\ keyDir'[k].ValuePos = e.pos
  BY <1>1, InfoType
<1> QED
  BY <1>2, <1>3, ReadIs DEF ReadOf, AtOnce

\* A deleted key cannot be read.
LEMMA DeletedRead ==
  ASSUME NEW k \in Keys, keyDir'[k].Deleted = TRUE
  PROVE  Read(k)' = None
  BY ReadIs DEF ReadOf
---------------------------------------------------------------------------
\* How a step of an append leaves the record of k: as it is, for a new entry, or deleted.
LEMMA TTLNext ==
  ASSUME StoreInv, StoreInv', TTLKept, log \subseteq log',
         \A k \in Keys : \/ keyDir'[k] = keyDir[k]
                         \/ \E e \in log' : keyDir'[k] = Info(e, FALSE)
                         \/ keyDir'[k].Deleted = TRUE
  PROVE  TTLKept'
<1> SUFFICES ASSUME NEW k \in Keys, keyDir'[k] # None, keyDir'[k].Deleted = FALSE,
                    NEW e \in log', e.file = keyDir'[k].FileID, e.pos = keyDir'[k].ValuePos
             PROVE  e.ttl = keyDir'[k].TTL
  BY DEF TTLKept
<1>1. \A d \in log' : d \in Entry /\ (d.file = e.file /\ d.pos = e.pos => d = e)
  BY DEF StoreInv, TypeOK, IndexExact
<1>2. CASE keyDir'[k] = keyDir[k]
  <2>1. PICK d \in log : d.file = keyDir[k].FileID /\ d.pos = keyDir[k].ValuePos
    BY <1>2 DEF StoreInv, IndexExact
  <2> QED
    BY <1>1, <1>2, <2>1 DEF TTLKept
<1>3. CASE \E d \in log' : keyDir'[k] = Info(d, FALSE)
  BY <1>1, <1>3, InfoType
<1> QED
  BY <1>2, <1>3

\* A put.
LEMMA PutSerial ==
  ASSUME SerialInv, NEW k \in Keys, NEW v \in Values, NEW ttl \in TTLs,
         Put(k, v, ttl), last' = Asked(k, v, ttl)
  PROVE  SerialInv' /\ Wrote(Asked(k, v, ttl))
<1> DEFINE r == Stamp(k, v, ttl)
           id == FileFor(1)
           e == PutEntry(id, SizeAt(id), r.key, r.val, r.ts, r.ttl)
<1>1. r \in PutRequest /\ r.key = k /\ r.val = v /\ r.ts = now /\ r.ttl = Deadline(ttl)
  BY StampTyped DEF SerialInv, Stamp
<1>2. StoreInv'
  BY <1>1, WritePutInv DEF SerialInv, Put, OthersTyped, StoreInv, TypeOK
<1>3. id \in {activeFileID, activeFileID + 1} /\ SizeAt(id) \in Nat /\ id \in Nat
  BY StateTyped DEF FileFor, SerialInv
<1>4. /\ e \in Entry /\ e.key = k /\ e.val = v /\ e.ts = now /\ e.ttl = Deadline(ttl)
      /\ e.file = id /\ e.pos = SizeAt(id)
  BY <1>1, <1>3 DEF PutEntry, Entry, PutRequest
<1>5. /\ log' = log \cup {e} /\ now' = now
      /\ keyDir' = [keyDir EXCEPT ![k] = Info(e, FALSE)]
  BY <1>1 DEF Put, WritePut
<1>6. keyDir'[k] = Info(e, FALSE) /\ \A j \in Keys : j # k => keyDir'[j] = keyDir[j]
  BY <1>5, StateTyped DEF SerialInv
<1>7. Newest({e})
  BY <1>3, <1>4, OneFresh, FreshNewest DEF SerialInv
<1>8. AllInOrder'
  BY <1>5, <1>7, AppendOrder DEF SerialInv
<1>9. TTLKept'
  BY <1>2, <1>5, <1>6, TTLNext DEF SerialInv
<1>10. \A j \in Keys : j # k => Read(j)' = Read(j)
  BY <1>2, <1>5, <1>6, SameRead DEF SerialInv
<1>11. Read(k)' = AtOnce([val |-> v, until |-> Deadline(ttl)])
  BY <1>2, <1>4, <1>5, <1>6, NewRead
<1> QED
  BY <1>2, <1>5, <1>8, <1>9, <1>10, <1>11 DEF SerialInv, Wrote, Asked

\* A batch.
LEMMA BatchSerial ==
  ASSUME SerialInv, NEW items \in Batches, NEW ord \in Orders(DOMAIN items),
         BatchPut(items, ord),
         last' = [k \in DOMAIN items |-> [val |-> items[k], until |-> 0]]
  PROVE  SerialInv' /\ Wrote([k \in DOMAIN items |-> [val |-> items[k], until |-> 0]])
<1> DEFINE n == Cardinality(DOMAIN items)
           id == FileFor(n)
           B == BatchEntries(id, items, ord)
           E(k) == PutEntry(id, SizeAt(id) + ord[k], k, items[k], now, 0)
<1>1. StoreInv'
  BY BatchPutInv DEF SerialInv
<1>2. id \in {activeFileID, activeFileID + 1}
  BY DEF FileFor
<1>3. /\ DOMAIN items \subseteq Keys /\ n \in Nat /\ Fresh(B, id, n)
  BY <1>2, BatchFresh DEF SerialInv
<1>4. \A k \in DOMAIN items : E(k).val = items[k] /\ E(k).ts = now /\ E(k).ttl = 0
  BY DEF PutEntry
<1>5. B = {E(k) : k \in DOMAIN items}
  BY DEF BatchEntries
<1>6. /\ log' = log \cup B /\ now' = now
      /\ keyDir' = [k \in Keys |-> IF k \in DOMAIN items THEN Info(E(k), FALSE) ELSE keyDir[k]]
  BY DEF BatchPut
<1>7. \A k \in Keys : k \in DOMAIN items => E(k) \in log' /\ keyDir'[k] = Info(E(k), FALSE)
  BY <1>5, <1>6
<1>8. \A k \in Keys : k \notin DOMAIN items => keyDir'[k] = keyDir[k]
  BY <1>6
<1>9. \A e \in B : e.ts = now
  BY <1>4, <1>5
<1>10. Newest(B)
  BY <1>2, <1>3, <1>9, FreshNewest DEF SerialInv
<1>11. AllInOrder'
  BY <1>6, <1>10, AppendOrder DEF SerialInv
<1>12. TTLKept'
  BY <1>1, <1>6, <1>7, <1>8, TTLNext DEF SerialInv
<1>13. \A k \in Keys : k \notin DOMAIN items => Read(k)' = Read(k)
  BY <1>1, <1>6, <1>8, SameRead DEF SerialInv
<1>14. \A k \in Keys : k \in DOMAIN items =>
         Read(k)' = AtOnce([val |-> items[k], until |-> 0])
  BY <1>1, <1>4, <1>6, <1>7, NewRead
<1> QED
  BY <1>1, <1>3, <1>6, <1>11, <1>12, <1>13, <1>14 DEF SerialInv, Wrote

\* A deletion, by Delete or by expireKey.
LEMMA TombstoneSerial ==
  ASSUME SerialInv, NEW k \in Keys, keyDir[k] # None, WriteTombstone(k),
         UNCHANGED <<pending, expiring, now>>
  PROVE  /\ SerialInv'
         /\ Read(k)' = None
         /\ \A j \in Keys : j # k => Read(j)' = Read(j)
<1> DEFINE id == activeFileID
           e == TombstoneEntry(id, SizeAt(id), k)
<1>1. StoreInv'
  BY WriteTombstoneInv DEF SerialInv, OthersTyped, StoreInv, TypeOK
<1>2. id \in Nat /\ SizeAt(id) \in Nat /\ now \in Nat
  BY StateTyped DEF SerialInv
<1>3. e \in Entry /\ e.file = id /\ e.pos = SizeAt(id) /\ e.ts = now
  BY <1>2, ConfigAssumption DEF TombstoneEntry, Entry
<1>4. /\ log' = log \cup {e} /\ now' = now
      /\ keyDir' = [keyDir EXCEPT ![k].Deleted = TRUE, ![k].Timestamp = now]
  BY DEF WriteTombstone
<1>5. keyDir[k] \in KeyDirInfo /\ keyDir = [j \in Keys |-> keyDir[j]]
  BY StateTyped DEF SerialInv, StoreInv, TypeOK
<1>6. keyDir'[k].Deleted = TRUE /\ \A j \in Keys : j # k => keyDir'[j] = keyDir[j]
  BY <1>4, <1>5 DEF KeyDirInfo
<1>7. Newest({e})
  BY <1>3, OneFresh, FreshNewest DEF SerialInv
<1>8. AllInOrder'
  BY <1>4, <1>7, AppendOrder DEF SerialInv
<1>9. TTLKept'
  BY <1>1, <1>4, <1>6, TTLNext DEF SerialInv
<1>10. \A j \in Keys : j # k => Read(j)' = Read(j)
  BY <1>1, <1>4, <1>6, SameRead DEF SerialInv
<1> QED
  BY <1>1, <1>6, <1>8, <1>9, <1>10, DeletedRead DEF SerialInv
---------------------------------------------------------------------------
\* A restart from the log L, in which the entries of k are in order and e is the last:
\* the index is that of e.
LEMMA OpenRecord ==
  ASSUME NEW fs, NEW L, DiskOK(fs, L), Open(fs, L), NEW k \in Keys, NEW e \in L,
         \A c, d \in EntriesOf(L, k) : Before(c, d) => c.ts <= d.ts,
         IsLastOf(L, k, e)
  PROVE  keyDir'[k] = Info(e, IsTomb(e, FALSE))
<1>1. IsWinner(L, k, e)
  BY WinnerLast
<1>2. Winner(L, k) = e
  BY <1>1, WinnerIs
<1> QED
  BY <1>2 DEF Open, RebuildKeyDir, IsLastOf

\* A restart from a log that has gained entries, none of them of k: k reads as before.
LEMMA OpenKeeps ==
  ASSUME SerialInv, Plain, NEW fs, NEW L, DiskOK(fs, L), Open(fs, L), now' = now,
         log \subseteq L, NEW k \in Keys, \A e \in L : e.key = k => e \in log
  PROVE  Read(k)' = Read(k)
<1>1. EntriesOf(L, k) = EntriesOf(log, k)
  BY DEF EntriesOf
<1>2. CASE keyDir[k] = None
  <2>1. EntriesOf(L, k) = {}
    BY <1>1, <1>2 DEF SerialInv, StoreInv, SameKeys
  <2>2. keyDir'[k] = None
    BY <2>1 DEF Open, RebuildKeyDir
  <2> QED
    BY <1>2, <2>2, ReadIs DEF ReadOf
<1>3. CASE keyDir[k] # None
  <2>1. PICK e \in log : StandsFor(keyDir[k], log, k, e)
    BY <1>3 DEF SerialInv, StoreInv, AtLast, AllInOrder
  <2>2. IsLastOf(L, k, e) /\ e \in L /\ e \in Entry
    BY <1>1, <2>1 DEF StandsFor, IsLastOf, DiskOK
  <2>3. \A c, d \in EntriesOf(L, k) : Before(c, d) => c.ts <= d.ts
    BY <1>1 DEF SerialInv, AllInOrder, InOrder
  <2>4. keyDir'[k] = Info(e, IsTomb(e, FALSE))
    BY <2>2, <2>3, OpenRecord
  <2>5. keyDir[k].Deleted = IsTomb(e, FALSE) /\ IsTomb(e, FALSE) \in BOOLEAN
    BY <2>1 DEF StandsFor, IsTomb
  <2>6. /\ keyDir'[k] # None /\ keyDir'[k].Deleted = IsTomb(e, FALSE)
        /\ keyDir'[k].FileID = e.file /\ keyDir'[k].ValuePos = e.pos /\ keyDir'[k].TTL = e.ttl
    BY <2>2, <2>4, <2>5, InfoType
  <2>7. CASE IsTomb(e, FALSE) = TRUE
    BY <2>5, <2>6, <2>7, ReadIs DEF ReadOf
  <2>8. CASE IsTomb(e, FALSE) = FALSE
    <3>1. e.file = keyDir[k].FileID /\ e.pos = keyDir[k].ValuePos /\ e.ttl = keyDir[k].TTL
      BY <1>3, <2>1, <2>5, <2>8 DEF StandsFor, SerialInv, TTLKept
    <3>2. DiskOK(files, log) /\ log' = L
      BY StateTyped DEF SerialInv, Open
    <3>3. At(log, e.file, e.pos) = e /\ At(log', e.file, e.pos) = e
      BY <2>2, <3>2, AtIs
    <3> QED
      BY <1>3, <2>5, <2>6, <2>8, <3>1, <3>3, ReadIs DEF ReadOf
  <2> QED
    BY <2>5, <2>7, <2>8
<1> QED
  BY <1>2, <1>3

\* Whatever a restart starts from, the index has the expiries of the files.
LEMMA OpenTTLs ==
  ASSUME NEW fs, NEW L, DiskOK(fs, L), AllWinners(L), Open(fs, L), StoreInv'
  PROVE  TTLKept'
<1> SUFFICES ASSUME NEW k \in Keys, keyDir'[k] # None,
                    NEW e \in log', e.file = keyDir'[k].FileID, e.pos = keyDir'[k].ValuePos
             PROVE  e.ttl = keyDir'[k].TTL
  BY DEF TTLKept
<1>1. log' = L /\ keyDir' = RebuildKeyDir(L, FALSE)
  BY DEF Open
<1>2. EntriesOf(L, k) # {} /\ keyDir'[k] = Info(Winner(L, k), IsTomb(Winner(L, k), FALSE))
  BY <1>1 DEF RebuildKeyDir
<1>3. PICK w \in L : IsWinner(L, k, w)
  BY <1>2, AllThere DEF Winners
<1>4. Winner(L, k) = w /\ w \in Entry
  BY <1>3, WinnerIs DEF DiskOK
<1>5. IsTomb(w, FALSE) \in BOOLEAN
  BY DEF IsTomb
<1>6. keyDir'[k].FileID = w.file /\ keyDir'[k].ValuePos = w.pos /\ keyDir'[k].TTL = w.ttl
  BY <1>2, <1>4, <1>5, InfoType
<1> QED
  BY <1>1, <1>3, <1>6 DEF DiskOK

\* A restart.
LEMMA RestartSerial ==
  ASSUME SerialInv, Restart
  PROVE  SerialInv' /\ now' = now /\ (Plain => \A k \in Keys : Read(k)' = Read(k))
<1>1. StoreInv' /\ now' = now /\ Open(files, log) /\ log' = log
  BY RestartInv DEF SerialInv, Restart, Open
<1>2. DiskOK(files, log) /\ AllWinners(log)
  BY StateTyped DEF SerialInv, StoreInv
<1>3. TTLKept'
  BY <1>1, <1>2, OpenTTLs
<1>4. AllInOrder'
  BY <1>1 DEF SerialInv, AllInOrder, InOrder, EntriesOf, Before
<1>5. Plain => \A k \in Keys : Read(k)' = Read(k)
  BY <1>1, <1>2, OpenKeeps
<1> QED
  BY <1>1, <1>3, <1>4, <1>5 DEF SerialInv

\* A put that a crash cuts off after its write: the restart finds what it wrote.
LEMMA CrashSerial ==
  ASSUME SerialInv, NEW k \in Keys, NEW v \in Values, NEW ttl \in TTLs,
         CrashWriting(Stamp(k, v, ttl)), last' = Asked(k, v, ttl)
  PROVE  SerialInv' /\ (Plain => Wrote(Asked(k, v, ttl)))
<1> DEFINE r == Stamp(k, v, ttl)
           id == FileFor(1)
           e == PutEntry(id, SizeAt(id), r.key, r.val, r.ts, r.ttl)
           fs == Grow(id, 1)
           L == log \cup {e}
<1>1. r \in PutRequest /\ r.key = k /\ r.val = v /\ r.ts = now /\ r.ttl = Deadline(ttl)
  BY StampTyped DEF SerialInv, Stamp
<1>2. StoreInv' /\ now' = now
  BY <1>1, CrashWritingInv DEF SerialInv, CrashWriting
<1>3. id \in {activeFileID, activeFileID + 1} /\ SizeAt(id) \in Nat /\ id \in Nat
  BY StateTyped DEF FileFor, SerialInv
<1>4. /\ e \in Entry /\ e.key = k /\ e.val = v /\ e.ts = now /\ e.ttl = Deadline(ttl)
      /\ e.file = id /\ e.pos = SizeAt(id)
  BY <1>1, <1>3 DEF PutEntry, Entry, PutRequest
<1>5. Open(fs, L)
  BY DEF CrashWriting
<1>6. Fresh({e}, id, 1) /\ Newest({e})
  BY <1>3, <1>4, OneFresh, FreshNewest DEF SerialInv
<1>7. DiskOK(files, log) /\ IsNewest(files, activeFileID)
  BY StateTyped DEF SerialInv, StoreInv
<1>8. DiskOK(fs, L)
  BY <1>3, <1>6, <1>7, AppendDisk
<1>9. AllWinners(L)
  BY <1>8, AppendWinners DEF SerialInv, StoreInv
<1>10. log' = log \cup {e}
  BY <1>5 DEF Open
<1>11. AllInOrder'
  BY <1>2, <1>6, <1>10, AppendOrder DEF SerialInv
<1>12. TTLKept'
  BY <1>2, <1>5, <1>8, <1>9, OpenTTLs
<1>13. Plain => \A j \in Keys : j # k => Read(j)' = Read(j)
  BY <1>2, <1>4, <1>5, <1>8, OpenKeeps
<1>14. Plain => keyDir'[k] = Info(e, FALSE)
  <2> SUFFICES ASSUME Plain
               PROVE  keyDir'[k] = Info(e, FALSE)
    OBVIOUS
  <2>1. \A c, d \in EntriesOf(L, k) : Before(c, d) => c.ts <= d.ts
    BY <1>10, <1>11 DEF AllInOrder, InOrder, EntriesOf, Before
  <2>2. IsLastOf(L, k, e)
    BY <1>4, <1>6 DEF IsLastOf, EntriesOf, Newest
  <2>3. IsTomb(e, FALSE) = FALSE
    BY <1>4 DEF IsTomb, Plain
  <2>4. e \in L
    OBVIOUS
  <2>5. keyDir'[k] = Info(e, IsTomb(e, FALSE))
    <3> HIDE DEF e, L, fs
    <3> QED
      BY <1>5, <1>8, <2>1, <2>2, <2>4, OpenRecord
  <2> QED
    BY <2>3, <2>5
<1>15. Plain => Read(k)' = AtOnce([val |-> v, until |-> Deadline(ttl)])
  BY <1>2, <1>4, <1>10, <1>14, NewRead
<1> QED
  BY <1>2, <1>11, <1>12, <1>13, <1>15 DEF SerialInv, Wrote, Asked
---------------------------------------------------------------------------
\* A compaction.
LEMMA CompactSerial ==
  ASSUME SerialInv, NEW ord \in Orders(ActiveKeys), Compact(ord)
  PROVE  SerialInv' /\ now' = now /\ \A k \in Keys : Read(k)' = Read(k)
<1>1. StoreInv' /\ now' = now
  BY CompactInv DEF SerialInv, Compact
<1>2. /\ log' = {Rewritten(k, ord[k]) : k \in ActiveKeys}
      /\ keyDir' = [k \in Keys |-> IF k \in ActiveKeys THEN Info(Rewritten(k, ord[k]), FALSE)
                                                      ELSE None]
  BY DEF Compact
<1>3. /\ ActiveKeys \subseteq Keys
      /\ \A k \in ActiveKeys : RewrittenFrom(Rewritten(k, ord[k]), k, ord[k])
      /\ \A j, k \in ActiveKeys : ord[j] = ord[k] => j = k
  BY RewrittenTyped DEF SerialInv
<1>4. \A k \in ActiveKeys : keyDir[k].Timestamp <= now
  <2> SUFFICES ASSUME NEW k \in ActiveKeys
               PROVE  keyDir[k].Timestamp <= now
    OBVIOUS
  <2>1. keyDir[k] # None /\ Live(k)
    BY DEF ActiveKeys, Live
  <2>2. PICK e \in log : e.ts = keyDir[k].Timestamp
    BY <1>3, <2>1 DEF SerialInv, StoreInv, IndexExact
  <2> QED
    BY <2>2 DEF SerialInv, AllInOrder
<1>5. \A d, e \in log' : d.key = e.key => d = e
  BY <1>2, <1>3 DEF RewrittenFrom
<1>6. \A e \in log' : e \in Entry /\ e.ts <= now /\ ~Before(e, e)
  BY <1>2, <1>3, <1>4 DEF RewrittenFrom, Before, Entry
<1>7. AllInOrder'
  BY <1>1, <1>5, <1>6 DEF AllInOrder, InOrder, EntriesOf
<1>8. TTLKept'
  <2> SUFFICES ASSUME NEW k \in Keys, keyDir'[k] # None,
                      NEW e \in log', e.file = keyDir'[k].FileID, e.pos = keyDir'[k].ValuePos
               PROVE  e.ttl = keyDir'[k].TTL
    BY DEF TTLKept
  <2>1. k \in ActiveKeys /\ keyDir'[k] = Info(Rewritten(k, ord[k]), FALSE)
    BY <1>2
  <2>2. Rewritten(k, ord[k]) \in log' /\ Rewritten(k, ord[k]) \in Entry
    BY <1>2, <1>6, <2>1
  <2>3. /\ e.file = Rewritten(k, ord[k]).file /\ e.pos = Rewritten(k, ord[k]).pos
        /\ keyDir'[k].TTL = Rewritten(k, ord[k]).ttl
    BY <2>1, <2>2, InfoType
  <2>4. e = Rewritten(k, ord[k])
    BY <1>1, <2>2, <2>3 DEF StoreInv, IndexExact
  <2> QED
    BY <2>3, <2>4
<1>9. \A k \in Keys : Read(k)' = Read(k)
  BY CompactReads DEF SerialInv
<1> QED
  BY <1>1, <1>7, <1>8, <1>9 DEF SerialInv

\* A second passes: what lapses in it cannot be read any more.
LEMMA TickSerial ==
  ASSUME SerialInv, Tick, UNCHANGED last
  PROVE  SerialInv' /\ KV!KVTick
<1>1. now \in Nat \ {0} /\ now' = now + 1 /\ UNCHANGED <<files, log, activeFileID, keyDir>>
  BY StateTyped DEF Tick, disk, SerialInv
<1>2. StoreInv'
  BY <1>1, IdleInv DEF SerialInv, Tick, OthersTyped, StoreInv, TypeOK
<1>3. log \subseteq Entry
  BY StateTyped DEF SerialInv, DiskOK
<1>4. AllInOrder'
  <2>1. \A k \in Keys : InOrder(k)'
    BY <1>1 DEF SerialInv, AllInOrder, InOrder, EntriesOf, Before
  <2>2. \A e \in log' : e.ts <= now'
    BY <1>1, <1>3 DEF SerialInv, AllInOrder, Entry
  <2> QED
    BY <2>1, <2>2 DEF AllInOrder
<1>5. TTLKept'
  BY <1>1 DEF SerialInv, TTLKept
<1>6. ASSUME NEW k \in Keys
      PROVE  Read(k)' = IF Read(k) # None /\ Read(k).until > 0 /\ now' >= Read(k).until
                        THEN None ELSE Read(k)
  <2>1. keyDir[k] # None => keyDir[k] \in KeyDirInfo
    BY DEF SerialInv, StoreInv, TypeOK
  <2>2. keyDir[k] # None => keyDir[k].TTL \in Nat
    BY <2>1 DEF KeyDirInfo
  <2> QED
    BY <1>1, <2>2, ReadIs DEF ReadOf
<1>7. KV!KVTick
  BY <1>1, <1>6 DEF KV!KVTick, KV!AsOf, KV!Lapsed
<1> QED
  BY <1>2, <1>4, <1>5, <1>7 DEF SerialInv

\* A store that has just been made.
LEMMA InitSerial == SerialInit => SerialInv /\ KV!KVInit
<1> SUFFICES ASSUME SerialInit
             PROVE  SerialInv /\ KV!KVInit
  OBVIOUS
<1>1. /\ log = {} /\ now = 1 /\ \A k \in Keys : keyDir[k] = None
      /\ last = [k \in {} |-> None]
  BY DEF SerialInit, Init
<1>2. StoreInv
  BY InitInv DEF SerialInit
<1>3. AllInOrder /\ TTLKept
  BY <1>1 DEF AllInOrder, InOrder, EntriesOf, TTLKept
<1>4. \A k \in Keys : Read(k) = None
  BY <1>1, ReadIs DEF ReadOf
<1> QED
  BY <1>1, <1>2, <1>3, <1>4 DEF SerialInv, KV!KVInit
---------------------------------------------------------------------------
\* The dictionary does not change.
Stutters == UNCHANGED last /\ now' = now /\ \A k \in Keys : Read(k)' = Read(k)

LEMMA StutterStep ==
  ASSUME Stutters
  PROVE  UNCHANGED <<[k \in Keys |-> Read(k)], last, now>>
  BY DEF Stutters

\* What a step of a lone caller or of its store is to the dictionary.
KVStep == KV!KVNext \/ UNCHANGED <<[k \in Keys |-> Read(k)], last, now>>

\* A put asks for what the dictionary offers.
LEMMA AskedPut ==
  ASSUME SerialInv, NEW k \in Keys, NEW v \in Values, NEW ttl \in TTLs,
         Wrote(Asked(k, v, ttl))
  PROVE  KV!KVNext
<1> DEFINE Lives == {0} \cup {t \in TTLs : t > 0}
<1>1. KV!KVPut(k, v, Deadline(ttl))
  BY WroteStep DEF KV!KVPut, Asked
<1>2. Deadline(ttl) \in {0} \cup {now + n : n \in Lives}
  <2>1. CASE ttl > 0
    BY <2>1 DEF Deadline
  <2>2. CASE ~(ttl > 0) /\ ttl < 0
    <3>1. Deadline(ttl) = now + 0
      BY <2>2, StateTyped DEF Deadline, SerialInv
    <3>2. 0 \in Lives
      OBVIOUS
    <3> QED
      BY <3>1, <3>2
  <2>3. CASE ~(ttl > 0) /\ ~(ttl < 0)
    BY <2>3 DEF Deadline
  <2> QED
    BY <2>1, <2>2, <2>3
<1> QED
  BY <1>1, <1>2 DEF KV!KVNext

\* Every step keeps the invariant and is a step of the dictionary or none.
LEMMA SerialStep ==
  ASSUME SerialInv, [SerialNext]_serialVars
  PROVE  SerialInv' /\ (Plain => KVStep)
<1>1. ASSUME NEW k \in Keys, NEW v \in Values, NEW ttl \in TTLs,
             Put(k, v, ttl), last' = Asked(k, v, ttl)
      PROVE  SerialInv' /\ KVStep
  BY <1>1, PutSerial, AskedPut DEF KVStep
<1>2. ASSUME NEW k \in Keys, NEW v \in Values, NEW ttl \in TTLs,
             CrashWriting(Stamp(k, v, ttl)), last' = Asked(k, v, ttl)
      PROVE  SerialInv' /\ (Plain => KVStep)
  BY <1>2, CrashSerial, AskedPut DEF KVStep
<1>3. ASSUME NEW items \in Batches, NEW ord \in Orders(DOMAIN items), BatchPut(items, ord),
             last' = [k \in DOMAIN items |-> [val |-> items[k], until |-> 0]]
      PROVE  SerialInv' /\ KVStep
  <2>1. SerialInv' /\ KV!KVBatchPut(items)
    BY <1>3, BatchSerial, WroteStep DEF KV!KVBatchPut
  <2>2. PICK S \in SUBSET Keys : items \in [S -> Values]
    BY DEF Batches
  <2> QED
    BY <2>1, <2>2 DEF KVStep, KV!KVNext
<1>4. ASSUME NEW k \in Keys, Delete(k), last' = [x \in {k} |-> None]
      PROVE  SerialInv' /\ KVStep
  <2>1. /\ SerialInv' /\ now' = now /\ Read(k)' = None
        /\ \A j \in Keys : j # k => Read(j)' = Read(j)
    BY <1>4, TombstoneSerial DEF Delete
  <2>2. Wrote([x \in {k} |-> None])
    BY <1>4, <2>1 DEF Wrote, AtOnce
  <2>3. KV!KVDelete(k)
    BY <2>2, WroteStep DEF KV!KVDelete
  <2> QED
    BY <2>1, <2>3 DEF KVStep, KV!KVNext
<1>5. ASSUME NEW k \in Keys, GetAndExpire(k), UNCHANGED last
      PROVE  SerialInv' /\ KVStep
  <2>1. /\ SerialInv' /\ now' = now /\ Read(k)' = None
        /\ \A j \in Keys : j # k => Read(j)' = Read(j)
    BY <1>5, TombstoneSerial DEF GetAndExpire, Live
  <2>2. Read(k) = None
    BY <1>5 DEF GetAndExpire, Read
  <2> QED
    BY <1>5, <2>1, <2>2, StutterStep DEF Stutters, KVStep
<1>6. ASSUME NEW ord \in Orders(ActiveKeys), Compact(ord), UNCHANGED last
      PROVE  SerialInv' /\ KVStep
  BY <1>6, CompactSerial, StutterStep DEF Stutters, KVStep
<1>7. ASSUME Restart, UNCHANGED last
      PROVE  SerialInv' /\ (Plain => KVStep)
  BY <1>7, RestartSerial, StutterStep DEF Stutters, KVStep
<1>8. ASSUME Tick, UNCHANGED last
      PROVE  SerialInv' /\ KVStep
  BY <1>8, TickSerial DEF KVStep, KV!KVNext
<1>9. ASSUME UNCHANGED serialVars
      PROVE  SerialInv' /\ KVStep
  <2>1. UNCHANGED <<files, log, activeFileID, keyDir, pending, expiring, now, last>>
    BY <1>9 DEF serialVars, vars
  <2>2. StoreInv'
    BY <2>1, IdleInv DEF SerialInv, OthersTyped, StoreInv, TypeOK
  <2>3. AllInOrder' /\ TTLKept'
    BY <2>1 DEF SerialInv, AllInOrder, InOrder, EntriesOf, Before, TTLKept
  <2>4. \A k \in Keys : Read(k)' = Read(k)
    BY <2>1, ReadIs
  <2> QED
    BY <2>1, <2>2, <2>3, <2>4, StutterStep DEF SerialInv, Stutters, KVStep
<1> QED
  BY <1>1, <1>2, <1>3, <1>4, <1>5, <1>6, <1>7, <1>8, <1>9 DEF SerialNext, Call, Internal

LEMMA SerialInvariant == SerialSpec => []SerialInv
<1>1. SerialInv /\ [SerialNext]_serialVars => SerialInv'
  BY SerialStep
<1> QED
  BY <1>1, InitSerial, PTL DEF SerialSpec

\* With one caller the entries of every key are in the files in timestamp order, through
\* rotations, compactions, restarts and crashes, and none is ahead of the clock.
THEOREM AlwaysInOrder == SerialSpec => []AllInOrder
<1>1. SerialInv => AllInOrder
  BY DEF SerialInv
<1> QED
  BY <1>1, SerialInvariant, PTL

\* The store of a lone caller implements the dictionary KVStore, for any keys, values, times
\* and sizes, if the start-up scan can read tombstones and nobody puts the tombstone's value.
THEOREM ImplementsDictionary == Plain => (SerialSpec => ImplementsKV)
<1> SUFFICES ASSUME Plain
             PROVE  SerialSpec => ImplementsKV
  OBVIOUS
<1>1. SerialInit => KV!KVInit
  BY InitSerial
<1>2. SerialInv /\ [SerialNext]_serialVars
        => [KV!KVNext]_<<[k \in Keys |-> Read(k)], last, now>>
  BY SerialStep DEF KVStep
<1> QED
  BY <1>1, <1>2, SerialInvariant, PTL DEF SerialSpec, ImplementsKV, KV!KVSpec
===========================================================================
