-------------------------- MODULE GojiStoreProofs --------------------------
(***************************************************************************)
(* Proofs about GojiStore.  The inductive invariant StoreInv adds to the   *)
(* checked invariants what they rest on: the newest file is the active     *)
(* one, a key is indexed exactly when the files hold an entry of it, the   *)
(* scan of a restart has a winner for each such key, and the index stands  *)
(* at the last entry of every key whose entries are in timestamp order.    *)
(***************************************************************************)
EXTENDS GojiStore, FiniteSetTheorems, TLAPS

\* The data files and what is in them: places are unique and inside their file.
DiskOK(fs, L) ==
  /\ DOMAIN fs \subseteq Nat /\ fs \in [DOMAIN fs -> Nat]
  /\ L \subseteq Entry
  /\ \A d, e \in L : d.file = e.file /\ d.pos = e.pos => d = e
  /\ \A e \in L : e.file \in DOMAIN fs /\ e.pos < fs[e.file]

IsNewest(fs, id) == id \in DOMAIN fs /\ \A f \in DOMAIN fs : f <= id

IsWinner(L, k, w) ==
  w \in EntriesOf(L, k) /\ \A d \in EntriesOf(L, k) : d = w \/ Beats(w, d)

Winners(L) == \A k \in Keys : EntriesOf(L, k) # {} => \E w \in L : IsWinner(L, k, w)

\* Whatever goes, what is left of L has a winner for each key it holds.
AllWinners(L) == \A M \in SUBSET L : Winners(M)

IsLastOf(L, k, e) ==
  e \in EntriesOf(L, k) /\ \A d \in EntriesOf(L, k) : d = e \/ Before(d, e)

\* What appending writes: entries behind the end of file id, at most one of a key.
Fresh(B, id, n) ==
  /\ B \subseteq Entry
  /\ \A e \in B : e.file = id /\ SizeAt(id) <= e.pos /\ e.pos < SizeAt(id) + n
  /\ \A d, e \in B : d.pos = e.pos \/ d.key = e.key => d = e

Plain == Tombstone \notin Values /\ ~SmartCompression

SameKeys == \A k \in Keys : keyDir[k] = None <=> EntriesOf(log, k) = {}

\* The index record i of k stands for the entry e, which is the last of k in L.
StandsFor(i, L, k, e) ==
  /\ IsLastOf(L, k, e)
  /\ i.Deleted = IsTomb(e, FALSE)
  /\ i.Deleted = FALSE => e.file = i.FileID /\ e.pos = i.ValuePos

AtLast ==
  Plain => \A k \in Keys : InOrder(k) /\ keyDir[k] # None =>
             \E e \in log : StandsFor(keyDir[k], log, k, e)

\* The scan of a restart can read every entry.
Readable(L) == Plain => \A e \in L : e.readable = TRUE

\* No key the index takes for live has a tombstone for its value.
LiveValues ==
  Plain => \A k \in Keys : keyDir[k] # None /\ keyDir[k].Deleted = FALSE =>
             \A e \in log : e.file = keyDir[k].FileID /\ e.pos = keyDir[k].ValuePos
                            => e.val # Tombstone

StoreInv ==
  /\ TypeOK
  /\ IndexExact
  /\ IsNewest(files, activeFileID)
  /\ AllWinners(log)
  /\ SameKeys
  /\ AtLast
  /\ Readable(log)
  /\ LiveValues
---------------------------------------------------------------------------
\* Entries in different places: one of the two comes first, and one of the two beats the
\* other, never both ways.
LEMMA OrderTotal ==
  ASSUME NEW d \in Entry, NEW e \in Entry, ~(d.file = e.file /\ d.pos = e.pos)
  PROVE  /\ Before(d, e) \/ Before(e, d)
         /\ ~(Before(d, e) /\ Before(e, d))
         /\ Beats(d, e) \/ Beats(e, d)
         /\ ~(Beats(d, e) /\ Beats(e, d))
  BY DEF Entry, Before, Beats

LEMMA BeatsTransitive ==
  ASSUME NEW c \in Entry, NEW d \in Entry, NEW e \in Entry, Beats(c, d), Beats(d, e)
  PROVE  Beats(c, e)
  BY DEF Entry, Before, Beats

\* The CHOOSE of Winner picks the winner when there is one.
LEMMA WinnerIs ==
  ASSUME NEW fs, NEW L, DiskOK(fs, L), NEW k \in Keys, NEW w \in L, IsWinner(L, k, w)
  PROVE  Winner(L, k) = w
<1>1. \A e \in EntriesOf(L, k) :
        (\A d \in EntriesOf(L, k) : d = e \/ Beats(e, d)) => e = w
  <2> SUFFICES ASSUME NEW e \in EntriesOf(L, k),
                      \A d \in EntriesOf(L, k) : d = e \/ Beats(e, d),
                      e # w
               PROVE  FALSE
    OBVIOUS
  <2>1. Beats(e, w) /\ Beats(w, e)
    BY DEF IsWinner
  <2>2. e \in Entry /\ w \in Entry /\ ~(e.file = w.file /\ e.pos = w.pos)
    BY DEF DiskOK, EntriesOf
  <2> QED
    BY <2>1, <2>2, OrderTotal
<1> QED
  BY <1>1 DEF Winner, IsWinner

\* In a log whose entries of k are in timestamp order, the winner of k is its last entry.
LEMMA WinnerLast ==
  ASSUME NEW fs, NEW L, DiskOK(fs, L), NEW k \in Keys, NEW w \in L,
         \A d, e \in EntriesOf(L, k) : Before(d, e) => d.ts <= e.ts
  PROVE  IsWinner(L, k, w) <=> IsLastOf(L, k, w)
<1> SUFFICES ASSUME w \in EntriesOf(L, k), NEW d \in EntriesOf(L, k), d # w
             PROVE  Beats(w, d) <=> Before(d, w)
  BY DEF IsWinner, IsLastOf
<1>1. d \in Entry /\ w \in Entry /\ ~(d.file = w.file /\ d.pos = w.pos)
  BY DEF DiskOK, EntriesOf
<1>2. Before(d, w) \/ Before(w, d)
  BY <1>1, OrderTotal
<1>3. (Before(d, w) => d.ts <= w.ts) /\ (Before(w, d) => w.ts <= d.ts)
  OBVIOUS
<1>4. d.ts \in Nat /\ w.ts \in Nat
  BY <1>1 DEF Entry
<1>5. ~(Before(d, w) /\ Before(w, d))
  BY <1>1, OrderTotal
<1> QED
  BY <1>2, <1>3, <1>4, <1>5 DEF Beats
---------------------------------------------------------------------------
\* Appending fresh entries to the active file or to the one after it: the disk stays in
\* order, what is new lies behind everything that was there, and the file written is the
\* newest.
LEMMA AppendDisk ==
  ASSUME DiskOK(files, log), IsNewest(files, activeFileID),
         NEW id \in {activeFileID, activeFileID + 1}, NEW n \in Nat,
         NEW B, Fresh(B, id, n)
  PROVE  /\ DiskOK(Grow(id, n), log \cup B)
         /\ IsNewest(Grow(id, n), id)
         /\ \A d \in log, e \in B : Before(d, e)
<1> DEFINE fs == Grow(id, n)
<1>1. activeFileID \in Nat /\ id \in Nat /\ DOMAIN files \subseteq Nat
  BY DEF DiskOK, IsNewest
<1>2. SizeAt(id) \in Nat /\ \A f \in DOMAIN files : SizeAt(f) = files[f] /\ files[f] \in Nat
  BY DEF DiskOK, SizeAt
<1>3. DOMAIN fs = DOMAIN files \cup {id}
  BY DEF Grow
<1>4. \A f \in DOMAIN fs : fs[f] = IF f = id THEN SizeAt(id) + n ELSE files[f]
  BY <1>2, <1>3 DEF Grow
<1>5. fs \in [DOMAIN fs -> Nat]
  <2>1. fs = [f \in DOMAIN fs |-> fs[f]]
    BY DEF Grow
  <2> QED
    BY <1>2, <1>3, <1>4, <2>1
<1>6. IsNewest(fs, id)
  BY <1>1, <1>3 DEF IsNewest
<1>7. \A d \in log : /\ d \in Entry /\ d.file \in DOMAIN files /\ d.pos \in Nat
                     /\ d.pos < files[d.file] /\ d.file <= activeFileID
  BY DEF DiskOK, IsNewest, Entry
<1>8. \A e \in B : /\ e \in Entry /\ e.file = id /\ e.pos \in Nat
                   /\ SizeAt(id) <= e.pos /\ e.pos < SizeAt(id) + n
  BY DEF Fresh, Entry
<1>9. \A d \in log, e \in B : Before(d, e)
  <2> SUFFICES ASSUME NEW d \in log, NEW e \in B
               PROVE  Before(d, e)
    OBVIOUS
  <2>1. d.file \in Nat /\ d.file <= id
    BY <1>1, <1>7
  <2>2. CASE d.file = id
    BY <1>2, <1>7, <1>8, <2>2 DEF Before
  <2>3. CASE d.file # id
    BY <1>1, <1>8, <2>1, <2>3 DEF Before
  <2> QED
    BY <2>2, <2>3
<1>10. \A d, e \in log \cup B : d.file = e.file /\ d.pos = e.pos => d = e
  <2>1. \A d \in log, e \in B : ~(d.file = e.file /\ d.pos = e.pos)
    BY <1>1, <1>7, <1>8, <1>9 DEF Before
  <2>2. \A d, e \in log : d.file = e.file /\ d.pos = e.pos => d = e
    BY DEF DiskOK
  <2>3. \A d, e \in B : d.pos = e.pos => d = e
    BY DEF Fresh
  <2> QED
    BY <2>1, <2>2, <2>3
<1>11. \A e \in log \cup B : e.file \in DOMAIN fs /\ e.pos < fs[e.file]
  <2>1. ASSUME NEW e \in log
        PROVE  e.file \in DOMAIN fs /\ e.pos < fs[e.file]
    BY <1>2, <1>3, <1>4, <1>7, <2>1
  <2>2. ASSUME NEW e \in B
        PROVE  e.file \in DOMAIN fs /\ e.pos < fs[e.file]
    BY <1>3, <1>4, <1>8, <2>2
  <2> QED
    BY <2>1, <2>2
<1> QED
  BY <1>1, <1>3, <1>5, <1>6, <1>7, <1>8, <1>9, <1>10, <1>11 DEF DiskOK

\* After an append the scan still has a winner for every key.
LEMMA AppendWinner ==
  ASSUME NEW fs, NEW L, NEW B, DiskOK(fs, L \cup B), Winners(L),
         \A d, e \in B : d.key = e.key => d = e
  PROVE  Winners(L \cup B)
<1> SUFFICES ASSUME NEW k \in Keys, EntriesOf(L \cup B, k) # {}
             PROVE  \E w \in L \cup B : IsWinner(L \cup B, k, w)
  BY DEF Winners
<1>1. L \subseteq Entry /\ B \subseteq Entry
  BY DEF DiskOK
<1>2. \A d, e \in L \cup B : d # e => Beats(d, e) \/ Beats(e, d)
  BY OrderTotal DEF DiskOK
<1>3. CASE EntriesOf(L, k) = {}
  <2>1. PICK b \in B : b.key = k
    BY <1>3 DEF EntriesOf
  <2>2. \A d \in EntriesOf(L \cup B, k) : d = b
    BY <1>3, <2>1 DEF EntriesOf
  <2> QED
    BY <2>1, <2>2 DEF IsWinner, EntriesOf
<1>4. CASE EntriesOf(L, k) # {}
  <2>1. PICK w \in L : IsWinner(L, k, w)
    BY <1>4 DEF Winners
  <2>2. CASE \E b \in B : b.key = k
    <3>1. PICK b \in B : b.key = k
      BY <2>2
    <3>2. \A d \in EntriesOf(L \cup B, k) : d = b \/ d \in EntriesOf(L, k)
      BY <3>1 DEF EntriesOf
    <3>3. CASE b = w \/ Beats(w, b)
      <4>1. \A d \in EntriesOf(L \cup B, k) : d = w \/ Beats(w, d)
        BY <2>1, <3>2, <3>3 DEF IsWinner
      <4> QED
        BY <2>1, <4>1 DEF IsWinner, EntriesOf
    <3>4. CASE b # w /\ Beats(b, w)
      <4>1. \A d \in EntriesOf(L, k) : d = w \/ Beats(w, d)
        BY <2>1 DEF IsWinner
      <4>2. \A d \in EntriesOf(L, k) : Beats(b, d)
        BY <1>1, <3>4, <4>1, BeatsTransitive DEF EntriesOf
      <4>3. \A d \in EntriesOf(L \cup B, k) : d = b \/ Beats(b, d)
        BY <3>2, <4>2
      <4> QED
        BY <3>1, <4>3 DEF IsWinner, EntriesOf
    <3> QED
      BY <1>2, <3>3, <3>4
  <2>3. CASE ~ \E b \in B : b.key = k
    <3>1. EntriesOf(L \cup B, k) = EntriesOf(L, k)
      BY <2>3 DEF EntriesOf
    <3> QED
      BY <2>1, <3>1 DEF IsWinner
  <2> QED
    BY <2>2, <2>3
<1> QED
  BY <1>3, <1>4

\* The same whatever goes.
LEMMA AppendWinners ==
  ASSUME NEW fs, NEW L, NEW B, DiskOK(fs, L \cup B), AllWinners(L),
         \A d, e \in B : d.key = e.key => d = e
  PROVE  AllWinners(L \cup B)
<1> SUFFICES ASSUME NEW M \in SUBSET (L \cup B)
             PROVE  Winners(M)
  BY DEF AllWinners
<1>1. M = (M \cap L) \cup (M \cap B)
  OBVIOUS
<1>2. DiskOK(fs, (M \cap L) \cup (M \cap B))
  BY DEF DiskOK
<1>3. Winners(M \cap L)
  BY DEF AllWinners
<1>4. Winners((M \cap L) \cup (M \cap B))
  BY <1>2, <1>3, AppendWinner
<1> QED
  BY <1>1, <1>4

\* AllWinners of the next state's log is AllWinners of the set it is.
LEMMA WinnersNext ==
  ASSUME NEW L, AllWinners(L), log' = L
  PROVE  AllWinners(log)'
  BY DEF AllWinners, Winners, IsWinner, EntriesOf, Beats, Before

\* Nothing need go.
LEMMA AllThere ==
  ASSUME NEW L, AllWinners(L)
  PROVE  Winners(L)
  BY DEF AllWinners
---------------------------------------------------------------------------
\* An index record is a record, never the mark of a missing one.
LEMMA InfoType ==
  ASSUME NEW e \in Entry, NEW b \in BOOLEAN
  PROVE  /\ Info(e, b) \in KeyDirInfo
         /\ Info(e, b) # None
         /\ Info(e, b).FileID = e.file /\ Info(e, b).ValuePos = e.pos
         /\ Info(e, b).Timestamp = e.ts /\ Info(e, b).TTL = e.ttl
         /\ Info(e, b).Deleted = b
  BY NoneAssumption DEF Info, Entry, KeyDirInfo

\* The variables that are neither disk nor index.
OthersTyped ==
  /\ pending' \in [Clients -> PutRequest \cup {None}]
  /\ expiring' \in [Keys -> Nat]
  /\ now' \in Nat \ {0}

\* A step after which the disk is (fs, L) and the index is rebuilt from it.
Rebuilds(fs, L, smart) ==
  /\ files' = fs /\ log' = L /\ activeFileID' = LastFile(fs)
  /\ keyDir' = RebuildKeyDir(L, smart)

\* On any disk in order, with a winner for each key, it establishes the invariant.
LEMMA RebuildInv ==
  ASSUME NEW fs, NEW L, NEW id, DiskOK(fs, L), IsNewest(fs, id), AllWinners(L), Readable(L),
         NEW smart \in BOOLEAN, Plain => smart = FALSE,
         Rebuilds(fs, L, smart), OthersTyped
  PROVE  StoreInv'
<1>1. files' = fs /\ log' = L
  BY DEF Rebuilds
<1>2. activeFileID' = id
  <2>1. \A m \in DOMAIN fs : (\A f \in DOMAIN fs : f <= m) => m = id
    BY DEF DiskOK, IsNewest
  <2>2. LastFile(fs) = id
    BY <2>1 DEF LastFile, IsNewest
  <2> QED
    BY <2>2 DEF Rebuilds
<1>3. Winners(L) /\ \A e \in Entry : IsTomb(e, smart) \in BOOLEAN
  BY AllThere DEF IsTomb
<1>4. ASSUME NEW k \in Keys, EntriesOf(L, k) # {}
      PROVE  \E w \in L : /\ IsWinner(L, k, w) /\ w \in Entry /\ w.key = k
                          /\ keyDir'[k] \in KeyDirInfo /\ keyDir'[k] # None
                          /\ w.file = keyDir'[k].FileID /\ w.pos = keyDir'[k].ValuePos
                          /\ w.ts = keyDir'[k].Timestamp
                          /\ keyDir'[k].Deleted = IsTomb(w, smart)
  <2>1. PICK w \in L : IsWinner(L, k, w)
    BY <1>3, <1>4 DEF Winners
  <2>2. Winner(L, k) = w
    BY <2>1, WinnerIs
  <2>3. w \in Entry /\ w.key = k
    BY <2>1 DEF DiskOK, IsWinner, EntriesOf
  <2>4. keyDir'[k] = Info(w, IsTomb(w, smart))
    BY <1>4, <2>2 DEF Rebuilds, RebuildKeyDir
  <2> QED
    BY <1>3, <2>1, <2>3, <2>4, InfoType
<1>5. ASSUME NEW k \in Keys, EntriesOf(L, k) = {}
      PROVE  keyDir'[k] = None
  BY <1>5 DEF Rebuilds, RebuildKeyDir
<1>6. TypeOK'
  <2>1. keyDir' = [k \in Keys |-> keyDir'[k]]
    BY DEF Rebuilds, RebuildKeyDir
  <2>2. \A k \in Keys : keyDir'[k] \in KeyDirInfo \cup {None}
    BY <1>4, <1>5
  <2> QED
    BY <1>1, <1>2, <2>1, <2>2 DEF OthersTyped, TypeOK, DiskOK, IsNewest
<1>7. IndexExact'
  <2>1. ASSUME NEW k \in Keys, keyDir'[k] # None
        PROVE  \E e \in L : /\ e.key = k
                            /\ e.file = keyDir'[k].FileID /\ e.pos = keyDir'[k].ValuePos
                            /\ e.ts = keyDir'[k].Timestamp
    <3>1. EntriesOf(L, k) # {}
      BY <1>5, <2>1
    <3> QED
      BY <1>4, <3>1
  <2> QED
    BY <1>1, <2>1 DEF IndexExact, DiskOK
<1>8. IsNewest(files, activeFileID)'
  BY <1>1, <1>2 DEF IsNewest
<1>9. AllWinners(log)'
  BY <1>1 DEF AllWinners, Winners, IsWinner, EntriesOf, Beats, Before
<1>10. SameKeys'
  <2>1. \A k \in Keys : keyDir'[k] = None <=> EntriesOf(L, k) = {}
    BY <1>4, <1>5
  <2> QED
    BY <1>1, <2>1 DEF SameKeys, EntriesOf
<1>11. AtLast'
  <2> SUFFICES ASSUME Plain, NEW k \in Keys, keyDir'[k] # None,
                      \A d, e \in EntriesOf(L, k) : Before(d, e) => d.ts <= e.ts
               PROVE  \E e \in L : StandsFor(keyDir'[k], L, k, e)
    BY <1>1 DEF AtLast, InOrder, StandsFor, IsLastOf, EntriesOf, Before, IsTomb, Plain
  <2>1. EntriesOf(L, k) # {}
    BY <1>5
  <2>0. smart = FALSE
    OBVIOUS
  <2>2. PICK w \in L : /\ IsWinner(L, k, w)
                      /\ w.file = keyDir'[k].FileID /\ w.pos = keyDir'[k].ValuePos
                      /\ keyDir'[k].Deleted = IsTomb(w, FALSE)
    BY <1>4, <2>0, <2>1
  <2>3. IsLastOf(L, k, w)
    BY <2>2, WinnerLast
  <2> QED
    BY <2>2, <2>3 DEF StandsFor
<1>12. Readable(log)'
  BY <1>1 DEF Readable, Plain
<1>13. LiveValues'
  <2> SUFFICES ASSUME Plain, NEW k \in Keys, keyDir'[k] # None, keyDir'[k].Deleted = FALSE,
                      NEW e \in L, e.file = keyDir'[k].FileID, e.pos = keyDir'[k].ValuePos
               PROVE  e.val # Tombstone
    BY <1>1 DEF LiveValues, Plain
  <2>0. smart = FALSE
    OBVIOUS
  <2>1. PICK w \in L : /\ w.file = keyDir'[k].FileID /\ w.pos = keyDir'[k].ValuePos
                      /\ keyDir'[k].Deleted = IsTomb(w, FALSE)
    BY <1>4, <1>5, <2>0
  <2>2. e = w
    BY <2>1 DEF DiskOK
  <2>3. e.readable = TRUE
    BY DEF Readable
  <2> QED
    BY <2>1, <2>2, <2>3 DEF IsTomb
<1> QED
  BY <1>6, <1>7, <1>8, <1>9, <1>10, <1>11, <1>12, <1>13 DEF StoreInv

\* NewGojiDB on such a disk.
LEMMA OpenInv ==
  ASSUME NEW fs, NEW L, NEW id, DiskOK(fs, L), IsNewest(fs, id), AllWinners(L), Readable(L),
         Open(fs, L), now \in Nat \ {0}, now' = now
  PROVE  StoreInv'
<1>1. Rebuilds(fs, L, FALSE) /\ OthersTyped
  BY DEF Open, Rebuilds, OthersTyped
<1> QED
  BY <1>1, RebuildInv
---------------------------------------------------------------------------
\* How the index records a new entry e of a put, and of a deletion.
IndexedAsPut(e) ==
  e.val \in Values /\ e.readable = TRUE /\ keyDir'[e.key] = Info(e, FALSE)

IndexedAsTombstone(e) ==
  /\ e.val = Tombstone /\ e.readable = ~SmartCompression
  /\ keyDir[e.key] # None
  /\ keyDir'[e.key] = [keyDir[e.key] EXCEPT !.Deleted = TRUE, !.Timestamp = e.ts]

\* A step that appends the fresh entries B to file id and indexes them under their keys.
Appended(id, n, B) ==
  /\ id \in {activeFileID, activeFileID + 1} /\ n \in Nat /\ Fresh(B, id, n)
  /\ files' = Grow(id, n) /\ log' = log \cup B /\ activeFileID' = id
  /\ keyDir' = [k \in Keys |-> keyDir'[k]]
  /\ \A k \in Keys : (\A e \in B : e.key # k) => keyDir'[k] = keyDir[k]
  /\ \A e \in B : IndexedAsPut(e) \/ IndexedAsTombstone(e)

\* Such a step keeps the invariant.
LEMMA AppendInv ==
  ASSUME StoreInv, OthersTyped, NEW id, NEW n, NEW B, Appended(id, n, B)
  PROVE  StoreInv'
<1>0. /\ id \in {activeFileID, activeFileID + 1} /\ n \in Nat /\ Fresh(B, id, n)
      /\ files' = Grow(id, n) /\ log' = log \cup B /\ activeFileID' = id
      /\ keyDir' = [k \in Keys |-> keyDir'[k]]
      /\ \A k \in Keys : (\A e \in B : e.key # k) => keyDir'[k] = keyDir[k]
      /\ \A e \in B : IndexedAsPut(e) \/ IndexedAsTombstone(e)
  BY DEF Appended
<1>1. DiskOK(files, log)
  BY DEF StoreInv, TypeOK, IndexExact, DiskOK
<1>2. /\ DiskOK(files', log')
      /\ IsNewest(files', id)
      /\ \A d \in log, e \in B : Before(d, e)
  BY <1>0, <1>1, AppendDisk DEF StoreInv
<1>3. \A e \in B : e \in Entry /\ e.key \in Keys
  BY <1>0 DEF Fresh, Entry
<1>4. \A d, e \in B : d.key = e.key => d = e
  BY <1>0 DEF Fresh
<1>5. ASSUME NEW e \in B
      PROVE  /\ keyDir'[e.key] \in KeyDirInfo
             /\ keyDir'[e.key] # None
             /\ IndexedAsPut(e) =>
                  /\ keyDir'[e.key].FileID = e.file /\ keyDir'[e.key].ValuePos = e.pos
                  /\ keyDir'[e.key].Timestamp = e.ts /\ keyDir'[e.key].Deleted = FALSE
             /\ IndexedAsTombstone(e) =>
                  /\ keyDir'[e.key].FileID = keyDir[e.key].FileID
                  /\ keyDir'[e.key].ValuePos = keyDir[e.key].ValuePos
                  /\ keyDir'[e.key].Deleted = TRUE
  <2>1. CASE IndexedAsTombstone(e)
    <3>1. keyDir[e.key] \in KeyDirInfo
      BY <1>0, <1>3, <2>1 DEF StoreInv, TypeOK, IndexedAsTombstone
    <3>2. /\ keyDir'[e.key] \in KeyDirInfo
          /\ keyDir'[e.key].FileID = keyDir[e.key].FileID
          /\ keyDir'[e.key].ValuePos = keyDir[e.key].ValuePos
          /\ keyDir'[e.key].Deleted = TRUE
      BY <1>0, <1>3, <2>1, <3>1 DEF IndexedAsTombstone, KeyDirInfo, Entry
    <3>3. IndexedAsPut(e) => keyDir'[e.key].Deleted = FALSE
      BY <1>0, <1>3, InfoType DEF IndexedAsPut
    <3> QED
      BY <3>2, <3>3, NoneAssumption
  <2>2. CASE IndexedAsPut(e) /\ ~IndexedAsTombstone(e)
    BY <1>0, <1>3, <2>2, InfoType DEF IndexedAsPut
  <2> QED
    BY <1>0, <2>1, <2>2
<1>6. ASSUME NEW k \in Keys, \A e \in B : e.key # k
      PROVE  keyDir'[k] = keyDir[k] /\ EntriesOf(log \cup B, k) = EntriesOf(log, k)
  BY <1>0, <1>6 DEF EntriesOf
<1>7. TypeOK'
  <2>1. ASSUME NEW k \in Keys
        PROVE  keyDir'[k] \in KeyDirInfo \cup {None}
    <3>1. CASE \E e \in B : e.key = k
      BY <1>0, <1>5, <3>1
    <3>2. CASE \A e \in B : e.key # k
      BY <1>0, <1>6, <3>2 DEF StoreInv, TypeOK
    <3> QED
      BY <3>1, <3>2
  <2> QED
    BY <1>0, <1>2, <2>1 DEF TypeOK, OthersTyped, DiskOK, IsNewest
<1>8. IndexExact'
  <2> DEFINE Found(k) == \E e \in log \cup B :
                           /\ e.key = k
                           /\ e.file = keyDir'[k].FileID /\ e.pos = keyDir'[k].ValuePos
                           /\ ~keyDir'[k].Deleted => e.ts = keyDir'[k].Timestamp
  <2>1. ASSUME NEW k \in Keys, keyDir'[k] # None
        PROVE  Found(k)
    <3>1. CASE \A e \in B : e.key # k
      BY <1>0, <1>6, <2>1, <3>1 DEF StoreInv, IndexExact, Live
    <3>2. ASSUME NEW e \in B, e.key = k, IndexedAsPut(e)
          PROVE  Found(k)
      BY <1>0, <1>5, <3>2
    <3>3. ASSUME NEW e \in B, e.key = k, IndexedAsTombstone(e)
          PROVE  Found(k)
      <4>1. PICK d \in log : d.key = k /\ d.file = keyDir[k].FileID /\ d.pos = keyDir[k].ValuePos
        BY <3>3 DEF IndexedAsTombstone, StoreInv, IndexExact
      <4> QED
        BY <1>0, <1>5, <3>3, <4>1
    <3> QED
      BY <1>0, <3>1, <3>2, <3>3
  <2> QED
    BY <1>0, <1>2, <2>1 DEF IndexExact, DiskOK, Live
<1>9. AllWinners(log)'
  <2>1. AllWinners(log \cup B)
    BY <1>0, <1>2, <1>4, AppendWinners DEF StoreInv
  <2> QED
    BY <1>0, <2>1 DEF AllWinners, Winners, IsWinner, EntriesOf, Beats, Before
<1>10. SameKeys'
  <2>1. ASSUME NEW k \in Keys
        PROVE  keyDir'[k] = None <=> EntriesOf(log \cup B, k) = {}
    <3>1. CASE \A e \in B : e.key # k
      BY <1>0, <1>6, <3>1 DEF StoreInv, SameKeys
    <3>2. CASE \E e \in B : e.key = k
      BY <1>0, <1>5, <3>2 DEF EntriesOf
    <3> QED
      BY <3>1, <3>2
  <2> QED
    BY <1>0, <2>1 DEF SameKeys, EntriesOf
<1>11. AtLast'
  <2> SUFFICES ASSUME Plain, NEW k \in Keys, keyDir'[k] # None,
                      \A d, e \in EntriesOf(log \cup B, k) : Before(d, e) => d.ts <= e.ts
               PROVE  \E e \in log \cup B : StandsFor(keyDir'[k], log \cup B, k, e)
    BY <1>0 DEF AtLast, InOrder, StandsFor, IsLastOf, EntriesOf, Before, IsTomb, Plain
  <2>1. CASE \A e \in B : e.key # k
    <3>0. keyDir'[k] = keyDir[k] /\ EntriesOf(log \cup B, k) = EntriesOf(log, k)
      BY <1>0, <1>6, <2>1
    <3>1. InOrder(k) /\ keyDir[k] # None
      BY <3>0 DEF InOrder
    <3>2. PICK e \in log : StandsFor(keyDir[k], log, k, e)
      BY <3>1 DEF StoreInv, AtLast
    <3>3. StandsFor(keyDir'[k], log \cup B, k, e)
      BY <3>0, <3>2 DEF StandsFor, IsLastOf
    <3> QED
      BY <3>3
  <2>2. ASSUME NEW e \in B, e.key = k
        PROVE  StandsFor(keyDir'[k], log \cup B, k, e)
    <3>1. IsLastOf(log \cup B, k, e)
      BY <1>0, <1>2, <1>4, <2>2 DEF IsLastOf, EntriesOf
    <3>2. CASE IndexedAsPut(e)
      <4>1. IsTomb(e, FALSE) = FALSE
        BY <3>2 DEF IndexedAsPut, IsTomb, Plain
      <4>2. keyDir'[k].Deleted = FALSE /\ e.file = keyDir'[k].FileID /\ e.pos = keyDir'[k].ValuePos
        BY <1>0, <1>5, <2>2, <3>2
      <4> QED
        BY <3>1, <4>1, <4>2 DEF StandsFor
    <3>3. CASE IndexedAsTombstone(e)
      <4>1. IsTomb(e, FALSE) = TRUE
        BY <3>3 DEF IndexedAsTombstone, IsTomb, Plain
      <4>2. keyDir'[k].Deleted = TRUE
        BY <1>0, <1>5, <2>2, <3>3
      <4> QED
        BY <3>1, <4>1, <4>2 DEF StandsFor
    <3> QED
      BY <1>0, <2>2, <3>2, <3>3
  <2> QED
    BY <2>1, <2>2
<1>12. IsNewest(files, activeFileID)'
  BY <1>0, <1>2 DEF IsNewest
<1>13. Readable(log)'
  <2>1. Plain => \A e \in log \cup B : e.readable = TRUE
    BY <1>0 DEF StoreInv, Readable, IndexedAsPut, IndexedAsTombstone, Plain
  <2> QED
    BY <1>0, <2>1 DEF Readable, Plain
<1>14. LiveValues'
  <2> SUFFICES ASSUME Plain, NEW k \in Keys, keyDir'[k] # None, keyDir'[k].Deleted = FALSE,
                      NEW e \in log \cup B,
                      e.file = keyDir'[k].FileID, e.pos = keyDir'[k].ValuePos
               PROVE  e.val # Tombstone
    BY <1>0 DEF LiveValues, Plain
  <2>1. ASSUME NEW d \in log \cup B, d.file = e.file, d.pos = e.pos
        PROVE  d = e
    BY <1>0, <1>2, <2>1 DEF DiskOK
  <2>2. CASE \A b \in B : b.key # k
    <3>1. keyDir'[k] = keyDir[k]
      BY <1>6, <2>2
    <3>2. PICK d \in log : d.file = keyDir[k].FileID /\ d.pos = keyDir[k].ValuePos
      BY <3>1 DEF StoreInv, IndexExact
    <3>3. d.val # Tombstone
      BY <3>1, <3>2 DEF StoreInv, LiveValues
    <3> QED
      BY <2>1, <3>1, <3>2, <3>3
  <2>3. ASSUME NEW b \in B, b.key = k
        PROVE  e.val # Tombstone
    <3>1. IndexedAsPut(b)
      BY <1>0, <1>5, <2>3
    <3>2. b = e
      BY <1>5, <2>1, <2>3, <3>1
    <3> QED
      BY <3>1, <3>2 DEF IndexedAsPut, Plain
  <2> QED
    BY <2>2, <2>3
<1> QED
  BY <1>0, <1>7, <1>8, <1>9, <1>10, <1>11, <1>12, <1>13, <1>14 DEF StoreInv
---------------------------------------------------------------------------
\* Steps that touch neither files nor index.
LEMMA IdleInv ==
  ASSUME StoreInv, OthersTyped, UNCHANGED <<files, log, activeFileID, keyDir>>
  PROVE  StoreInv'
<1>1. TypeOK'
  BY DEF StoreInv, TypeOK, OthersTyped
<1>2. IndexExact'
  BY DEF StoreInv, IndexExact, Live
<1>3. IsNewest(files, activeFileID)' /\ AllWinners(log)' /\ SameKeys'
  BY DEF StoreInv, IsNewest, AllWinners, Winners, IsWinner, SameKeys, EntriesOf, Beats, Before
<1>4. AtLast'
  BY DEF StoreInv, AtLast, InOrder, StandsFor, IsLastOf, EntriesOf, Before, IsTomb, Plain
<1>5. Readable(log)' /\ LiveValues'
  BY DEF StoreInv, Readable, LiveValues, Plain
<1> QED
  BY <1>1, <1>2, <1>3, <1>4, <1>5 DEF StoreInv

\* What the invariant says of the types, in the form the steps use.
LEMMA StateTyped ==
  ASSUME StoreInv
  PROVE  /\ activeFileID \in Nat /\ activeFileID \in DOMAIN files
         /\ \A id \in {activeFileID, activeFileID + 1} : id \in Nat /\ SizeAt(id) \in Nat
         /\ now \in Nat /\ now \in Nat \ {0}
         /\ keyDir = [k \in Keys |-> keyDir[k]]
         /\ DiskOK(files, log)
<1>1. activeFileID \in Nat /\ activeFileID \in DOMAIN files
  BY DEF StoreInv, TypeOK
<1>2. \A id : SizeAt(id) \in Nat
  BY DEF StoreInv, TypeOK, SizeAt
<1> QED
  BY <1>1, <1>2 DEF StoreInv, TypeOK, DiskOK, IndexExact

\* A stamped put is a request.
LEMMA StampTyped ==
  ASSUME StoreInv, NEW k \in Keys, NEW v \in Values, NEW ttl \in TTLs
  PROVE  Stamp(k, v, ttl) \in PutRequest
<1>1. now \in Nat /\ ttl \in Int
  BY StateTyped, TimeAssumption
<1>2. Deadline(ttl) \in Nat
  BY <1>1 DEF Deadline
<1> QED
  BY <1>1, <1>2 DEF Stamp, PutRequest

\* The one entry of a put or of a deletion is fresh.
LEMMA OneFresh ==
  ASSUME StoreInv, NEW id \in {activeFileID, activeFileID + 1},
         NEW e \in Entry, e.file = id, e.pos = SizeAt(id)
  PROVE  Fresh({e}, id, 1)
  BY StateTyped DEF Fresh

\* The locked part of a put keeps the invariant.
LEMMA WritePutInv ==
  ASSUME StoreInv, OthersTyped, NEW r \in PutRequest, WritePut(r)
  PROVE  StoreInv'
<1> DEFINE id == FileFor(1)
           e == PutEntry(id, SizeAt(id), r.key, r.val, r.ts, r.ttl)
<1>1. id \in {activeFileID, activeFileID + 1}
  BY DEF FileFor
<1>2. id \in Nat /\ SizeAt(id) \in Nat
  BY <1>1, StateTyped
<1>3. /\ e \in Entry /\ e.file = id /\ e.pos = SizeAt(id)
      /\ e.key = r.key /\ r.key \in Keys /\ e.val \in Values /\ e.readable = TRUE
  BY <1>2 DEF PutEntry, Entry, PutRequest
<1>4. Fresh({e}, id, 1)
  BY <1>1, <1>3, OneFresh
<1>5. /\ files' = Grow(id, 1) /\ log' = log \cup {e} /\ activeFileID' = id
      /\ keyDir' = [keyDir EXCEPT ![r.key] = Info(e, FALSE)]
  BY DEF WritePut
<1>6. /\ keyDir' = [k \in Keys |-> keyDir'[k]]
      /\ keyDir'[r.key] = Info(e, FALSE)
      /\ \A k \in Keys : k # r.key => keyDir'[k] = keyDir[k]
  BY <1>3, <1>5, StateTyped
<1>7. IndexedAsPut(e)
  BY <1>3, <1>6 DEF IndexedAsPut
<1>8. \A k \in Keys : (\A x \in {e} : x.key # k) => keyDir'[k] = keyDir[k]
  BY <1>3, <1>6
<1>9. \A x \in {e} : IndexedAsPut(x) \/ IndexedAsTombstone(x)
  BY <1>7
<1>10. Appended(id, 1, {e})
  BY <1>1, <1>4, <1>5, <1>6, <1>8, <1>9 DEF Appended
<1> QED
  BY <1>10, AppendInv

\* A deletion keeps the invariant.
LEMMA WriteTombstoneInv ==
  ASSUME StoreInv, OthersTyped, NEW k \in Keys, keyDir[k] # None, WriteTombstone(k)
  PROVE  StoreInv'
<1> DEFINE id == activeFileID
           e == TombstoneEntry(id, SizeAt(id), k)
<1>1. id \in Nat /\ SizeAt(id) \in Nat /\ now \in Nat
  BY StateTyped
<1>2. /\ e \in Entry /\ e.file = id /\ e.pos = SizeAt(id) /\ e.key = k /\ e.ts = now
      /\ e.val = Tombstone /\ e.readable = ~SmartCompression
  BY <1>1, ConfigAssumption DEF TombstoneEntry, Entry
<1>3. Fresh({e}, id, 1)
  BY <1>2, OneFresh
<1>4. /\ files' = Grow(id, 1) /\ log' = log \cup {e} /\ activeFileID' = id
      /\ keyDir' = [keyDir EXCEPT ![k].Deleted = TRUE, ![k].Timestamp = now]
  BY DEF WriteTombstone
<1>5. /\ keyDir' = [j \in Keys |-> keyDir'[j]]
      /\ keyDir'[k] = [keyDir[k] EXCEPT !.Deleted = TRUE, !.Timestamp = now]
      /\ \A j \in Keys : j # k => keyDir'[j] = keyDir[j]
  BY <1>4, StateTyped
<1>6. IndexedAsTombstone(e)
  BY <1>2, <1>5 DEF IndexedAsTombstone
<1>7. \A j \in Keys : (\A x \in {e} : x.key # j) => keyDir'[j] = keyDir[j]
  BY <1>2, <1>5
<1>8. \A x \in {e} : IndexedAsPut(x) \/ IndexedAsTombstone(x)
  BY <1>6
<1>9. id \in {activeFileID, activeFileID + 1}
  OBVIOUS
<1>10. Appended(id, 1, {e})
  BY <1>3, <1>4, <1>5, <1>7, <1>8, <1>9 DEF Appended
<1> QED
  BY <1>10, AppendInv

\* The entries of a batch, whole or cut short, as they are laid out in file id.
LEMMA BatchLaid ==
  ASSUME now \in Nat, NEW items \in Batches, NEW ord \in Orders(DOMAIN items),
         NEW id \in Nat, SizeAt(id) \in Nat
  PROVE  /\ DOMAIN items \subseteq Keys
         /\ Cardinality(DOMAIN items) \in Nat
         /\ \A k \in DOMAIN items :
              LET e == PutEntry(id, SizeAt(id) + ord[k], k, items[k], now, 0)
              IN  e \in Entry /\ e.key = k /\ e.val \in Values /\ e.readable = TRUE
         /\ \A n \in Nat :
              Fresh({e \in BatchEntries(id, items, ord) :
                       e.key \in {k \in DOMAIN items : ord[k] < n}}, id, n)
         /\ Fresh(BatchEntries(id, items, ord), id, Cardinality(DOMAIN items))
<1> DEFINE S == DOMAIN items
           E(k) == PutEntry(id, SizeAt(id) + ord[k], k, items[k], now, 0)
<1>1. S \subseteq Keys /\ \A k \in S : items[k] \in Values
  BY DEF Batches
<1>2. Cardinality(S) \in Nat
  BY <1>1, KeysAssumption, FS_Subset, FS_CardinalityType
<1>3. /\ \A k \in S : ord[k] \in Nat /\ ord[k] < Cardinality(S)
      /\ \A j, k \in S : ord[j] = ord[k] => j = k
  BY <1>2 DEF Orders, Bijection, Injection, IsInjective
<1>4. id \in Nat /\ SizeAt(id) \in Nat /\ now \in Nat
  OBVIOUS
<1>5. \A k \in S : /\ E(k) \in Entry /\ E(k).key = k /\ E(k).val \in Values /\ E(k).readable = TRUE
                   /\ E(k).file = id /\ E(k).pos = SizeAt(id) + ord[k]
  BY <1>1, <1>3, <1>4 DEF PutEntry, Entry
<1>6. BatchEntries(id, items, ord) = {E(k) : k \in S}
  BY DEF BatchEntries
<1>7. ASSUME NEW n \in Nat, NEW W \in SUBSET S, \A k \in W : ord[k] < n
      PROVE  Fresh({e \in BatchEntries(id, items, ord) : e.key \in W}, id, n)
  <2> DEFINE B == {e \in BatchEntries(id, items, ord) : e.key \in W}
  <2>1. \A e \in B : \E k \in W : e = E(k)
    BY <1>5, <1>6
  <2>2. \A e \in B : /\ e \in Entry /\ e.file = id
                     /\ SizeAt(id) <= e.pos /\ e.pos < SizeAt(id) + n
    BY <1>3, <1>4, <1>5, <1>7, <2>1
  <2>3. \A d, e \in B : d.pos = e.pos \/ d.key = e.key => d = e
    <3> SUFFICES ASSUME NEW d \in B, NEW e \in B, d.pos = e.pos \/ d.key = e.key
                 PROVE  d = e
      OBVIOUS
    <3>1. PICK j \in W : d = E(j)
      BY <2>1
    <3>2. PICK k \in W : e = E(k)
      BY <2>1
    <3>3. j = k
      BY <1>3, <1>4, <1>5, <3>1, <3>2
    <3> QED
      BY <3>1, <3>2, <3>3
  <2> QED
    BY <2>2, <2>3 DEF Fresh
<1>8. Fresh(BatchEntries(id, items, ord), id, Cardinality(S))
  <2>1. BatchEntries(id, items, ord) = {e \in BatchEntries(id, items, ord) : e.key \in S}
    BY <1>5, <1>6
  <2> QED
    BY <1>2, <1>3, <1>7, <2>1
<1> QED
  BY <1>1, <1>2, <1>5, <1>7, <1>8

\* The entries of a batch, whole or cut short, are fresh.
LEMMA BatchFresh ==
  ASSUME StoreInv, NEW items \in Batches, NEW ord \in Orders(DOMAIN items),
         NEW id \in {activeFileID, activeFileID + 1}
  PROVE  /\ DOMAIN items \subseteq Keys
         /\ Cardinality(DOMAIN items) \in Nat
         /\ \A k \in DOMAIN items :
              LET e == PutEntry(id, SizeAt(id) + ord[k], k, items[k], now, 0)
              IN  e \in Entry /\ e.key = k /\ e.val \in Values /\ e.readable = TRUE
         /\ \A n \in Nat :
              Fresh({e \in BatchEntries(id, items, ord) :
                       e.key \in {k \in DOMAIN items : ord[k] < n}}, id, n)
         /\ Fresh(BatchEntries(id, items, ord), id, Cardinality(DOMAIN items))
<1>1. id \in Nat /\ SizeAt(id) \in Nat /\ now \in Nat
  BY StateTyped
<1> QED
  BY <1>1, BatchLaid

\* A batch keeps the invariant.
LEMMA BatchPutInv ==
  ASSUME StoreInv, NEW items \in Batches, NEW ord \in Orders(DOMAIN items),
         BatchPut(items, ord)
  PROVE  StoreInv'
<1> DEFINE n == Cardinality(DOMAIN items)
           id == FileFor(n)
           B == BatchEntries(id, items, ord)
           E(k) == PutEntry(id, SizeAt(id) + ord[k], k, items[k], now, 0)
<1>1. id \in {activeFileID, activeFileID + 1}
  BY DEF FileFor
<1>2. /\ DOMAIN items \subseteq Keys /\ n \in Nat /\ Fresh(B, id, n)
      /\ \A k \in DOMAIN items : E(k).key = k /\ E(k).val \in Values /\ E(k).readable = TRUE
  BY <1>1, BatchFresh
<1>3. /\ files' = Grow(id, n) /\ log' = log \cup B /\ activeFileID' = id
      /\ keyDir' = [k \in Keys |-> IF k \in DOMAIN items THEN Info(E(k), FALSE) ELSE keyDir[k]]
      /\ UNCHANGED <<pending, expiring, now>>
  BY DEF BatchPut
<1>4. B = {E(k) : k \in DOMAIN items}
  BY DEF BatchEntries
<1>5. \A e \in B : IndexedAsPut(e)
  BY <1>2, <1>3, <1>4 DEF IndexedAsPut
<1>6. \A k \in Keys : (\A e \in B : e.key # k) => keyDir'[k] = keyDir[k]
  BY <1>2, <1>3, <1>4
<1>7. keyDir' = [k \in Keys |-> keyDir'[k]]
  BY <1>3
<1>8. OthersTyped
  BY <1>3 DEF OthersTyped, StoreInv, TypeOK
<1>9. Appended(id, n, B)
  BY <1>1, <1>2, <1>3, <1>5, <1>6, <1>7 DEF Appended
<1> QED
  BY <1>8, <1>9, AppendInv

\* SetTTL keeps the invariant.
LEMMA SetTTLInv ==
  ASSUME StoreInv, NEW k \in Keys, NEW ttl \in TTLs, SetTTL(k, ttl)
  PROVE  StoreInv'
<1> DEFINE t == IF ttl > 0 THEN now + ttl ELSE 0
<1>1. t \in Nat
  BY StateTyped, TimeAssumption
<1>2. keyDir[k] \in KeyDirInfo
  BY DEF SetTTL, Live, StoreInv, TypeOK
<1>3. /\ keyDir' = [keyDir EXCEPT ![k].TTL = t]
      /\ UNCHANGED <<files, log, activeFileID, pending, expiring, now>>
  BY DEF SetTTL, disk
<1>4. /\ keyDir' = [j \in Keys |-> keyDir'[j]]
      /\ keyDir'[k] = [keyDir[k] EXCEPT !.TTL = t]
      /\ \A j \in Keys : j # k => keyDir'[j] = keyDir[j]
  BY <1>3, StateTyped
<1>5. /\ keyDir'[k] \in KeyDirInfo
      /\ keyDir'[k].FileID = keyDir[k].FileID /\ keyDir'[k].ValuePos = keyDir[k].ValuePos
      /\ keyDir'[k].Timestamp = keyDir[k].Timestamp /\ keyDir'[k].Deleted = keyDir[k].Deleted
  BY <1>1, <1>2, <1>4 DEF KeyDirInfo
<1>6. keyDir'[k] # None /\ keyDir[k] # None
  BY <1>2, <1>5, NoneAssumption
<1>7. TypeOK'
  <2>1. \A j \in Keys : keyDir'[j] \in KeyDirInfo \cup {None}
    BY <1>4, <1>5 DEF StoreInv, TypeOK
  <2> QED
    BY <1>3, <1>4, <2>1 DEF StoreInv, TypeOK
<1>8. IndexExact'
  BY <1>3, <1>4, <1>5, <1>6 DEF StoreInv, IndexExact, Live
<1>9. IsNewest(files, activeFileID)' /\ AllWinners(log)' /\ SameKeys'
  BY <1>3, <1>4, <1>6 DEF StoreInv, IsNewest, AllWinners, Winners, IsWinner, SameKeys, EntriesOf, Beats, Before
<1>10. AtLast'
  <2> SUFFICES ASSUME Plain, NEW j \in Keys, InOrder(j), keyDir'[j] # None
               PROVE  \E e \in log : StandsFor(keyDir'[j], log, j, e)
    BY <1>3 DEF AtLast, InOrder, StandsFor, IsLastOf, EntriesOf, Before, IsTomb, Plain
  <2>1. keyDir[j] # None
    BY <1>4, <1>6
  <2>2. PICK e \in log : StandsFor(keyDir[j], log, j, e)
    BY <2>1 DEF StoreInv, AtLast
  <2>3. StandsFor(keyDir'[j], log, j, e)
    BY <1>4, <1>5, <2>2 DEF StandsFor
  <2> QED
    BY <2>3
<1>11. Readable(log)' /\ LiveValues'
  BY <1>3, <1>4, <1>5, <1>6 DEF StoreInv, Readable, LiveValues, Plain
<1> QED
  BY <1>7, <1>8, <1>9, <1>10, <1>11 DEF StoreInv

\* The entry the index holds for k is there and EntryAt finds it.
LEMMA EntryAtIs ==
  ASSUME StoreInv, NEW k \in Keys, keyDir[k] # None
  PROVE  LET e == EntryAt(keyDir[k].FileID, keyDir[k].ValuePos)
         IN  /\ e \in log /\ e \in Entry /\ e.key = k
             /\ e.file = keyDir[k].FileID /\ e.pos = keyDir[k].ValuePos
<1>1. PICK e \in log : e.key = k /\ e.file = keyDir[k].FileID /\ e.pos = keyDir[k].ValuePos
  BY DEF StoreInv, IndexExact
<1>2. \A d \in log : d.file = keyDir[k].FileID /\ d.pos = keyDir[k].ValuePos => d = e
  BY <1>1 DEF StoreInv, IndexExact
<1>3. EntryAt(keyDir[k].FileID, keyDir[k].ValuePos) = e
  BY <1>1, <1>2 DEF EntryAt
<1> QED
  BY <1>1, <1>3 DEF StoreInv, TypeOK

\* The entry e that compaction writes at place p for the active key k.
RewrittenFrom(e, k, p) ==
  /\ keyDir[k] \in KeyDirInfo
  /\ e \in Entry /\ e.key = k /\ e.file = 1 /\ e.pos = p
  /\ e.ts = keyDir[k].Timestamp /\ e.ttl = keyDir[k].TTL
  /\ e.val = EntryAt(keyDir[k].FileID, keyDir[k].ValuePos).val
  /\ e.pos < Cardinality(ActiveKeys) /\ e.readable = TRUE

\* What compaction writes: one entry for each active key, each in a place of its own.
LEMMA RewrittenTyped ==
  ASSUME StoreInv, NEW ord \in Orders(ActiveKeys)
  PROVE  /\ ActiveKeys \subseteq Keys /\ Cardinality(ActiveKeys) \in Nat
         /\ \A k \in ActiveKeys : RewrittenFrom(Rewritten(k, ord[k]), k, ord[k])
         /\ \A j, k \in ActiveKeys : ord[j] = ord[k] => j = k
<1>1. ActiveKeys \subseteq Keys /\ \A k \in ActiveKeys : keyDir[k] # None
  BY DEF ActiveKeys, Live
<1>2. Cardinality(ActiveKeys) \in Nat
  BY <1>1, KeysAssumption, FS_Subset, FS_CardinalityType
<1>3. /\ \A k \in ActiveKeys : ord[k] \in Nat /\ ord[k] < Cardinality(ActiveKeys)
      /\ \A j, k \in ActiveKeys : ord[j] = ord[k] => j = k
  BY <1>2 DEF Orders, Bijection, Injection, IsInjective
<1>4. \A k \in ActiveKeys : /\ keyDir[k] \in KeyDirInfo
                            /\ EntryAt(keyDir[k].FileID, keyDir[k].ValuePos) \in Entry
  BY <1>1, EntryAtIs DEF StoreInv, TypeOK
<1> QED
  BY <1>1, <1>2, <1>3, <1>4 DEF Rewritten, PutEntry, Entry, KeyDirInfo, RewrittenFrom

\* Compaction keeps the invariant.
LEMMA CompactInv ==
  ASSUME StoreInv, NEW ord \in Orders(ActiveKeys), Compact(ord)
  PROVE  StoreInv'
<1> DEFINE S == ActiveKeys
           E(k) == Rewritten(k, ord[k])
           n == Cardinality(S)
           L == {E(k) : k \in S}
<1>1. /\ files' = [f \in {1} |-> n] /\ log' = L /\ activeFileID' = 1
      /\ keyDir' = [k \in Keys |-> IF k \in S THEN Info(E(k), FALSE) ELSE None]
      /\ UNCHANGED <<pending, expiring, now>>
  BY DEF Compact
<1>2. /\ S \subseteq Keys /\ n \in Nat
      /\ \A k \in S : RewrittenFrom(E(k), k, ord[k])
      /\ \A j, k \in S : ord[j] = ord[k] => j = k
  BY RewrittenTyped
<1>20. \A k \in S : /\ keyDir[k] \in KeyDirInfo
                    /\ E(k) \in Entry /\ E(k).key = k /\ E(k).file = 1 /\ E(k).pos = ord[k]
                    /\ E(k).val = EntryAt(keyDir[k].FileID, keyDir[k].ValuePos).val
                    /\ E(k).pos < n /\ E(k).readable = TRUE
  BY <1>2 DEF RewrittenFrom
<1>3. ASSUME NEW k \in S
      PROVE  /\ E(k) \in L /\ EntriesOf(L, k) = {E(k)}
             /\ keyDir'[k] = Info(E(k), FALSE)
             /\ keyDir'[k] \in KeyDirInfo /\ keyDir'[k] # None
             /\ keyDir'[k].FileID = 1 /\ keyDir'[k].ValuePos = E(k).pos
             /\ keyDir'[k].Timestamp = E(k).ts /\ keyDir'[k].Deleted = FALSE
  <2>1. E(k) \in L /\ EntriesOf(L, k) = {E(k)}
    BY <1>20 DEF EntriesOf
  <2>2. keyDir'[k] = Info(E(k), FALSE)
    BY <1>1, <1>2, <1>20
  <2>3. E(k) \in Entry /\ E(k).file = 1
    BY <1>20
  <2>4. /\ Info(E(k), FALSE) \in KeyDirInfo /\ Info(E(k), FALSE) # None
        /\ Info(E(k), FALSE).FileID = E(k).file /\ Info(E(k), FALSE).ValuePos = E(k).pos
        /\ Info(E(k), FALSE).Timestamp = E(k).ts /\ Info(E(k), FALSE).Deleted = FALSE
    BY <2>3, InfoType
  <2> QED
    BY <2>1, <2>2, <2>3, <2>4
<1>4. ASSUME NEW k \in Keys, k \notin S
      PROVE  keyDir'[k] = None /\ EntriesOf(L, k) = {}
  BY <1>1, <1>2, <1>20, <1>4 DEF EntriesOf
<1>5. ASSUME NEW k \in S
      PROVE  E(k).val # Tombstone \/ ~Plain
  <2> DEFINE d == EntryAt(keyDir[k].FileID, keyDir[k].ValuePos)
  <2>1. k \in Keys /\ keyDir[k] # None /\ keyDir[k].Deleted = FALSE
    BY <1>2, <1>20 DEF ActiveKeys, Live, KeyDirInfo
  <2>2. d \in log /\ d.file = keyDir[k].FileID /\ d.pos = keyDir[k].ValuePos
    BY <2>1, EntryAtIs
  <2>3. d.val # Tombstone \/ ~Plain
    BY <2>1, <2>2 DEF StoreInv, LiveValues
  <2> QED
    BY <1>2, <1>20, <2>3
<1>6. DiskOK(files', log')
  <2>1. \A d, e \in L : d.file = e.file /\ d.pos = e.pos => d = e
    BY <1>2, <1>20
  <2>2. \A e \in L : e \in Entry /\ e.file \in DOMAIN files' /\ e.pos < files'[e.file]
    BY <1>1, <1>2, <1>20
  <2>3. DOMAIN files' \subseteq Nat /\ files' \in [DOMAIN files' -> Nat]
    BY <1>1, <1>2, <1>20
  <2> QED
    BY <1>1, <2>1, <2>2, <2>3 DEF DiskOK
<1>7. TypeOK'
  <2>1. keyDir' = [k \in Keys |-> keyDir'[k]] /\ \A k \in Keys : keyDir'[k] \in KeyDirInfo \cup {None}
    BY <1>1, <1>3, <1>4
  <2>2. activeFileID' \in DOMAIN files'
    BY <1>1
  <2> QED
    BY <1>1, <1>6, <2>1, <2>2 DEF StoreInv, TypeOK, DiskOK
<1>8. IndexExact'
  <2>1. ASSUME NEW k \in Keys, keyDir'[k] # None
        PROVE  \E e \in L : /\ e.key = k
                            /\ e.file = keyDir'[k].FileID /\ e.pos = keyDir'[k].ValuePos
                            /\ e.ts = keyDir'[k].Timestamp
    <3>1. k \in S
      BY <1>4, <2>1
    <3>2. /\ E(k) \in L /\ E(k).key = k
          /\ E(k).file = keyDir'[k].FileID /\ E(k).pos = keyDir'[k].ValuePos
          /\ E(k).ts = keyDir'[k].Timestamp
      BY <1>20, <1>3, <3>1
    <3> QED
      BY <3>2
  <2> QED
    BY <1>1, <1>6, <2>1 DEF IndexExact, DiskOK
<1>9. IsNewest(files, activeFileID)'
  BY <1>1 DEF IsNewest
<1>10. AllWinners(log)'
  <2>1. ASSUME NEW M \in SUBSET L, NEW k \in Keys, EntriesOf(M, k) # {}
        PROVE  \E w \in M : IsWinner(M, k, w)
    <3>1. PICK w \in M : w.key = k
      BY <2>1 DEF EntriesOf
    <3>2. k \in S
      BY <1>4, <3>1 DEF EntriesOf
    <3>4. w \in EntriesOf(L, k) /\ \A d \in EntriesOf(M, k) : d \in EntriesOf(L, k)
      BY <3>1 DEF EntriesOf
    <3>5. EntriesOf(L, k) = {E(k)}
      BY <1>3, <3>2
    <3>3. \A d \in EntriesOf(M, k) : d = w
      BY <3>4, <3>5
    <3> QED
      BY <3>1, <3>3 DEF IsWinner, EntriesOf
  <2>2. AllWinners(L)
    BY <2>1 DEF AllWinners, Winners
  <2>3. log' = L
    BY <1>1
  <2> QED
    BY <2>2, <2>3, WinnersNext
<1>11. SameKeys'
  <2>1. \A k \in Keys : keyDir'[k] = None <=> EntriesOf(L, k) = {}
    BY <1>3, <1>4
  <2> QED
    BY <1>1, <2>1 DEF SameKeys, EntriesOf
<1>12. AtLast'
  <2>1. ASSUME Plain, NEW k \in Keys, keyDir'[k] # None
        PROVE  \E e \in L : StandsFor(keyDir'[k], L, k, e)
    <3>1. k \in S
      BY <1>4, <2>1
    <3>5. EntriesOf(L, k) = {E(k)}
      BY <1>3, <3>1
    <3>2. IsLastOf(L, k, E(k))
      BY <3>5 DEF IsLastOf
    <3>3. IsTomb(E(k), FALSE) = FALSE
      BY <1>5, <2>1, <3>1 DEF IsTomb
    <3>4. StandsFor(keyDir'[k], L, k, E(k))
      BY <1>2, <1>20, <1>3, <3>1, <3>2, <3>3 DEF StandsFor
    <3> QED
      BY <1>3, <3>1, <3>4
  <2> QED
    BY <1>1, <2>1 DEF AtLast, InOrder, StandsFor, IsLastOf, EntriesOf, Before, IsTomb, Plain
<1>13. Readable(log)'
  BY <1>1, <1>2, <1>20 DEF Readable, Plain
<1>14. LiveValues'
  <2>1. ASSUME Plain, NEW e \in L
        PROVE  e.val # Tombstone
    BY <1>5, <2>1
  <2> QED
    BY <1>1, <2>1 DEF LiveValues, Plain
<1> QED
  BY <1>7, <1>8, <1>9, <1>10, <1>11, <1>12, <1>13, <1>14 DEF StoreInv
---------------------------------------------------------------------------
\* A restart, on the disk as it is or with what an interrupted write left at its end.
LEMMA RestartInv ==
  ASSUME StoreInv, Restart
  PROVE  StoreInv'
<1>1. DiskOK(files, log) /\ now \in Nat \ {0}
  BY StateTyped
<1> QED
  BY <1>1, OpenInv DEF StoreInv, Restart

\* A step in which the process stops after it wrote the fresh entries B to file id, and
\* starts again.
Interrupted(id, n, B) ==
  /\ id \in {activeFileID, activeFileID + 1} /\ n \in Nat /\ Fresh(B, id, n)
  /\ \A e \in B : e.readable = TRUE
  /\ Open(Grow(id, n), log \cup B)
  /\ UNCHANGED now

\* Such a step keeps the invariant.
LEMMA InterruptedInv ==
  ASSUME StoreInv, NEW id, NEW n, NEW B, Interrupted(id, n, B)
  PROVE  StoreInv'
<1>0. /\ id \in {activeFileID, activeFileID + 1} /\ n \in Nat /\ Fresh(B, id, n)
      /\ \A e \in B : e.readable = TRUE
      /\ Open(Grow(id, n), log \cup B)
      /\ UNCHANGED now
  BY DEF Interrupted
<1>1. DiskOK(files, log) /\ now \in Nat \ {0}
  BY StateTyped
<1>2. DiskOK(Grow(id, n), log \cup B) /\ IsNewest(Grow(id, n), id)
  BY <1>0, <1>1, AppendDisk DEF StoreInv
<1>3. AllWinners(log \cup B)
  BY <1>0, <1>2, AppendWinners DEF StoreInv, Fresh
<1>4. Readable(log \cup B)
  BY <1>0 DEF StoreInv, Readable
<1> QED
  BY <1>0, <1>1, <1>2, <1>3, <1>4, OpenInv

\* A crash between the append of a put and its index update.
LEMMA CrashWritingInv ==
  ASSUME StoreInv, NEW r \in PutRequest, CrashWriting(r), UNCHANGED now
  PROVE  StoreInv'
<1> DEFINE id == FileFor(1)
           e == PutEntry(id, SizeAt(id), r.key, r.val, r.ts, r.ttl)
<1>1. id \in {activeFileID, activeFileID + 1}
  BY DEF FileFor
<1>2. id \in Nat /\ SizeAt(id) \in Nat
  BY <1>1, StateTyped
<1>3. e \in Entry /\ e.file = id /\ e.pos = SizeAt(id) /\ e.readable = TRUE
  BY <1>2 DEF PutEntry, Entry, PutRequest
<1>4. Fresh({e}, id, 1)
  BY <1>1, <1>3, OneFresh
<1>5. Open(Grow(id, 1), log \cup {e})
  BY DEF CrashWriting
<1>6. Interrupted(id, 1, {e})
  BY <1>1, <1>3, <1>4, <1>5 DEF Interrupted
<1> QED
  BY <1>6, InterruptedInv

\* A crash inside a batch, after some of its entries.
LEMMA CrashInBatchInv ==
  ASSUME StoreInv, NEW items \in Batches, NEW ord \in Orders(DOMAIN items),
         NEW n \in 1 .. Cardinality(DOMAIN items), CrashInBatch(items, ord, n)
  PROVE  StoreInv'
<1> DEFINE id == FileFor(Cardinality(DOMAIN items))
           W == {k \in DOMAIN items : ord[k] < n}
           B == {e \in BatchEntries(id, items, ord) : e.key \in W}
<1>1. id \in {activeFileID, activeFileID + 1} /\ n \in Nat
  BY DEF FileFor
<1>2. /\ Fresh(B, id, n)
      /\ \A k \in DOMAIN items :
           PutEntry(id, SizeAt(id) + ord[k], k, items[k], now, 0).readable = TRUE
  BY <1>1, BatchFresh
<1>3. \A e \in B : e.readable = TRUE
  BY <1>2 DEF BatchEntries
<1>4. Open(Grow(id, n), log \cup B) /\ UNCHANGED now
  BY DEF CrashInBatch
<1>5. Interrupted(id, n, B)
  BY <1>1, <1>2, <1>3, <1>4 DEF Interrupted
<1> QED
  BY <1>5, InterruptedInv
\* A crash inside a compaction, with the files below m gone.
LEMMA CrashInCompactInv ==
  ASSUME StoreInv, NEW m \in Nat, CrashInCompact(m)
  PROVE  StoreInv'
<1> DEFINE S == {f \in DOMAIN files : f >= m}
           L == InFiles(log, S)
<1>1. DiskOK(files, log) /\ now \in Nat \ {0} /\ now' = now /\ S \subseteq Nat
  BY StateTyped DEF CrashInCompact, DiskOK
<1>2. AllWinners(L)
  BY DEF StoreInv, AllWinners, InFiles
<1>3. Readable(L)
  BY DEF StoreInv, Readable, InFiles
<1>4. CASE S = {}
  <2> DEFINE fs == [f \in {0} |-> 0]
  <2>1. L = {}
    BY <1>4 DEF InFiles
  <2>2. DiskOK(fs, L) /\ IsNewest(fs, 0)
    BY <2>1 DEF DiskOK, IsNewest
  <2>3. Open(fs, L)
    BY <1>4 DEF CrashInCompact
  <2> QED
    BY <1>1, <1>2, <1>3, <2>2, <2>3, OpenInv
<1>5. CASE S # {}
  <2> DEFINE fs == [f \in S |-> files[f]]
  <2>1. activeFileID \in S
    BY <1>1, <1>5 DEF StoreInv, IsNewest, DiskOK
  <2>2. IsNewest(fs, activeFileID)
    BY <2>1 DEF StoreInv, IsNewest
  <2>3. DiskOK(fs, L)
    <3>1. fs \in [DOMAIN fs -> Nat] /\ DOMAIN fs \subseteq Nat
      BY <1>1 DEF DiskOK
    <3>2. /\ L \subseteq Entry
          /\ \A d, e \in L : d.file = e.file /\ d.pos = e.pos => d = e
          /\ \A e \in L : e.file \in DOMAIN fs /\ e.pos < fs[e.file]
      BY <1>1 DEF DiskOK, InFiles
    <3> QED
      BY <3>1, <3>2 DEF DiskOK
  <2>4. Open(fs, L)
    BY <1>5 DEF CrashInCompact
  <2> QED
    BY <1>1, <1>2, <1>3, <2>2, <2>3, <2>4, OpenInv
<1> QED
  BY <1>4, <1>5
---------------------------------------------------------------------------
\* The empty data directory satisfies the invariant.
LEMMA InitInv == Init => StoreInv
<1> SUFFICES ASSUME Init
             PROVE  StoreInv
  OBVIOUS
<1>1. /\ files = [f \in {1} |-> 0] /\ log = {} /\ activeFileID = 1 /\ now = 1
      /\ \A k \in Keys : keyDir[k] = None
  BY DEF Init
<1>2. TypeOK
  BY DEF Init, TypeOK
<1>3. IndexExact
  BY <1>1 DEF IndexExact, Live
<1>4. IsNewest(files, activeFileID) /\ AllWinners(log) /\ SameKeys
  BY <1>1 DEF IsNewest, AllWinners, Winners, SameKeys, EntriesOf
<1>5. AtLast /\ Readable(log) /\ LiveValues
  BY <1>1 DEF AtLast, Readable, LiveValues
<1> QED
  BY <1>2, <1>3, <1>4, <1>5 DEF StoreInv

\* Every step keeps the invariant.
LEMMA NextInv == StoreInv /\ [Next]_vars => StoreInv'
<1> SUFFICES ASSUME StoreInv, [Next]_vars
             PROVE  StoreInv'
  OBVIOUS
<1>0. /\ pending \in [Clients -> PutRequest \cup {None}]
      /\ expiring \in [Keys -> Nat]
      /\ now \in Nat \ {0}
  BY DEF StoreInv, TypeOK
<1>1. CASE Tick
  <2>1. OthersTyped /\ UNCHANGED <<files, log, activeFileID, keyDir>>
    BY <1>0, <1>1 DEF Tick, OthersTyped, disk
  <2> QED
    BY <2>1, IdleInv
<1>2. ASSUME NEW c \in Clients, NEW k \in Keys, NEW v \in Values, NEW ttl \in TTLs,
             BeginPut(c, k, v, ttl)
      PROVE  StoreInv'
  <2>1. OthersTyped /\ UNCHANGED <<files, log, activeFileID, keyDir>>
    BY <1>0, <1>2, StampTyped DEF BeginPut, OthersTyped, disk
  <2> QED
    BY <2>1, IdleInv
<1>3. ASSUME NEW c \in Clients, EndPut(c)
      PROVE  StoreInv'
  <2>1. pending[c] \in PutRequest
    BY <1>0, <1>3 DEF EndPut
  <2>2. OthersTyped
    BY <1>0, <1>3 DEF EndPut, OthersTyped
  <2>3. WritePut(pending[c])
    BY <1>3 DEF EndPut
  <2> QED
    BY <2>1, <2>2, <2>3, WritePutInv
<1>4. ASSUME NEW c \in Clients, CrashInPut(c)
      PROVE  StoreInv'
  <2>1. pending[c] \in PutRequest
    BY <1>0, <1>4 DEF CrashInPut
  <2>2. CrashWriting(pending[c]) /\ UNCHANGED now
    BY <1>4 DEF CrashInPut, CrashWriting
  <2> QED
    BY <2>1, <2>2, CrashWritingInv
<1>5. ASSUME NEW items \in Batches, NEW ord \in Orders(DOMAIN items), BatchPut(items, ord)
      PROVE  StoreInv'
  BY <1>5, BatchPutInv
<1>6. ASSUME NEW items \in Batches, NEW ord \in Orders(DOMAIN items),
             NEW n \in 1 .. Cardinality(DOMAIN items), CrashInBatch(items, ord, n)
      PROVE  StoreInv'
  BY <1>6, CrashInBatchInv
<1>7. ASSUME NEW k \in Keys, Delete(k)
      PROVE  StoreInv'
  <2>1. OthersTyped /\ keyDir[k] # None /\ WriteTombstone(k)
    BY <1>0, <1>7 DEF Delete, OthersTyped
  <2> QED
    BY <2>1, WriteTombstoneInv
<1>8. ASSUME NEW k \in Keys, NEW ttl \in TTLs, SetTTL(k, ttl)
      PROVE  StoreInv'
  BY <1>8, SetTTLInv
<1>9. ASSUME NEW k \in Keys, GetExpired(k)
      PROVE  StoreInv'
  <2>1. OthersTyped /\ UNCHANGED <<files, log, activeFileID, keyDir>>
    BY <1>0, <1>9 DEF GetExpired, OthersTyped, disk
  <2> QED
    BY <2>1, IdleInv
<1>10. ASSUME NEW k \in Keys, ExpireKey(k)
       PROVE  StoreInv'
  <2>1. OthersTyped
    BY <1>0, <1>10 DEF ExpireKey, OthersTyped
  <2>2. CASE Live(k)
    BY <1>10, <2>1, <2>2, WriteTombstoneInv DEF ExpireKey, Live
  <2>3. CASE ~Live(k)
    <3>1. UNCHANGED <<files, log, activeFileID, keyDir>>
      BY <1>10, <2>3 DEF ExpireKey, disk
    <3> QED
      BY <2>1, <3>1, IdleInv
  <2> QED
    BY <2>2, <2>3
<1>11. ASSUME NEW ord \in Orders(ActiveKeys), Compact(ord)
       PROVE  StoreInv'
  BY <1>11, CompactInv
<1>14. ASSUME NEW m \in DOMAIN files, CrashInCompact(m + 1)
       PROVE  StoreInv'
  <2>1. m + 1 \in Nat
    BY DEF StoreInv, TypeOK
  <2> QED
    BY <1>14, <2>1, CrashInCompactInv
<1>12. CASE Restart
  BY <1>12, RestartInv
<1>13. CASE UNCHANGED vars
  <2>1. OthersTyped /\ UNCHANGED <<files, log, activeFileID, keyDir>>
    BY <1>0, <1>13 DEF vars, OthersTyped
  <2> QED
    BY <2>1, IdleInv
<1> QED
  BY <1>1, <1>2, <1>3, <1>4, <1>5, <1>6, <1>7, <1>8, <1>9, <1>10, <1>11, <1>12, <1>13,
     <1>14
  DEF Next

\* The invariant of the store.
THEOREM StoreInvariant == Spec => []StoreInv
<1> QED
  BY InitInv, NextInv, PTL DEF Spec

\* The variables of the store always hold what their declarations say.
THEOREM TypeCorrect == Spec => []TypeOK
<1>1. StoreInv => TypeOK
  BY DEF StoreInv
<1> QED
  BY <1>1, StoreInvariant, PTL

\* The index always points at an entry of its key, and no two entries share a place.
THEOREM IndexIsExact == Spec => []IndexExact
<1>1. StoreInv => IndexExact
  BY DEF StoreInv
<1> QED
  BY <1>1, StoreInvariant, PTL

\* A restart finds what the index holds, for every key written in timestamp order.
LEMMA StoreRecovers == StoreInv => RecoveryExact
<1> SUFFICES ASSUME StoreInv, Plain, NEW k \in Keys, InOrder(k)
             PROVE  LET r == RebuildKeyDir(log, FALSE)[k]
                    IN  /\ r = None <=> keyDir[k] = None
                        /\ r # None => (r.Deleted <=> keyDir[k].Deleted)
                        /\ Live(k) => r.FileID = keyDir[k].FileID /\ r.ValuePos = keyDir[k].ValuePos
  BY DEF RecoveryExact, Plain
<1> DEFINE r == RebuildKeyDir(log, FALSE)[k]
<1>1. CASE keyDir[k] = None
  <2>1. EntriesOf(log, k) = {}
    BY <1>1 DEF StoreInv, SameKeys
  <2>2. r = None
    BY <2>1 DEF RebuildKeyDir
  <2> QED
    BY <1>1, <2>2 DEF Live
<1>2. CASE keyDir[k] # None
  <2>1. PICK e \in log : StandsFor(keyDir[k], log, k, e)
    BY <1>2 DEF StoreInv, AtLast
  <2>2. DiskOK(files, log) /\ IsLastOf(log, k, e)
    BY <2>1, StateTyped DEF StandsFor
  <2>3. IsWinner(log, k, e)
    BY <2>2, WinnerLast DEF InOrder
  <2>4. Winner(log, k) = e
    BY <2>2, <2>3, WinnerIs
  <2>5. EntriesOf(log, k) # {} /\ e \in Entry /\ IsTomb(e, FALSE) \in BOOLEAN
    BY <2>2 DEF IsLastOf, DiskOK, IsTomb
  <2>6. r = Info(e, IsTomb(e, FALSE))
    BY <2>4, <2>5 DEF RebuildKeyDir
  <2>7. /\ r # None /\ r.FileID = e.file /\ r.ValuePos = e.pos
        /\ r.Deleted = IsTomb(e, FALSE)
    BY <2>5, <2>6, InfoType
  <2>8. r.Deleted = keyDir[k].Deleted
    BY <2>1, <2>7 DEF StandsFor
  <2>9. Live(k) => e.file = keyDir[k].FileID /\ e.pos = keyDir[k].ValuePos
    <3>1. keyDir[k] \in KeyDirInfo
      BY <1>2 DEF StoreInv, TypeOK
    <3> QED
      BY <2>1, <3>1 DEF StandsFor, Live, KeyDirInfo
  <2> QED
    BY <1>2, <2>7, <2>8, <2>9
<1> QED
  BY <1>1, <1>2

\* In every reachable state of the store.
THEOREM RecoveryIsExact == Spec => []RecoveryExact
<1> QED
  BY StoreRecovers, StoreInvariant, PTL

\* The value and the deadline of every key survive a compaction.
LEMMA CompactReads ==
  ASSUME StoreInv, NEW ord \in Orders(ActiveKeys), Compact(ord), NEW k \in Keys
  PROVE  Read(k)' = Read(k)
<1> DEFINE e == Rewritten(k, ord[k])
           d == EntryAt(keyDir[k].FileID, keyDir[k].ValuePos)
<1>1. /\ log' = {Rewritten(j, ord[j]) : j \in ActiveKeys}
      /\ keyDir' = [j \in Keys |-> IF j \in ActiveKeys THEN Info(Rewritten(j, ord[j]), FALSE)
                                                      ELSE None]
      /\ now' = now /\ now \in Nat
  BY StateTyped DEF Compact
<1>2. CASE k \in ActiveKeys
  <2>1. RewrittenFrom(e, k, ord[k])
    BY <1>2, RewrittenTyped
  <2>2. /\ keyDir[k] \in KeyDirInfo /\ e \in Entry /\ e.file = 1 /\ e.pos = ord[k]
        /\ e.ttl = keyDir[k].TTL /\ e.val = d.val
    BY <2>1 DEF RewrittenFrom
  <2>3. keyDir'[k] = Info(e, FALSE)
    BY <1>1, <1>2
  <2>4. /\ keyDir'[k] # None /\ keyDir'[k].Deleted = FALSE
        /\ keyDir'[k].FileID = 1 /\ keyDir'[k].ValuePos = ord[k]
        /\ keyDir'[k].TTL = keyDir[k].TTL
    BY <2>2, <2>3, InfoType
  <2>5. e \in log'
    BY <1>1, <1>2
  <2>6. ASSUME NEW x \in log', x.file = 1, x.pos = ord[k]
        PROVE  x = e
    <3>1. PICK j \in ActiveKeys : x = Rewritten(j, ord[j])
      BY <1>1
    <3>2. RewrittenFrom(x, j, ord[j])
      BY <3>1, RewrittenTyped
    <3>3. ord[j] = ord[k]
      BY <2>6, <3>2 DEF RewrittenFrom
    <3>4. j = k
      BY <1>2, <3>3, RewrittenTyped
    <3> QED
      BY <3>1, <3>4
  <2>7. EntryAt(keyDir[k].FileID, keyDir[k].ValuePos)' = e
    BY <2>2, <2>4, <2>5, <2>6 DEF EntryAt
  <2>8. Live(k)' /\ Live(k)
    BY <1>2, <2>4 DEF Live, ActiveKeys
  <2>9. Expired(k)' <=> Expired(k)
    BY <1>1, <2>4 DEF Expired
  <2> QED
    BY <2>2, <2>4, <2>7, <2>8, <2>9 DEF Read
<1>3. CASE k \notin ActiveKeys
  <2>1. ~Live(k)'
    BY <1>1, <1>3 DEF Live
  <2>2. ~Live(k) \/ Expired(k)
    <3>1. Live(k) => keyDir[k] \in KeyDirInfo
      BY DEF StoreInv, TypeOK, Live
    <3>2. Live(k) => keyDir[k].TTL \in Nat
      BY <3>1 DEF KeyDirInfo
    <3> QED
      BY <1>1, <1>3, <3>2 DEF ActiveKeys, Expired
  <2> QED
    BY <2>1, <2>2 DEF Read
<1> QED
  BY <1>2, <1>3

\* Compaction changes no answer of Get, for any key, in any reachable state.
THEOREM CompactionKeepsReads == Spec => CompactKeepsReads
<1>1. StoreInv /\ [Next]_vars =>
        [(\E ord \in Orders(ActiveKeys) : Compact(ord))
            => \A k \in Keys : Read(k)' = Read(k)]_vars
  BY CompactReads
<1> QED
  BY <1>1, StoreInvariant, PTL DEF Spec, CompactKeepsReads
===========================================================================
