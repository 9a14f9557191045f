-------------------------- MODULE GojiFaultsProofs --------------------------
(***************************************************************************)
(* Proofs about GojiFaults, for callers who do not put the tombstone value *)
(* and a configuration without compression.  The inductive invariant       *)
(* FaultsInv says of every key whose value is known that the index gives   *)
(* that value, and of those whose entries are all in files the engine      *)
(* knows of that one entry with that value comes after the others and is   *)
(* no older: a start-up scan that sees it ends at it.  What is written and *)
(* not indexed, lost, misread or cut off belongs to keys not known; what a *)
(* compaction could not remove, to stale ones.                             *)
(***************************************************************************)
EXTENDS GojiFaults, GojiStoreProofs

IsLive(i) == i # None /\ i.Deleted = FALSE

\* A lone caller's entries without expiry and without compression, at time t.
Sound(e, t) == e.ts <= t /\ e.ttl = 0 /\ e.readable = TRUE

DiskInv(fs, L, t) ==
  /\ DiskOK(fs, L)
  /\ \A e \in L : Sound(e, t)
  /\ AllWinners(L)

\* Whatever files go, one of those left is the newest.
AllNewest(fs) == \A S \in SUBSET DOMAIN fs : S # {} => \E m \in S : \A f \in S : f <= m

IndexOK(i, t) == i = None \/ (i \in KeyDirInfo /\ i.TTL = 0 /\ i.Timestamp <= t)

\* The index record i of the key k gives the value a, of the entries in L.
Holds(i, a, L, k) ==
  IF a = None THEN ~IsLive(i)
  ELSE IsLive(i) /\ \E e \in L : /\ e.key = k /\ e.file = i.FileID /\ e.pos = i.ValuePos
                                 /\ e.val = a

\* The entry w of k comes after the others and is no older.
IsTop(L, k, w) ==
  /\ w \in EntriesOf(L, k)
  /\ \A d \in EntriesOf(L, k) : d = w \/ (Before(d, w) /\ d.ts <= w.ts)

ValueOf(w) == IF w.val = Tombstone THEN None ELSE w.val

\* The entries of k in L come to the value a.
ComesTo(a, L, k) ==
  \/ EntriesOf(L, k) = {} /\ a = None
  \/ \E w \in L : IsTop(L, k, w) /\ a = ValueOf(w)

KeyInv(k) ==
  /\ IndexOK(keyDir[k], now)
  /\ Known(k) => Holds(keyDir[k], acked[k], log, k)
  /\ Known(k) /\ k \notin stale => ComesTo(acked[k], log, k)

\* The engine knows of no file beyond the active one.
AtEnd(id, fs, L, S) == id \in DOMAIN fs /\ \A d \in L : d.key \notin S => d.file <= id

FaultsInv ==
  /\ now \in Nat \ {0}
  /\ DiskInv(files, log, now)
  /\ AllNewest(files)
  /\ open => AtEnd(activeFileID, files, log, stale)
  /\ keyDir = [k \in Keys |-> keyDir[k]]
  /\ acked \in [Keys -> Values \cup {None, Unsure}]
  /\ \A k \in Keys : KeyInv(k)

\* KeyInv in the next state, whose entries are L.
KeyNext(k, L) ==
  /\ IndexOK(keyDir'[k], now')
  /\ acked'[k] # Unsure /\ k \notin harmed' => Holds(keyDir'[k], acked'[k], L, k)
  /\ acked'[k] # Unsure /\ k \notin harmed' /\ k \notin stale' => ComesTo(acked'[k], L, k)
---------------------------------------------------------------------------
\* The invariant in the next state, from what the step leaves.
LEMMA FaultsInvNext ==
  ASSUME NEW fs, NEW L, files' = fs, log' = L, now' \in Nat \ {0}, DiskInv(fs, L, now'),
         AllNewest(fs), open' => AtEnd(activeFileID', fs, L, stale'),
         keyDir' = [k \in Keys |-> keyDir'[k]],
         acked' \in [Keys -> Values \cup {None, Unsure}],
         \A k \in Keys : KeyNext(k, L)
  PROVE  FaultsInv'
<1>1. DiskInv(files, log, now)'
  BY DEF DiskInv, DiskOK, Sound, AllWinners, Winners, IsWinner, EntriesOf, Beats, Before
<1>2. AllNewest(files)' /\ (open => AtEnd(activeFileID, files, log, stale))'
  BY DEF AllNewest, AtEnd
<1>3. ASSUME NEW k \in Keys
      PROVE  KeyInv(k)'
  <2>1. KeyNext(k, L)
    OBVIOUS
  <2> QED
    BY <2>1 DEF KeyNext, KeyInv, IndexOK, Holds, ComesTo, ValueOf, IsLive, Known, IsTop,
                EntriesOf, Before
<1> QED
  BY <1>1, <1>2, <1>3 DEF FaultsInv

\* Live is what the index record says.
LEMMA LiveIs ==
  ASSUME NEW k \in Keys, KeyInv(k)
  PROVE  /\ Live(k) <=> IsLive(keyDir[k])
         /\ keyDir[k] # None => keyDir[k] \in KeyDirInfo
  BY DEF KeyInv, IndexOK, Live, IsLive, KeyDirInfo

\* A part of a disk, with the files it needs.
LEMMA PartDisk ==
  ASSUME NEW fs, NEW L, NEW t, DiskInv(fs, L, t), NEW M \in SUBSET L,
         NEW gs, DiskOK(gs, M)
  PROVE  DiskInv(gs, M, t)
  BY DEF DiskInv, AllWinners

\* One empty file.
LEMMA OneFile ==
  ASSUME NEW id \in Nat
  PROVE  LET fs == [f \in {id} |-> 0] IN DiskOK(fs, {}) /\ AllNewest(fs) /\ DOMAIN fs = {id}
<1> DEFINE fs == [f \in {id} |-> 0]
<1>1. DOMAIN fs = {id} /\ fs \in [DOMAIN fs -> Nat]
  OBVIOUS
<1>2. DiskOK(fs, {})
  BY <1>1 DEF DiskOK
<1>3. ASSUME NEW S \in SUBSET DOMAIN fs, S # {}
      PROVE  \E m \in S : \A f \in S : f <= m
  <2>1. S = {id}
    BY <1>1, <1>3
  <2> QED
    BY <2>1
<1> QED
  BY <1>1, <1>2, <1>3 DEF AllNewest

\* One more file.
LEMMA OneMoreFile ==
  ASSUME NEW fs, AllNewest(fs), DOMAIN fs \subseteq Nat, NEW id \in Nat,
         NEW gs, DOMAIN gs \subseteq DOMAIN fs \cup {id}
  PROVE  AllNewest(gs)
<1> SUFFICES ASSUME NEW S \in SUBSET (DOMAIN fs \cup {id}), S # {}
             PROVE  \E m \in S : \A f \in S : f <= m
  BY DEF AllNewest
<1>1. CASE id \notin S
  BY <1>1 DEF AllNewest
<1>2. CASE id \in S /\ S \ {id} = {}
  BY <1>2
<1>3. CASE id \in S /\ S \ {id} # {}
  <2>1. PICK m \in S \ {id} : \A f \in S \ {id} : f <= m
    BY <1>3 DEF AllNewest
  <2>2. m \in Nat /\ \A f \in S : f = id \/ f <= m
    BY <2>1
  <2>3. CASE m <= id
    BY <1>3, <2>2, <2>3
  <2>4. CASE id <= m
    BY <2>1, <2>2, <2>4
  <2> QED
    BY <2>2, <2>3, <2>4
<1> QED
  BY <1>1, <1>2, <1>3

\* Entries written now to the end of the active file or of the next one.
Written(B, id, n) ==
  /\ id \in {activeFileID, activeFileID + 1} /\ n \in Nat /\ Fresh(B, id, n)
  /\ \A e \in B : e.ts = now /\ e.ttl = 0 /\ e.readable = TRUE

\* They come after all there is in the file they go to.
LEMMA GrownDisk ==
  ASSUME DiskOK(files, log), activeFileID \in Nat, NEW B, NEW id, NEW n, Written(B, id, n)
  PROVE  /\ DiskOK(Grow(id, n), log \cup B)
         /\ \A d \in log, e \in B : d.file <= id => Before(d, e)
<1> DEFINE fs == Grow(id, n)
<1>1. id \in Nat /\ n \in Nat /\ Fresh(B, id, n) /\ DOMAIN files \subseteq Nat
  BY DEF Written, DiskOK
<1>2. SizeAt(id) \in Nat /\ \A f \in DOMAIN files : SizeAt(f) = files[f] /\ files[f] \in Nat
  BY DEF DiskOK, SizeAt
<1>3. DOMAIN fs = DOMAIN files \cup {id}
  BY DEF Grow
<1>4. \A f \in DOMAIN fs : fs[f] = IF f = id THEN SizeAt(id) + n ELSE files[f]
  BY <1>2, <1>3 DEF Grow
<1>5. fs \in [DOMAIN fs -> Nat]
  <2>1. fs = [f \in DOMAIN fs |-> fs[f]]
    BY DEF Grow
  <2> QED
    BY <1>1, <1>2, <1>3, <1>4, <2>1
<1>6. \A d \in log : /\ d \in Entry /\ d.file \in DOMAIN files /\ d.file \in Nat
                     /\ d.pos \in Nat /\ d.pos < files[d.file]
  BY DEF DiskOK, Entry
<1>7. \A e \in B : /\ e \in Entry /\ e.file = id /\ e.pos \in Nat
                   /\ SizeAt(id) <= e.pos /\ e.pos < SizeAt(id) + n
  BY <1>1 DEF Fresh, Entry
<1>8. ASSUME NEW d \in log, NEW e \in B
      PROVE  /\ d.file = id => d.pos < e.pos
             /\ d.file <= id => Before(d, e)
  <2>1. d.file = id => d.pos < e.pos
    BY <1>2, <1>6, <1>7
  <2> QED
    BY <1>1, <1>6, <1>7, <2>1 DEF Before
<1>9. \A d, e \in log \cup B : d.file = e.file /\ d.pos = e.pos => d = e
  <2>1. \A d \in log, e \in B : ~(d.file = e.file /\ d.pos = e.pos)
    BY <1>6, <1>7, <1>8
  <2>2. \A d, e \in log : d.file = e.file /\ d.pos = e.pos => d = e
    BY DEF DiskOK
  <2>3. \A d, e \in B : d.pos = e.pos => d = e
    BY <1>1 DEF Fresh
  <2> QED
    BY <2>1, <2>2, <2>3
<1>10. \A e \in log \cup B : e.file \in DOMAIN fs /\ e.pos < fs[e.file]
  <2>1. ASSUME NEW e \in log
        PROVE  e.file \in DOMAIN fs /\ e.pos < fs[e.file]
    BY <1>1, <1>2, <1>3, <1>4, <1>6, <2>1
  <2>2. ASSUME NEW e \in B
        PROVE  e.file \in DOMAIN fs /\ e.pos < fs[e.file]
    BY <1>3, <1>4, <1>7, <2>2
  <2> QED
    BY <2>1, <2>2
<1> QED
  BY <1>1, <1>3, <1>5, <1>6, <1>7, <1>8, <1>9, <1>10 DEF DiskOK

\* A disk with such entries, of each key one at most.
LEMMA WrittenDisk ==
  ASSUME FaultsInv, open, NEW B, NEW id, NEW n, Written(B, id, n)
  PROVE  /\ DiskInv(Grow(id, n), log \cup B, now)
         /\ AllNewest(Grow(id, n))
         /\ AtEnd(id, Grow(id, n), log \cup B, stale)
         /\ \A d \in log, e \in B : d.key \notin stale => Before(d, e)
<1>1. /\ id \in {activeFileID, activeFileID + 1} /\ Fresh(B, id, n)
      /\ \A e \in B : e.ts = now /\ e.ttl = 0 /\ e.readable = TRUE
  BY DEF Written
<1>2. /\ DiskInv(files, log, now) /\ DiskOK(files, log) /\ AllNewest(files)
      /\ AtEnd(activeFileID, files, log, stale) /\ now \in Nat
  BY DEF FaultsInv, DiskInv
<1>3. activeFileID \in Nat /\ id \in Nat /\ DOMAIN files \subseteq Nat
  BY <1>1, <1>2 DEF AtEnd, DiskOK
<1>4. /\ DiskOK(Grow(id, n), log \cup B)
      /\ \A d \in log, e \in B : d.file <= id => Before(d, e)
  BY <1>2, <1>3, GrownDisk
<1>5. \A d \in log : d.key \notin stale => d.file <= id
  <2>1. \A d \in log : d.file \in Nat
    BY <1>2 DEF DiskOK, Entry
  <2> QED
    BY <1>1, <1>2, <1>3, <2>1 DEF AtEnd
<1>6. DOMAIN Grow(id, n) = DOMAIN files \cup {id}
  BY DEF Grow
<1>7. AllWinners(log \cup B)
  BY <1>1, <1>2, <1>4, AppendWinners DEF DiskInv, Fresh
<1>8. \A e \in log \cup B : Sound(e, now)
  BY <1>1, <1>2 DEF DiskInv, Sound
<1>9. AllNewest(Grow(id, n))
  BY <1>2, <1>3, <1>6, OneMoreFile
<1>10. AtEnd(id, Grow(id, n), log \cup B, stale)
  BY <1>1, <1>3, <1>5, <1>6 DEF AtEnd, Fresh
<1> QED
  BY <1>4, <1>5, <1>7, <1>8, <1>9, <1>10 DEF DiskInv
---------------------------------------------------------------------------
\* The scan takes the entry that comes after the others and is no older.
LEMMA TopWins ==
  ASSUME NEW fs, NEW L, DiskOK(fs, L), NEW k \in Keys, NEW w \in L, IsTop(L, k, w)
  PROVE  Winner(L, k) = w /\ w \in Entry /\ w.key = k /\ EntriesOf(L, k) # {}
<1>1. w \in EntriesOf(L, k) /\ w \in Entry /\ w.key = k
  BY DEF IsTop, EntriesOf, DiskOK
<1>2. IsWinner(L, k, w)
  <2> SUFFICES ASSUME NEW d \in EntriesOf(L, k), d # w
               PROVE  Beats(w, d)
    BY <1>1 DEF IsWinner
  <2>1. Before(d, w) /\ d.ts <= w.ts
    BY DEF IsTop
  <2>2. d.ts \in Nat /\ w.ts \in Nat
    BY DEF DiskOK, EntriesOf, Entry
  <2> QED
    BY <2>1, <2>2 DEF Beats
<1>3. Winner(L, k) = w
  BY <1>2, WinnerIs
<1> QED
  BY <1>1, <1>3

\* An index record made from an entry.
LEMMA InfoShows ==
  ASSUME NEW w \in Entry, NEW t, Sound(w, t), NEW b \in BOOLEAN
  PROVE  /\ IndexOK(Info(w, b), t)
         /\ IsLive(Info(w, b)) <=> b = FALSE
         /\ Info(w, b) # None /\ Info(w, b).Deleted = b
         /\ Info(w, b).FileID = w.file /\ Info(w, b).ValuePos = w.pos
<1>1. /\ Info(w, b) \in KeyDirInfo /\ Info(w, b) # None
      /\ Info(w, b).FileID = w.file /\ Info(w, b).ValuePos = w.pos
      /\ Info(w, b).Timestamp = w.ts /\ Info(w, b).TTL = w.ttl
      /\ Info(w, b).Deleted = b
  BY InfoType
<1> QED
  BY <1>1 DEF Sound, IndexOK, IsLive

\* The rebuilt index is one the invariant allows.
LEMMA RebuiltOK ==
  ASSUME NEW fs, NEW L, NEW t, DiskInv(fs, L, t), NEW k \in Keys
  PROVE  IndexOK(RebuildKeyDir(L, FALSE)[k], t)
<1>1. CASE EntriesOf(L, k) = {}
  BY <1>1 DEF RebuildKeyDir, IndexOK
<1>2. CASE EntriesOf(L, k) # {}
  <2>1. DiskOK(fs, L) /\ Winners(L)
    BY DEF DiskInv, AllWinners
  <2>2. PICK w \in L : IsWinner(L, k, w)
    BY <1>2, <2>1 DEF Winners
  <2>3. Winner(L, k) = w
    BY <2>1, <2>2, WinnerIs
  <2>4. RebuildKeyDir(L, FALSE)[k] = Info(w, IsTomb(w, FALSE))
    BY <1>2, <2>3 DEF RebuildKeyDir
  <2>5. w \in Entry /\ Sound(w, t) /\ IsTomb(w, FALSE) \in BOOLEAN
    BY <2>1 DEF DiskInv, DiskOK, IsTomb, Entry
  <2>6. IndexOK(Info(w, IsTomb(w, FALSE)), t)
    BY <2>5, InfoShows
  <2> QED
    BY <2>4, <2>6
<1> QED
  BY <1>1, <1>2

\* Of a key with such an entry it gives that entry's value, wherever the entry is kept.
LEMMA RebuiltHolds ==
  ASSUME Plain, NEW fs, NEW L, NEW t, DiskInv(fs, L, t), NEW k \in Keys,
         NEW w \in L, IsTop(L, k, w), NEW M, L \subseteq M
  PROVE  /\ Holds(RebuildKeyDir(L, FALSE)[k], ValueOf(w), M, k)
         /\ ValueOf(w) \in Values \cup {None}
<1> DEFINE b == IF w.val = Tombstone THEN TRUE ELSE FALSE
           i == RebuildKeyDir(L, FALSE)[k]
<1>1. /\ Winner(L, k) = w /\ w \in Entry /\ w.key = k /\ EntriesOf(L, k) # {}
      /\ Sound(w, t)
  BY TopWins DEF DiskInv
<1>2. IsTomb(w, FALSE) = b
  BY <1>1 DEF IsTomb, Sound
<1>3. i = Info(w, b)
  BY <1>1, <1>2 DEF RebuildKeyDir
<1>4. b \in BOOLEAN
  OBVIOUS
<1>5. /\ IsLive(i) <=> b = FALSE
      /\ i.FileID = w.file /\ i.ValuePos = w.pos
  BY <1>1, <1>3, <1>4, InfoShows
<1> HIDE DEF i
<1>6. ASSUME w.val = Tombstone
      PROVE  Holds(i, ValueOf(w), M, k) /\ ValueOf(w) = None
  BY <1>5, <1>6 DEF Holds, ValueOf
<1>7. ASSUME w.val # Tombstone
      PROVE  Holds(i, ValueOf(w), M, k) /\ ValueOf(w) \in Values
  <2>1. w.val \in Values /\ w.val # None
    BY <1>1, <1>7, FaultsAssumption DEF Entry
  <2> QED
    BY <1>1, <1>5, <1>7, <2>1 DEF Holds, ValueOf
<1> QED
  BY <1>6, <1>7 DEF i
---------------------------------------------------------------------------
\* What a write leaves of the key of its entry e: indexed as a put or as a deletion, or not
\* known, whether it is indexed or not.
AsPut(e) ==
  e.val \in Values /\ keyDir'[e.key] = Info(e, FALSE) /\ acked'[e.key] = e.val

AsDelete(e) ==
  /\ e.val = Tombstone /\ keyDir[e.key] # None
  /\ keyDir'[e.key] = [keyDir[e.key] EXCEPT !.Deleted = TRUE, !.Timestamp = now]
  /\ acked'[e.key] = None

AsUnsure(e) ==
  keyDir'[e.key] \in {keyDir[e.key], Info(e, FALSE)} /\ acked'[e.key] = Unsure

Untouched(k) ==
  /\ keyDir'[k] = keyDir[k]
  /\ acked'[k] = Unsure \/ (acked'[k] = acked[k] /\ (k \in harmed => k \in harmed'))

\* A step that writes the entries B.
Writes(B, id, n) ==
  /\ Written(B, id, n)
  /\ files' = Grow(id, n) /\ log' = log \cup B /\ activeFileID' = id
  /\ now' = now /\ stale' = stale
  /\ keyDir' = [k \in Keys |-> keyDir'[k]]
  /\ acked' \in [Keys -> Values \cup {None, Unsure}]
  /\ \A k \in Keys : (\A e \in B : e.key # k) => Untouched(k)
  /\ \A e \in B : AsPut(e) \/ AsDelete(e) \/ AsUnsure(e)

\* Such a step keeps the invariant.
LEMMA WritesInv ==
  ASSUME Plain, FaultsInv, open, NEW B, NEW id, NEW n, Writes(B, id, n)
  PROVE  FaultsInv'
<1> DEFINE L == log \cup B
<1>0. /\ Written(B, id, n)
      /\ files' = Grow(id, n) /\ log' = L /\ activeFileID' = id
      /\ now' = now /\ stale' = stale
      /\ keyDir' = [k \in Keys |-> keyDir'[k]]
      /\ acked' \in [Keys -> Values \cup {None, Unsure}]
      /\ \A k \in Keys : (\A e \in B : e.key # k) => Untouched(k)
      /\ \A e \in B : AsPut(e) \/ AsDelete(e) \/ AsUnsure(e)
  BY DEF Writes
<1>1. /\ DiskInv(Grow(id, n), L, now)
      /\ AllNewest(Grow(id, n))
      /\ AtEnd(id, Grow(id, n), L, stale)
      /\ \A d \in log, e \in B : d.key \notin stale => Before(d, e)
  BY <1>0, WrittenDisk
<1>2. now \in Nat \ {0} /\ \A d \in log : Sound(d, now)
  BY DEF FaultsInv, DiskInv
<1>3. \A d, e \in B : d.key = e.key => d = e
  BY <1>0 DEF Written, Fresh
<1>4. ASSUME NEW k \in Keys, \A e \in B : e.key # k
      PROVE  KeyNext(k, L)
  <2>1. KeyInv(k) /\ Untouched(k)
    BY <1>0, <1>4 DEF FaultsInv
  <2>2. EntriesOf(L, k) = EntriesOf(log, k)
    BY <1>4 DEF EntriesOf
  <2>3. Holds(keyDir[k], acked[k], log, k) => Holds(keyDir[k], acked[k], L, k)
    BY DEF Holds
  <2>4. ComesTo(acked[k], log, k) => ComesTo(acked[k], L, k)
    BY <2>2 DEF ComesTo, IsTop
  <2> QED
    BY <1>0, <2>1, <2>3, <2>4 DEF KeyInv, KeyNext, Untouched, Known
<1>5. ASSUME NEW e \in B
      PROVE  KeyNext(e.key, L)
  <2> DEFINE k == e.key
  <2>1. e \in L /\ e \in Entry /\ k \in Keys /\ Sound(e, now) /\ KeyInv(k) /\ e.ts = now
    BY <1>0, <1>2 DEF Written, Fresh, Sound, Entry, FaultsInv
  <2>2. k \notin stale => IsTop(L, k, e)
    BY <1>1, <1>2, <1>3, <2>1 DEF IsTop, EntriesOf, Sound
  <2>3. /\ IndexOK(Info(e, FALSE), now) /\ IsLive(Info(e, FALSE))
        /\ Info(e, FALSE).FileID = e.file /\ Info(e, FALSE).ValuePos = e.pos
    BY <2>1, InfoShows
  <2> HIDE DEF k
  <2>4. CASE AsPut(e)
    <3>1. keyDir'[k] = Info(e, FALSE) /\ acked'[k] = e.val /\ e.val \in Values
      BY <2>4 DEF AsPut, k
    <3>2. e.val # Tombstone /\ e.val # None
      BY <3>1, FaultsAssumption DEF Plain
    <3>3. Holds(Info(e, FALSE), e.val, L, k)
      BY <2>1, <2>3, <3>2 DEF Holds, k
    <3>4. k \notin stale => ComesTo(e.val, L, k)
      BY <2>1, <2>2, <3>2 DEF ComesTo, ValueOf
    <3> QED
      BY <1>0, <2>3, <3>1, <3>3, <3>4 DEF KeyNext, k
  <2>5. CASE AsDelete(e)
    <3> DEFINE i == [keyDir[k] EXCEPT !.Deleted = TRUE, !.Timestamp = now]
    <3>1. /\ keyDir'[k] = i /\ acked'[k] = None /\ e.val = Tombstone /\ keyDir[k] # None
      BY <2>5 DEF AsDelete, k
    <3>2. keyDir[k] \in KeyDirInfo /\ keyDir[k].TTL = 0
      BY <2>1, <3>1 DEF KeyInv, IndexOK
    <3>3. i \in KeyDirInfo /\ i.TTL = 0 /\ i.Timestamp = now /\ i.Deleted = TRUE
      BY <1>2, <3>2 DEF KeyDirInfo
    <3> HIDE DEF i
    <3>4. IndexOK(i, now) /\ Holds(i, None, L, k)
      BY <1>2, <3>3 DEF IndexOK, Holds, IsLive
    <3>5. k \notin stale => ComesTo(None, L, k)
      BY <2>1, <2>2, <3>1 DEF ComesTo, ValueOf
    <3> QED
      BY <1>0, <3>1, <3>4, <3>5 DEF KeyNext, k
  <2>6. CASE AsUnsure(e)
    <3>1. keyDir'[k] \in {keyDir[k], Info(e, FALSE)} /\ acked'[k] = Unsure
      BY <2>6 DEF AsUnsure, k
    <3>2. IndexOK(keyDir'[k], now)
      BY <2>1, <2>3, <3>1 DEF KeyInv
    <3> QED
      BY <1>0, <3>1, <3>2 DEF KeyNext, k
  <2> QED
    BY <1>0, <2>4, <2>5, <2>6
<1>6. \A k \in Keys : KeyNext(k, L)
  BY <1>4, <1>5
<1> QED
  BY <1>0, <1>1, <1>2, <1>6, FaultsInvNext
---------------------------------------------------------------------------
\* While the store is open the file written to is known.
LEMMA OpenTyped ==
  ASSUME FaultsInv, open
  PROVE  /\ now \in Nat
         /\ activeFileID \in {activeFileID, activeFileID + 1}
         /\ \A id \in {activeFileID, activeFileID + 1} : id \in Nat /\ SizeAt(id) \in Nat
<1>1. DiskOK(files, log) /\ activeFileID \in DOMAIN files
  BY DEF FaultsInv, DiskInv, AtEnd
<1>2. \A id : SizeAt(id) \in Nat
  BY <1>1 DEF DiskOK, SizeAt
<1> QED
  BY <1>1, <1>2 DEF DiskOK, FaultsInv

\* One entry at the end of a file.
LEMMA OneWritten ==
  ASSUME FaultsInv, open, NEW id \in {activeFileID, activeFileID + 1},
         NEW e \in Entry, e.file = id, e.pos = SizeAt(id), e.ts = now, e.ttl = 0,
         e.readable = TRUE
  PROVE  Written({e}, id, 1)
<1>1. Fresh({e}, id, 1)
  BY OpenTyped DEF Fresh
<1> QED
  BY <1>1 DEF Written

\* A step that writes the one entry e.
LEMMA WritesOne ==
  ASSUME Plain, FaultsInv, open, NEW e, Written({e}, e.file, 1),
         files' = Grow(e.file, 1), log' = log \cup {e}, activeFileID' = e.file,
         now' = now, stale' = stale,
         keyDir' = [k \in Keys |-> keyDir'[k]],
         acked' \in [Keys -> Values \cup {None, Unsure}],
         \A k \in Keys : k # e.key => Untouched(k),
         AsPut(e) \/ AsDelete(e) \/ AsUnsure(e)
  PROVE  FaultsInv'
<1>1. Writes({e}, e.file, 1)
  BY DEF Writes
<1> QED
  BY <1>1, WritesInv

\* What Acknowledge and Doubt say of one key.
LEMMA AcknowledgeOne ==
  ASSUME FaultsInv, NEW k \in Keys, NEW a \in Values \cup {None},
         Acknowledge([x \in {k} |-> a])
  PROVE  /\ acked' \in [Keys -> Values \cup {None, Unsure}] /\ acked'[k] = a
         /\ \A j \in Keys : j # k => acked'[j] = acked[j] /\ (j \in harmed => j \in harmed')
  BY DEF Acknowledge, FaultsInv

LEMMA DoubtOne ==
  ASSUME FaultsInv, NEW k \in Keys, Doubt({k})
  PROVE  /\ acked' \in [Keys -> Values \cup {None, Unsure}] /\ acked'[k] = Unsure
         /\ \A j \in Keys : j # k => acked'[j] = acked[j] /\ (j \in harmed => j \in harmed')
  BY DEF Doubt, FaultsInv

\* The entry of a put and that of a deletion.
LEMMA PutEntryIs ==
  ASSUME FaultsInv, open, NEW id \in {activeFileID, activeFileID + 1},
         NEW k \in Keys, NEW v \in Values
  PROVE  LET e == PutEntry(id, SizeAt(id), k, v, now, 0)
         IN  Written({e}, id, 1) /\ e.file = id /\ e.key = k /\ e.val = v
<1> DEFINE e == PutEntry(id, SizeAt(id), k, v, now, 0)
<1>1. /\ e \in Entry /\ e.file = id /\ e.pos = SizeAt(id) /\ e.ts = now /\ e.ttl = 0
      /\ e.readable = TRUE /\ e.key = k /\ e.val = v
  BY OpenTyped DEF PutEntry, Entry
<1> QED
  BY <1>1, OneWritten

LEMMA TombstoneEntryIs ==
  ASSUME Plain, FaultsInv, open, NEW k \in Keys
  PROVE  LET e == TombstoneEntry(activeFileID, SizeAt(activeFileID), k)
         IN  /\ Written({e}, activeFileID, 1)
             /\ e.file = activeFileID /\ e.key = k /\ e.val = Tombstone /\ e.ts = now
<1> DEFINE e == TombstoneEntry(activeFileID, SizeAt(activeFileID), k)
<1>1. /\ e \in Entry /\ e.file = activeFileID /\ e.pos = SizeAt(activeFileID)
      /\ e.ts = now /\ e.ttl = 0 /\ e.readable = TRUE /\ e.key = k /\ e.val = Tombstone
  BY OpenTyped DEF TombstoneEntry, Entry, Plain
<1> QED
  BY <1>1, OneWritten, OpenTyped

\* A put that succeeds.
LEMMA PutOKInv ==
  ASSUME Plain, FaultsInv, NEW k \in Keys, NEW v \in Values, PutOK(k, v)
  PROVE  FaultsInv'
<1> DEFINE id == FileFor(1)
           e == PutEntry(id, SizeAt(id), k, v, now, 0)
<1>1. open /\ id \in {activeFileID, activeFileID + 1}
  BY DEF PutOK, CanWrite, FileFor
<1>2. Written({e}, id, 1) /\ e.file = id /\ e.key = k /\ e.val = v
  BY <1>1, PutEntryIs
<1>3. /\ files' = Grow(id, 1) /\ log' = log \cup {e} /\ activeFileID' = id
      /\ now' = now /\ stale' = stale
      /\ keyDir' = [keyDir EXCEPT ![k] = Info(e, FALSE)]
      /\ Acknowledge([x \in {k} |-> v])
  BY DEF PutOK, Put, WritePut, Stamp, Deadline
<1> HIDE DEF e, id
<1>4. /\ keyDir' = [j \in Keys |-> keyDir'[j]] /\ keyDir'[k] = Info(e, FALSE)
      /\ \A j \in Keys : j # k => keyDir'[j] = keyDir[j]
  BY <1>3 DEF FaultsInv
<1>5. /\ acked' \in [Keys -> Values \cup {None, Unsure}] /\ acked'[k] = v
      /\ \A j \in Keys : j # k => acked'[j] = acked[j] /\ (j \in harmed => j \in harmed')
  BY <1>3, AcknowledgeOne
<1>6. AsPut(e) /\ \A j \in Keys : j # e.key => Untouched(j)
  BY <1>2, <1>4, <1>5 DEF AsPut, Untouched
<1> QED
  BY <1>1, <1>2, <1>3, <1>4, <1>5, <1>6, WritesOne

\* A put whose record the WAL refuses.
LEMMA PutUnloggedInv ==
  ASSUME Plain, FaultsInv, NEW k \in Keys, NEW v \in Values, PutUnlogged(k, v)
  PROVE  FaultsInv'
<1> DEFINE id == FileFor(1)
           e == PutEntry(id, SizeAt(id), k, v, now, 0)
<1>1. open /\ id \in {activeFileID, activeFileID + 1}
  BY DEF PutUnlogged, CanWrite, FileFor
<1>2. Written({e}, id, 1) /\ e.file = id /\ e.key = k
  BY <1>1, PutEntryIs
<1>3. /\ files' = Grow(id, 1) /\ log' = log \cup {e} /\ activeFileID' = id
      /\ now' = now /\ keyDir' = keyDir /\ stale' = stale /\ Doubt({k})
  BY DEF PutUnlogged
<1> HIDE DEF e, id
<1>4. /\ acked' \in [Keys -> Values \cup {None, Unsure}] /\ acked'[k] = Unsure
      /\ \A j \in Keys : j # k => acked'[j] = acked[j] /\ (j \in harmed => j \in harmed')
  BY <1>3, DoubtOne
<1>5. /\ keyDir' = [j \in Keys |-> keyDir'[j]]
      /\ AsUnsure(e) /\ \A j \in Keys : j # e.key => Untouched(j)
  BY <1>2, <1>3, <1>4 DEF FaultsInv, AsUnsure, Untouched
<1> QED
  BY <1>1, <1>2, <1>3, <1>4, <1>5, WritesOne

\* A deletion that succeeds.
LEMMA DeleteOKInv ==
  ASSUME Plain, FaultsInv, NEW k \in Keys, DeleteOK(k)
  PROVE  FaultsInv'
<1> DEFINE id == activeFileID
           e == TombstoneEntry(id, SizeAt(id), k)
<1>1. open /\ keyDir[k] # None
  BY DEF DeleteOK, Delete
<1>2. Written({e}, id, 1) /\ e.file = id /\ e.key = k /\ e.val = Tombstone
  BY <1>1, TombstoneEntryIs
<1>3. /\ files' = Grow(id, 1) /\ log' = log \cup {e} /\ activeFileID' = id
      /\ now' = now /\ stale' = stale
      /\ keyDir' = [keyDir EXCEPT ![k].Deleted = TRUE, ![k].Timestamp = now]
      /\ Acknowledge([x \in {k} |-> None])
  BY DEF DeleteOK, Delete, WriteTombstone
<1> HIDE DEF e, id
<1>4. /\ keyDir' = [j \in Keys |-> keyDir'[j]]
      /\ keyDir'[k] = [keyDir[k] EXCEPT !.Deleted = TRUE, !.Timestamp = now]
      /\ \A j \in Keys : j # k => keyDir'[j] = keyDir[j]
  BY <1>3 DEF FaultsInv
<1>5. /\ acked' \in [Keys -> Values \cup {None, Unsure}] /\ acked'[k] = None
      /\ \A j \in Keys : j # k => acked'[j] = acked[j] /\ (j \in harmed => j \in harmed')
  BY <1>3, AcknowledgeOne
<1>6. AsDelete(e) /\ \A j \in Keys : j # e.key => Untouched(j)
  BY <1>1, <1>2, <1>4, <1>5 DEF AsDelete, Untouched
<1> QED
  BY <1>1, <1>2, <1>3, <1>4, <1>5, <1>6, WritesOne

\* A deletion whose record the WAL refuses.
LEMMA DeleteUnloggedInv ==
  ASSUME Plain, FaultsInv, NEW k \in Keys, DeleteUnlogged(k)
  PROVE  FaultsInv'
<1> DEFINE id == activeFileID
           e == TombstoneEntry(id, SizeAt(id), k)
<1>1. open
  BY DEF DeleteUnlogged, CanWrite
<1>2. Written({e}, id, 1) /\ e.file = id /\ e.key = k
  BY <1>1, TombstoneEntryIs
<1>3. /\ files' = Grow(id, 1) /\ log' = log \cup {e} /\ activeFileID' = id
      /\ now' = now /\ keyDir' = keyDir /\ stale' = stale /\ Doubt({k})
  BY DEF DeleteUnlogged
<1> HIDE DEF e, id
<1>4. /\ acked' \in [Keys -> Values \cup {None, Unsure}] /\ acked'[k] = Unsure
      /\ \A j \in Keys : j # k => acked'[j] = acked[j] /\ (j \in harmed => j \in harmed')
  BY <1>3, DoubtOne
<1>5. /\ keyDir' = [j \in Keys |-> keyDir'[j]]
      /\ AsUnsure(e) /\ \A j \in Keys : j # e.key => Untouched(j)
  BY <1>2, <1>3, <1>4 DEF FaultsInv, AsUnsure, Untouched
<1> QED
  BY <1>1, <1>2, <1>3, <1>4, <1>5, WritesOne

\* The entries of a batch, all of them or those of the first n keys.
LEMMA BatchWritten ==
  ASSUME FaultsInv, open, NEW items \in Batches, NEW ord \in Orders(DOMAIN items),
         NEW id \in {activeFileID, activeFileID + 1}
  PROVE  /\ DOMAIN items \subseteq Keys
         /\ \A k \in DOMAIN items : items[k] \in Values
         /\ Cardinality(DOMAIN items) \in Nat
         /\ Written(BatchEntries(id, items, ord), id, Cardinality(DOMAIN items))
         /\ \A n \in Nat, part \in 0 .. 1 :
              Written({e \in BatchEntries(id, items, ord) :
                         e.key \in {k \in DOMAIN items : ord[k] < n}}, id, n + part)
         /\ \A e \in BatchEntries(id, items, ord) :
              /\ e.key \in DOMAIN items /\ e.val \in Values /\ e.val = items[e.key]
              /\ e = PutEntry(id, SizeAt(id) + ord[e.key], e.key, items[e.key], now, 0)
         /\ \A k \in DOMAIN items : \E e \in BatchEntries(id, items, ord) : e.key = k
<1> DEFINE E(k) == PutEntry(id, SizeAt(id) + ord[k], k, items[k], now, 0)
<1>1. now \in Nat /\ id \in Nat /\ SizeAt(id) \in Nat
  BY OpenTyped
<1>2. /\ DOMAIN items \subseteq Keys
      /\ Cardinality(DOMAIN items) \in Nat
      /\ \A k \in DOMAIN items : E(k).key = k /\ E(k).val \in Values
      /\ \A n \in Nat :
           Fresh({e \in BatchEntries(id, items, ord) :
                    e.key \in {k \in DOMAIN items : ord[k] < n}}, id, n)
      /\ Fresh(BatchEntries(id, items, ord), id, Cardinality(DOMAIN items))
  BY <1>1, BatchLaid
<1>3. \A k : E(k).ts = now /\ E(k).ttl = 0 /\ E(k).readable = TRUE /\ E(k).val = items[k]
  BY DEF PutEntry
<1>4. BatchEntries(id, items, ord) = {E(k) : k \in DOMAIN items}
  BY DEF BatchEntries
<1>5. \A e \in BatchEntries(id, items, ord) :
        /\ e.ts = now /\ e.ttl = 0 /\ e.readable = TRUE
        /\ e.key \in DOMAIN items /\ e.val \in Values /\ e.val = items[e.key]
        /\ e = E(e.key)
  BY <1>2, <1>3, <1>4
<1>6. \A k \in DOMAIN items : \E e \in BatchEntries(id, items, ord) : e.key = k
  BY <1>2, <1>4
<1>7. ASSUME NEW n \in Nat, NEW part \in 0 .. 1, NEW B, Fresh(B, id, n)
      PROVE  n + part \in Nat /\ Fresh(B, id, n + part)
  BY <1>1, <1>7 DEF Fresh, Entry
<1>8. Written(BatchEntries(id, items, ord), id, Cardinality(DOMAIN items))
  BY <1>2, <1>5 DEF Written
<1>9. ASSUME NEW n \in Nat, NEW part \in 0 .. 1
      PROVE  Written({e \in BatchEntries(id, items, ord) :
                        e.key \in {k \in DOMAIN items : ord[k] < n}}, id, n + part)
  <2> DEFINE B == {e \in BatchEntries(id, items, ord) :
                     e.key \in {k \in DOMAIN items : ord[k] < n}}
  <2>1. Fresh(B, id, n)
    BY <1>2
  <2>2. \A e \in B : e.ts = now /\ e.ttl = 0 /\ e.readable = TRUE
    BY <1>5
  <2> HIDE DEF B
  <2>3. n + part \in Nat /\ Fresh(B, id, n + part)
    BY <1>7, <2>1
  <2>4. Written(B, id, n + part)
    BY <2>2, <2>3 DEF Written
  <2> QED
    BY <2>4 DEF B
<1> QED
  BY <1>2, <1>3, <1>5, <1>6, <1>8, <1>9

\* A batch that succeeds.
LEMMA BatchOKInv ==
  ASSUME Plain, FaultsInv, NEW items \in Batches, NEW ord \in Orders(DOMAIN items),
         BatchOK(items, ord)
  PROVE  FaultsInv'
<1> DEFINE n == Cardinality(DOMAIN items)
           id == FileFor(n)
           B == BatchEntries(id, items, ord)
<1>1. open /\ id \in {activeFileID, activeFileID + 1}
  BY DEF BatchOK, CanWrite, FileFor
<1>2. /\ DOMAIN items \subseteq Keys /\ \A k \in DOMAIN items : items[k] \in Values
      /\ Written(B, id, n)
      /\ \A e \in B :
           /\ e.key \in DOMAIN items /\ e.val \in Values /\ e.val = items[e.key]
           /\ e = PutEntry(id, SizeAt(id) + ord[e.key], e.key, items[e.key], now, 0)
      /\ \A k \in DOMAIN items : \E e \in B : e.key = k
  BY <1>1, BatchWritten
<1>3. /\ files' = Grow(id, n) /\ log' = log \cup B /\ activeFileID' = id
      /\ now' = now /\ stale' = stale
      /\ keyDir' = [k \in Keys |->
            IF k \in DOMAIN items
            THEN Info(PutEntry(id, SizeAt(id) + ord[k], k, items[k], now, 0), FALSE)
            ELSE keyDir[k]]
      /\ acked' = [k \in Keys |-> IF k \in DOMAIN items THEN items[k] ELSE acked[k]]
      /\ harmed' = harmed \ DOMAIN items
  BY DEF BatchOK, BatchPut, Acknowledge
<1> HIDE DEF B, id, n
<1>4. \A e \in B : AsPut(e)
  BY <1>2, <1>3 DEF AsPut
<1>5. \A k \in Keys : (\A e \in B : e.key # k) => Untouched(k)
  BY <1>2, <1>3 DEF Untouched
<1>6. keyDir' = [k \in Keys |-> keyDir'[k]] /\ acked' \in [Keys -> Values \cup {None, Unsure}]
  BY <1>2, <1>3 DEF FaultsInv
<1>7. Writes(B, id, n)
  BY <1>2, <1>3, <1>4, <1>5, <1>6 DEF Writes
<1> QED
  BY <1>1, <1>7, WritesInv

\* A batch of which n entries are written and indexed, and perhaps a part of the next: of
\* its keys none is known.
LEMMA BatchTornInv ==
  ASSUME Plain, FaultsInv, NEW items \in Batches, NEW ord \in Orders(DOMAIN items),
         NEW n \in 0 .. Cardinality(DOMAIN items) - 1, NEW part \in 0 .. 1,
         BatchTorn(items, ord, n, part)
  PROVE  FaultsInv'
<1> DEFINE id == FileFor(Cardinality(DOMAIN items))
           W == {k \in DOMAIN items : ord[k] < n}
           B == {e \in BatchEntries(id, items, ord) : e.key \in W}
<1>1. open /\ id \in {activeFileID, activeFileID + 1} /\ n \in Nat
  BY DEF BatchTorn, CanWrite, FileFor
<1>2. /\ DOMAIN items \subseteq Keys
      /\ Written(B, id, n + part)
      /\ \A e \in B :
           /\ e.key \in W
           /\ e = PutEntry(id, SizeAt(id) + ord[e.key], e.key, items[e.key], now, 0)
      /\ \A k \in W : \E e \in B : e.key = k
  <2> HIDE DEF id
  <2>1. Written(B, id, n + part)
    BY <1>1, BatchWritten
  <2>2. /\ DOMAIN items \subseteq Keys
        /\ \A e \in BatchEntries(id, items, ord) :
             e = PutEntry(id, SizeAt(id) + ord[e.key], e.key, items[e.key], now, 0)
        /\ \A k \in DOMAIN items : \E e \in BatchEntries(id, items, ord) : e.key = k
    BY <1>1, BatchWritten
  <2> QED
    BY <2>1, <2>2
<1>3. /\ files' = Grow(id, n + part) /\ activeFileID' = id /\ log' = log \cup B
      /\ now' = now /\ stale' = stale
      /\ keyDir' = Indexed(id, items, ord, W) /\ Doubt(DOMAIN items)
  BY DEF BatchTorn
<1>4. keyDir' = [k \in Keys |->
        IF k \in W THEN Info(PutEntry(id, SizeAt(id) + ord[k], k, items[k], now, 0), FALSE)
        ELSE keyDir[k]]
  BY <1>3 DEF Indexed
<1>5. /\ acked' = [k \in Keys |-> IF k \in DOMAIN items THEN Unsure ELSE acked[k]]
      /\ harmed' = harmed
  BY <1>3 DEF Doubt
<1>6. W \subseteq DOMAIN items
  OBVIOUS
<1> HIDE DEF B, id, W
<1>7. \A e \in B : AsUnsure(e)
  BY <1>2, <1>4, <1>5, <1>6 DEF AsUnsure
<1>8. \A k \in Keys : (\A e \in B : e.key # k) => Untouched(k)
  BY <1>2, <1>4, <1>5, <1>6 DEF Untouched
<1>9. keyDir' = [k \in Keys |-> keyDir'[k]] /\ acked' \in [Keys -> Values \cup {None, Unsure}]
  BY <1>4, <1>5 DEF FaultsInv
<1>10. Writes(B, id, n + part)
  BY <1>2, <1>3, <1>7, <1>8, <1>9 DEF Writes
<1> QED
  BY <1>1, <1>10, WritesInv

\* A write that is torn writes no entry.
LEMMA TornInv ==
  ASSUME Plain, FaultsInv, PutTorn \/ DeleteTorn
  PROVE  FaultsInv'
<1>1. PICK id : id \in {activeFileID, activeFileID + 1} /\ Tear(id)
  BY DEF PutTorn, DeleteTorn, FileFor
<1>2. open
  BY <1>1 DEF Tear, CanWrite
<1>3. /\ files' = Grow(id, 1) /\ activeFileID' = id /\ log' = log /\ stale' = stale
      /\ keyDir' = keyDir /\ now' = now /\ acked' = acked /\ harmed' = harmed
  BY <1>1 DEF Tear
<1>4. Written({}, id, 1)
  BY <1>1 DEF Written, Fresh
<1>5. Writes({}, id, 1)
  BY <1>3, <1>4 DEF Writes, Untouched, FaultsInv
<1> QED
  BY <1>2, <1>5, WritesInv
---------------------------------------------------------------------------
\* Steps that touch neither the files nor the index, nor what is known.
LEMMA StillInv ==
  ASSUME FaultsInv, UNCHANGED <<files, log, keyDir, acked, stale>>, harmed \subseteq harmed',
         now' \in Nat, now <= now', open' => open /\ activeFileID' = activeFileID
  PROVE  FaultsInv'
<1>1. /\ now \in Nat \ {0} /\ now' \in Nat \ {0} /\ DiskInv(files, log, now)
      /\ AllNewest(files) /\ (open => AtEnd(activeFileID, files, log, stale))
      /\ keyDir = [k \in Keys |-> keyDir[k]] /\ acked \in [Keys -> Values \cup {None, Unsure}]
  BY DEF FaultsInv
<1>2. DiskInv(files, log, now')
  <2>1. \A e \in log : Sound(e, now')
    BY <1>1 DEF DiskInv, DiskOK, Sound, Entry
  <2> QED
    BY <1>1, <2>1 DEF DiskInv
<1>3. ASSUME NEW k \in Keys
      PROVE  KeyNext(k, log)
  <2>1. KeyInv(k)
    BY DEF FaultsInv
  <2>2. IndexOK(keyDir[k], now')
    BY <1>1, <2>1 DEF KeyInv, IndexOK, KeyDirInfo
  <2> QED
    BY <2>1, <2>2 DEF KeyInv, KeyNext, Known
<1>4. open' => AtEnd(activeFileID', files, log, stale')
  BY <1>1
<1> QED
  BY <1>1, <1>2, <1>3, <1>4, FaultsInvNext

\* The active keys are the live ones.
LEMMA ActiveLive ==
  ASSUME FaultsInv, NEW k \in Keys
  PROVE  k \in ActiveKeys <=> IsLive(keyDir[k])
<1>1. KeyInv(k)
  BY DEF FaultsInv
<1>2. IsLive(keyDir[k]) => keyDir[k].TTL = 0
  BY <1>1 DEF KeyInv, IndexOK, IsLive
<1> QED
  BY <1>1, <1>2, LiveIs DEF ActiveKeys

\* The value of a known key, and the entry the index points at.
LEMMA KnownIs ==
  ASSUME FaultsInv, NEW k \in Keys, Known(k)
  PROVE  /\ acked[k] \in Values \cup {None}
         /\ acked[k] = None <=> ~IsLive(keyDir[k])
         /\ acked[k] # None => PointsAt(keyDir[k], k, acked[k])
  BY DEF FaultsInv, KeyInv, Known, Holds, PointsAt

\* The entries of the keys in kept, as a compaction lays them out in n + part places of the
\* new file.
LEMMA NewEntryIs ==
  ASSUME FaultsInv, NEW kept \in SUBSET Keys, NEW ord \in Orders(kept),
         NEW bytes \in [kept -> Values], NEW failed \in Nat, NEW part \in 0 .. 1,
         \A k \in kept : IsLive(keyDir[k])
  PROVE  LET P(k) == PlaceOf(ord[k], failed, part)
             E(k) == NewEntry(k, bytes, P(k))
         IN  /\ Cardinality(kept) \in Nat
             /\ \A k \in kept : /\ E(k) \in Entry /\ E(k).key = k /\ E(k).file = 1
                                /\ E(k).pos = P(k) /\ P(k) < Cardinality(kept) + part
                                /\ E(k).val = bytes[k] /\ Sound(E(k), now)
             /\ \A j, k \in kept : P(j) = P(k) => j = k
<1> DEFINE P(k) == PlaceOf(ord[k], failed, part)
           E(k) == NewEntry(k, bytes, P(k))
<1>1. Cardinality(kept) \in Nat
  BY KeysAssumption, FS_Subset, FS_CardinalityType
<1>2. /\ \A k \in kept : ord[k] \in Nat /\ ord[k] < Cardinality(kept)
      /\ \A j, k \in kept : ord[j] = ord[k] => j = k
  BY <1>1 DEF Orders, Bijection, Injection, IsInjective
<1>3. /\ \A k \in kept : P(k) \in Nat /\ P(k) < Cardinality(kept) + part
      /\ \A j, k \in kept : P(j) = P(k) => j = k
  BY <1>1, <1>2 DEF PlaceOf
<1>4. ASSUME NEW k \in kept
      PROVE  /\ E(k) \in Entry /\ E(k).key = k /\ E(k).file = 1 /\ E(k).pos = P(k)
             /\ E(k).val = bytes[k] /\ Sound(E(k), now)
  <2>1. /\ keyDir[k].TTL = 0 /\ keyDir[k].Timestamp <= now /\ keyDir[k].Timestamp \in Nat
    <3>1. KeyInv(k)
      BY DEF FaultsInv
    <3> QED
      BY <3>1 DEF KeyInv, IndexOK, IsLive, KeyDirInfo
  <2> HIDE DEF P
  <2>2. /\ E(k).file = 1 /\ E(k).pos = P(k) /\ E(k).key = k /\ E(k).val = bytes[k]
        /\ E(k).ts = keyDir[k].Timestamp /\ E(k).ttl = keyDir[k].TTL /\ E(k).readable = TRUE
        /\ E(k) \in Entry
    BY <1>3, <2>1 DEF NewEntry, PutEntry, Entry
  <2> HIDE DEF E
  <2> QED
    BY <2>1, <2>2 DEF Sound
<1> HIDE DEF P, E
<1>5. /\ Cardinality(kept) \in Nat
      /\ \A k \in kept : /\ E(k) \in Entry /\ E(k).key = k /\ E(k).file = 1
                         /\ E(k).pos = P(k) /\ P(k) < Cardinality(kept) + part
                         /\ E(k).val = bytes[k] /\ Sound(E(k), now)
      /\ \A j, k \in kept : P(j) = P(k) => j = k
  BY <1>1, <1>3, <1>4
<1> QED
  BY <1>5 DEF P, E

\* The disk that a compaction leaves: the new file, and old ones.
LEMMA CompactedDisk ==
  ASSUME FaultsInv, NEW left \in SUBSET (DOMAIN files \ {1}), NEW N, NEW n \in Nat,
         N \subseteq Entry,
         \A e \in N : e.file = 1 /\ e.pos < n /\ Sound(e, now),
         \A d, e \in N : d.pos = e.pos \/ d.key = e.key => d = e
  PROVE  LET fs == [f \in {1} \cup left |-> IF f = 1 THEN n ELSE files[f]]
             L  == N \cup InFiles(log, left)
         IN  /\ DiskInv(fs, L, now) /\ AllNewest(fs)
             /\ AtEnd(1, fs, L, {k \in Keys : HasEntry(k, InFiles(log, left))})
<1> DEFINE fs == [f \in {1} \cup left |-> IF f = 1 THEN n ELSE files[f]]
           rest == InFiles(log, left)
           L == rest \cup N
<1>1. DiskInv(files, log, now) /\ DiskOK(files, log) /\ AllNewest(files)
  BY DEF FaultsInv, DiskInv
<1>2. DOMAIN files \subseteq Nat /\ \A f \in DOMAIN files : files[f] \in Nat
  BY <1>1 DEF DiskOK
<1>3. /\ rest \subseteq log
      /\ \A d \in rest : d \in Entry /\ d.file \in left /\ d.pos < files[d.file]
      /\ \A d, e \in rest : d.file = e.file /\ d.pos = e.pos => d = e
  BY <1>1 DEF InFiles, DiskOK
<1>4. DOMAIN fs = {1} \cup left /\ fs[1] = n /\ \A f \in left : fs[f] = files[f]
  OBVIOUS
<1>5. fs \in [DOMAIN fs -> Nat] /\ DOMAIN fs \subseteq Nat
  BY <1>2
<1> HIDE DEF fs, rest
<1>6. DiskOK(fs, L)
  BY <1>3, <1>4, <1>5 DEF DiskOK
<1>7. AllWinners(L)
  <2>1. AllWinners(rest)
    BY <1>1, <1>3 DEF DiskInv, AllWinners
  <2> QED
    BY <1>6, <2>1, AppendWinners
<1>8. \A e \in L : Sound(e, now)
  BY <1>1, <1>3 DEF DiskInv
<1>9. AllNewest(fs)
  BY <1>1, <1>2, <1>4, OneMoreFile
<1>10. AtEnd(1, fs, L, {k \in Keys : HasEntry(k, rest)})
  <2>1. \A d \in rest : d.key \in Keys /\ HasEntry(d.key, rest)
    BY <1>3 DEF HasEntry, EntriesOf, Entry
  <2> QED
    BY <1>4, <2>1 DEF AtEnd
<1>11. L = N \cup rest
  OBVIOUS
<1> HIDE DEF L
<1>12. /\ DiskInv(fs, N \cup rest, now) /\ AllNewest(fs)
       /\ AtEnd(1, fs, N \cup rest, {k \in Keys : HasEntry(k, rest)})
  BY <1>6, <1>7, <1>8, <1>9, <1>10, <1>11 DEF DiskInv
<1> QED
  BY <1>12 DEF fs, rest

\* A compaction that keeps some active keys and harms those it loses, misreads or places
\* behind a part of an entry.
LEMMA RewriteInv ==
  ASSUME Plain, FaultsInv, NEW kept \in SUBSET Keys, NEW misread, NEW ord \in Orders(kept),
         NEW bytes \in Readings(kept, misread), NEW failed \in Nat, NEW part \in 0 .. 1,
         NEW left \in SUBSET (DOMAIN files \ {1}), kept \subseteq ActiveKeys,
         Rewrite(kept, ord, bytes, failed, part, left),
         harmed' = harmed \cup (ActiveKeys \ kept) \cup misread
                     \cup {k \in kept : part = 1 /\ ord[k] >= failed}
  PROVE  FaultsInv'
<1> DEFINE n == Cardinality(kept) + part
           fs == [f \in {1} \cup left |-> IF f = 1 THEN n ELSE files[f]]
           P(k) == PlaceOf(ord[k], failed, part)
           E(k) == NewEntry(k, bytes, P(k))
           I(k) == [Info(E(k), FALSE) EXCEPT !.ValuePos = ord[k]]
           N == {E(k) : k \in kept}
           rest == InFiles(log, left)
           L == N \cup rest
<1>1. \A k \in kept : IsLive(keyDir[k])
  BY ActiveLive
<1>2. /\ bytes \in [kept -> Values]
      /\ \A k \in kept \ misread : \A v \in Values :
           PointsAt(keyDir[k], k, v) => bytes[k] = v
  BY DEF Readings
<1>3. /\ Cardinality(kept) \in Nat
      /\ \A k \in kept : /\ E(k) \in Entry /\ E(k).key = k /\ E(k).file = 1
                         /\ E(k).pos = P(k) /\ P(k) < Cardinality(kept) + part
                         /\ E(k).val = bytes[k] /\ Sound(E(k), now)
      /\ \A j, k \in kept : P(j) = P(k) => j = k
  BY <1>1, <1>2, NewEntryIs
<1>4. \A k \in kept : ord[k] \in Nat /\ (part = 0 \/ ord[k] < failed => P(k) = ord[k])
  <2>1. \A k \in kept : ord[k] \in Nat
    BY <1>3 DEF Orders, Bijection, Injection
  <2> QED
    BY <2>1 DEF PlaceOf
<1>5. /\ files' = fs /\ log' = L /\ activeFileID' = 1
      /\ keyDir' = [k \in Keys |-> IF k \in kept THEN I(k) ELSE None]
      /\ stale' = {k \in Keys : HasEntry(k, rest)}
      /\ now' = now /\ acked' = acked
  BY DEF Rewrite, OffsetOf
<1>6. now \in Nat \ {0} /\ acked \in [Keys -> Values \cup {None, Unsure}] /\ n \in Nat
  BY <1>3 DEF FaultsInv
<1> HIDE DEF E, P
<1>7. /\ DiskInv(fs, L, now) /\ AllNewest(fs)
      /\ AtEnd(1, fs, L, {k \in Keys : HasEntry(k, rest)})
  <2>1. N \subseteq Entry /\ \A e \in N : e.file = 1 /\ e.pos < n /\ Sound(e, now)
    BY <1>3
  <2>2. \A d, e \in N : d.pos = e.pos \/ d.key = e.key => d = e
    BY <1>3
  <2> HIDE DEF N, n
  <2> QED
    BY <1>6, <2>1, <2>2, CompactedDisk
<1>8. ASSUME NEW k \in kept
      PROVE  KeyNext(k, L)
  <2>1. E(k) \in L /\ E(k) \in Entry /\ E(k).key = k /\ E(k).file = 1 /\ Sound(E(k), now)
        /\ E(k).val = bytes[k] /\ bytes[k] \in Values
    BY <1>2, <1>3
  <2>2. keyDir'[k] = I(k)
    BY <1>5
  <2>3. /\ I(k) \in KeyDirInfo /\ I(k) # None /\ I(k).TTL = 0 /\ I(k).Timestamp <= now
        /\ I(k).FileID = 1 /\ I(k).ValuePos = ord[k] /\ I(k).Deleted = FALSE
    <3>1. /\ Info(E(k), FALSE) \in KeyDirInfo
          /\ Info(E(k), FALSE).FileID = E(k).file
          /\ Info(E(k), FALSE).Timestamp = E(k).ts /\ Info(E(k), FALSE).TTL = E(k).ttl
          /\ Info(E(k), FALSE).Deleted = FALSE
      BY <2>1, InfoType
    <3>2. /\ I(k) \in KeyDirInfo /\ I(k).TTL = E(k).ttl /\ I(k).Timestamp = E(k).ts
          /\ I(k).FileID = E(k).file /\ I(k).ValuePos = ord[k] /\ I(k).Deleted = FALSE
      BY <1>4, <3>1 DEF KeyDirInfo
    <3> QED
      BY <2>1, <3>2, NoneAssumption DEF Sound
  <2> HIDE DEF I
  <2>4. ASSUME acked[k] # Unsure, k \notin harmed'
        PROVE  /\ Holds(I(k), acked[k], L, k)
               /\ k \notin stale' => ComesTo(acked[k], L, k)
    <3>1. Known(k) /\ k \notin misread /\ (part = 0 \/ ord[k] < failed)
      <4>1. ord[k] \in Nat /\ part \in {0, 1}
        BY <1>4
      <4> QED
        BY <2>4, <4>1 DEF Known
    <3>2. /\ acked[k] \in Values /\ acked[k] # None
          /\ PointsAt(keyDir[k], k, acked[k])
      BY <1>1, <3>1, KnownIs
    <3>3. E(k).val = acked[k] /\ E(k).pos = ord[k]
      BY <1>2, <1>3, <1>4, <2>1, <3>1, <3>2
    <3>4. Holds(I(k), acked[k], L, k)
      BY <2>1, <2>3, <3>2, <3>3 DEF Holds, IsLive
    <3>5. ASSUME k \notin stale'
          PROVE  ComesTo(acked[k], L, k)
      <4>1. EntriesOf(rest, k) = {}
        BY <1>5, <3>5 DEF HasEntry
      <4>2. IsTop(L, k, E(k))
        BY <1>3, <2>1, <4>1 DEF IsTop, EntriesOf
      <4>3. ValueOf(E(k)) = acked[k]
        BY <3>2, <3>3 DEF ValueOf, Plain
      <4> QED
        BY <2>1, <4>2, <4>3 DEF ComesTo
    <3> QED
      BY <3>4, <3>5
  <2> QED
    BY <1>5, <2>2, <2>3, <2>4 DEF KeyNext, IndexOK
<1>9. ASSUME NEW k \in Keys, k \notin kept
      PROVE  KeyNext(k, L)
  <2>1. keyDir'[k] = None
    BY <1>5, <1>9
  <2>2. k \notin stale' => EntriesOf(L, k) = {}
    BY <1>3, <1>5, <1>9 DEF EntriesOf, HasEntry
  <2>3. ASSUME acked[k] # Unsure, k \notin harmed'
        PROVE  acked[k] = None
    <3>1. k \notin harmed /\ k \notin ActiveKeys
      BY <1>9, <2>3
    <3> QED
      BY <2>3, <3>1, ActiveLive, KnownIs DEF Known
  <2> QED
    BY <1>5, <2>1, <2>2, <2>3 DEF KeyNext, IndexOK, Holds, ComesTo, IsLive
<1>10. \A k \in Keys : KeyNext(k, L)
  BY <1>8, <1>9
<1>11. keyDir' = [k \in Keys |-> keyDir'[k]]
  BY <1>5
<1>12. AtEnd(activeFileID', fs, L, stale')
  BY <1>5, <1>7
<1> HIDE DEF fs, L
<1> QED
  BY <1>5, <1>6, <1>7, <1>10, <1>11, <1>12, FaultsInvNext

\* Any compaction that goes through to the end.
LEMMA CompactToInv ==
  ASSUME Plain, FaultsInv, NEW lost, NEW misread, NEW failed \in Nat, NEW part \in 0 .. 1,
         NEW left \in SUBSET (DOMAIN files \ {1}),
         CompactTo(lost, misread, failed, part, left)
  PROVE  FaultsInv'
<1> DEFINE kept == Kept(lost)
<1>1. kept \in SUBSET Keys /\ kept \subseteq ActiveKeys
  BY DEF Kept, ActiveKeys
<1>2. PICK ord \in Orders(kept), bytes \in Readings(kept, misread) :
        /\ Rewrite(kept, ord, bytes, failed, part, left)
        /\ harmed' = harmed \cup (ActiveKeys \ kept) \cup misread
                       \cup {k \in kept : part = 1 /\ ord[k] >= failed}
  BY DEF CompactTo
<1> HIDE DEF kept
<1> QED
  BY <1>1, <1>2, RewriteInv

LEMMA CompactsInv ==
  ASSUME Plain, FaultsInv, NEW left \in SUBSET (DOMAIN files \ {1}),
         \/ CompactReadable
         \/ \E lost, misread \in SUBSET Keys : CompactMisses(lost, misread, left)
         \/ \E k \in Keys, failed \in 0 .. Cardinality(Keys), part \in 0 .. 1 :
              CompactCuts(k, failed, part, left)
         \/ CompactUnopened(left)
  PROVE  FaultsInv'
<1>1. \A lost : Cardinality(Kept(lost)) \in Nat
  <2>1. \A lost : Kept(lost) \subseteq Keys
    BY DEF Kept, ActiveKeys
  <2> QED
    BY <2>1, KeysAssumption, FS_Subset, FS_CardinalityType
<1>2. 0 \in 0 .. 1 /\ {} \in SUBSET (DOMAIN files \ {1})
  OBVIOUS
<1>3. ASSUME NEW lost, NEW misread, NEW some \in SUBSET (DOMAIN files \ {1}),
             CompactTo(lost, misread, Cardinality(Kept(lost)), 0, some)
      PROVE  FaultsInv'
  <2> DEFINE failed == Cardinality(Kept(lost))
  <2>1. failed \in Nat /\ CompactTo(lost, misread, failed, 0, some)
    BY <1>1, <1>3
  <2> HIDE DEF failed
  <2> QED
    BY <1>2, <2>1, CompactToInv
<1>4. CASE CompactReadable
  <2>1. CompactTo({}, {}, Cardinality(Kept({})), 0, {})
    BY <1>4 DEF CompactReadable
  <2> QED
    BY <1>2, <1>3, <2>1
<1>5. ASSUME NEW lost \in SUBSET Keys, NEW misread \in SUBSET Keys,
             CompactMisses(lost, misread, left)
      PROVE  FaultsInv'
  BY <1>3, <1>5 DEF CompactMisses
<1>6. ASSUME NEW k \in Keys, NEW failed \in 0 .. Cardinality(Keys), NEW part \in 0 .. 1,
             CompactCuts(k, failed, part, left)
      PROVE  FaultsInv'
  <2>1. failed \in Nat /\ CompactTo({k}, {}, failed, part, left)
    BY <1>6 DEF CompactCuts
  <2> QED
    BY <2>1, CompactToInv
<1>7. CASE CompactUnopened(left)
  BY <1>3, <1>7 DEF CompactUnopened
<1> QED
  BY <1>4, <1>5, <1>6, <1>7

\* A part of the files, with what is in them.
LEMMA PartFiles ==
  ASSUME FaultsInv, NEW S \in SUBSET DOMAIN files
  PROVE  LET fs == [f \in S |-> files[f]]
         IN  DiskInv(fs, InFiles(log, S), now) /\ AllNewest(fs)
<1> DEFINE fs == [f \in S |-> files[f]]
<1>1. DiskInv(files, log, now) /\ DiskOK(files, log) /\ AllNewest(files)
  BY DEF FaultsInv, DiskInv
<1>2. InFiles(log, S) \in SUBSET log
  BY DEF InFiles
<1>3. DOMAIN fs = S /\ fs \in [DOMAIN fs -> Nat] /\ S \subseteq Nat
  BY <1>1 DEF DiskOK
<1>4. DiskOK(fs, InFiles(log, S))
  BY <1>1, <1>2, <1>3 DEF DiskOK, InFiles
<1>5. AllNewest(fs)
  BY <1>1, <1>3 DEF AllNewest
<1> HIDE DEF fs
<1>6. DiskInv(fs, InFiles(log, S), now)
  BY <1>1, <1>2, <1>4, PartDisk
<1> QED
  BY <1>5, <1>6 DEF fs

\* A compaction whose file does not get its name.
LEMMA UnnamedInv ==
  ASSUME FaultsInv, NEW left \in SUBSET DOMAIN files, CompactUnnamed(left)
  PROVE  FaultsInv'
<1> DEFINE fs == [f \in left |-> files[f]]
           L == InFiles(log, left)
<1>1. /\ files' = fs /\ log' = L /\ open' = FALSE /\ now' = now
      /\ keyDir' = keyDir /\ acked' = acked
      /\ harmed' = harmed \cup {k \in Keys : Live(k) /\ keyDir[k].FileID \notin left}
      /\ stale' = {k \in Keys : HasEntry(k, L)}
  BY DEF CompactUnnamed
<1>2. /\ now \in Nat \ {0} /\ acked \in [Keys -> Values \cup {None, Unsure}]
      /\ keyDir = [k \in Keys |-> keyDir[k]]
  BY DEF FaultsInv
<1>3. DiskInv(fs, L, now) /\ AllNewest(fs)
  BY PartFiles
<1>4. ASSUME NEW k \in Keys
      PROVE  KeyNext(k, L)
  <2>1. KeyInv(k) /\ (Live(k) <=> IsLive(keyDir[k]))
    BY LiveIs DEF FaultsInv
  <2>2. ASSUME acked[k] # Unsure, k \notin harmed'
        PROVE  Holds(keyDir[k], acked[k], L, k) /\ (k \notin stale' => ComesTo(acked[k], L, k))
    <3>1. Known(k)
      BY <1>1, <2>2 DEF Known
    <3>2. CASE acked[k] = None
      BY <1>1, <2>1, <3>1, <3>2 DEF KeyInv, Holds, ComesTo, HasEntry
    <3>3. CASE acked[k] # None
      <4>1. IsLive(keyDir[k]) /\ PointsAt(keyDir[k], k, acked[k]) /\ keyDir[k].FileID \in left
        BY <1>1, <2>1, <2>2, <3>1, <3>3, KnownIs
      <4>2. PICK e \in L : /\ e.key = k /\ e.file = keyDir[k].FileID
                           /\ e.pos = keyDir[k].ValuePos /\ e.val = acked[k]
        BY <4>1 DEF PointsAt, InFiles
      <4>3. Holds(keyDir[k], acked[k], L, k)
        BY <3>3, <4>1, <4>2 DEF Holds
      <4>4. k \in stale'
        BY <1>1, <4>2 DEF HasEntry, EntriesOf
      <4> QED
        BY <4>3, <4>4
    <3> QED
      BY <3>2, <3>3
  <2> QED
    BY <1>1, <2>1, <2>2 DEF KeyNext, KeyInv
<1> HIDE DEF fs, L
<1> QED
  BY <1>1, <1>2, <1>3, <1>4, FaultsInvNext
---------------------------------------------------------------------------
\* What a key whose value is known needs for a restart that finds the entries L.
Found(k, L) ==
  \/ EntriesOf(L, k) = {} /\ acked[k] = None
  \/ \E w \in L : IsTop(L, k, w) /\ ~Hidden(w) /\ acked[k] = ValueOf(w)

\* What the scan of them then makes of it.
LEMMA FoundHolds ==
  ASSUME Plain, NEW fs, NEW L, DiskInv(fs, L, now), NEW k \in Keys, Found(k, L)
  PROVE  /\ Holds(RebuildKeyDir(Scanned(L), FALSE)[k], acked[k], L, k)
         /\ ComesTo(acked[k], L, k)
<1>1. DiskInv(fs, Scanned(L), now) /\ Scanned(L) \subseteq L
  <2>1. DiskOK(fs, L) /\ Scanned(L) \in SUBSET L
    BY DEF DiskInv, Scanned
  <2>2. DiskOK(fs, Scanned(L))
    BY <2>1 DEF DiskOK
  <2> QED
    BY <2>1, <2>2, PartDisk
<1>2. CASE EntriesOf(L, k) = {} /\ acked[k] = None
  <2>1. EntriesOf(Scanned(L), k) = {}
    BY <1>1, <1>2 DEF EntriesOf
  <2>2. RebuildKeyDir(Scanned(L), FALSE)[k] = None
    BY <2>1 DEF RebuildKeyDir
  <2> QED
    BY <1>2, <2>2 DEF Holds, ComesTo, IsLive
<1>3. ASSUME NEW w \in L, IsTop(L, k, w), ~Hidden(w), acked[k] = ValueOf(w)
      PROVE  /\ Holds(RebuildKeyDir(Scanned(L), FALSE)[k], acked[k], L, k)
             /\ ComesTo(acked[k], L, k)
  <2>1. w \in Scanned(L) /\ IsTop(Scanned(L), k, w)
    BY <1>1, <1>3 DEF Scanned, IsTop, EntriesOf
  <2>2. Holds(RebuildKeyDir(Scanned(L), FALSE)[k], ValueOf(w), L, k)
    BY <1>1, <2>1, RebuiltHolds
  <2> QED
    BY <1>3, <2>2 DEF ComesTo
<1> QED
  BY <1>2, <1>3 DEF Found

\* A start-up on the disk (fs, L).
LEMMA StartInv ==
  ASSUME Plain, FaultsInv, NEW fs, NEW L, DiskInv(fs, L, now), AllNewest(fs), DOMAIN fs # {},
         files' = fs, log' = L, activeFileID' = LastFile(files'), now' = now, acked' = acked,
         keyDir' = RebuildKeyDir(Scanned(L), FALSE),
         \A k \in Keys : acked[k] # Unsure /\ k \notin harmed' => Found(k, L)
  PROVE  FaultsInv'
<1>1. DiskOK(fs, L) /\ DOMAIN fs \subseteq Nat
  BY DEF DiskInv, DiskOK
<1>2. PICK id \in DOMAIN fs : \A f \in DOMAIN fs : f <= id
  <2>1. DOMAIN fs \in SUBSET DOMAIN fs
    OBVIOUS
  <2> QED
    BY <2>1 DEF AllNewest
<1>3. activeFileID' = id
  <2>1. \A m \in DOMAIN fs : (\A f \in DOMAIN fs : f <= m) => m = id
    BY <1>1, <1>2
  <2> QED
    BY <1>2, <2>1 DEF LastFile
<1>4. AtEnd(activeFileID', fs, L, stale')
  BY <1>1, <1>2, <1>3 DEF AtEnd, DiskOK
<1>5. keyDir' = [k \in Keys |-> keyDir'[k]]
  BY DEF RebuildKeyDir
<1>6. ASSUME NEW k \in Keys
      PROVE  KeyNext(k, L)
  <2>1. IndexOK(keyDir'[k], now)
    <3>1. DiskOK(fs, L) /\ Scanned(L) \in SUBSET L
      BY <1>1 DEF Scanned
    <3>2. DiskOK(fs, Scanned(L))
      BY <3>1 DEF DiskOK
    <3>3. DiskInv(fs, Scanned(L), now)
      BY <3>1, <3>2, PartDisk
    <3> QED
      BY <3>3, RebuiltOK
  <2>2. acked[k] # Unsure /\ k \notin harmed' =>
          Holds(keyDir'[k], acked[k], L, k) /\ ComesTo(acked[k], L, k)
    BY FoundHolds
  <2> QED
    BY <2>1, <2>2 DEF KeyNext
<1>7. now \in Nat \ {0} /\ acked' \in [Keys -> Values \cup {None, Unsure}]
  BY DEF FaultsInv
<1> QED
  BY <1>4, <1>5, <1>6, <1>7, FaultsInvNext

\* Reopen puts a first file where there is none.
LEMMA ReopenInv ==
  ASSUME Plain, FaultsInv, NEW fs, NEW L, NEW T, DiskInv(fs, L, now), AllNewest(fs),
         Reopen(fs, L, T),
         \A k \in Keys : acked[k] # Unsure /\ k \notin harmed' => Found(k, L)
  PROVE  FaultsInv'
<1>1. /\ files' = IF fs = [f \in {} |-> 0] THEN [f \in {1} |-> 0] ELSE fs
      /\ log' = L /\ activeFileID' = LastFile(files') /\ now' = now /\ acked' = acked
      /\ keyDir' = RebuildKeyDir(Scanned(L), FALSE)
  BY DEF Reopen
<1>2. DiskOK(fs, L)
  BY DEF DiskInv
<1>3. CASE fs = [f \in {} |-> 0]
  <2> DEFINE gs == [f \in {1} |-> 0]
  <2>1. L = {}
    BY <1>2, <1>3 DEF DiskOK
  <2>2. DiskOK(gs, L) /\ AllNewest(gs) /\ DOMAIN gs # {}
    BY <2>1, OneFile
  <2>3. DiskInv(gs, L, now)
    BY <2>2, PartDisk
  <2>4. files' = gs
    BY <1>1, <1>3
  <2> HIDE DEF gs
  <2> QED
    BY <1>1, <2>2, <2>3, <2>4, StartInv
<1>4. CASE fs # [f \in {} |-> 0]
  <2>1. DOMAIN fs # {}
    <3>1. fs = [f \in DOMAIN fs |-> fs[f]]
      BY <1>2 DEF DiskOK
    <3> QED
      BY <1>4, <3>1
  <2>2. files' = fs
    BY <1>1, <1>4
  <2> QED
    BY <1>1, <2>1, <2>2, StartInv
<1> QED
  BY <1>3, <1>4

\* The entries of a key whose value is known, when no file or torn place is in the way.
LEMMA LastFound ==
  ASSUME FaultsInv, NEW k \in Keys, Known(k), k \notin stale, ~Behind(k)
  PROVE  Found(k, log)
<1>1. ComesTo(acked[k], log, k) /\ DiskOK(files, log)
  BY DEF FaultsInv, KeyInv, DiskInv
<1>2. ASSUME NEW w \in log, IsTop(log, k, w), acked[k] = ValueOf(w)
      PROVE  Found(k, log)
  <2>1. Winner(log, k) = w /\ EntriesOf(log, k) # {}
    BY <1>1, <1>2, TopWins
  <2> QED
    BY <1>2, <2>1 DEF Behind, Found
<1> QED
  BY <1>1, <1>2 DEF ComesTo, Found

\* A restart at any moment.
LEMMA RestartAnyInv ==
  ASSUME Plain, FaultsInv, RestartAny
  PROVE  FaultsInv'
<1>1. DiskInv(files, log, now) /\ AllNewest(files)
  BY DEF FaultsInv
<1>2. /\ Reopen(files, log, torn)
      /\ harmed' = harmed \cup stale \cup {k \in Keys : Behind(k)}
  BY DEF RestartAny
<1>3. ASSUME NEW k \in Keys, acked[k] # Unsure, k \notin harmed'
      PROVE  Found(k, log)
  BY <1>2, <1>3, LastFound DEF Known
<1> QED
  BY <1>1, <1>2, <1>3, ReopenInv

\* A crash inside a compaction: a key keeps its last entry, or it has none left and had
\* been deleted.
LEMMA CrashCompactingInv ==
  ASSUME Plain, FaultsInv, NEW m \in Nat, NEW left \in SUBSET DOMAIN files,
         CrashCompacting(m, left)
  PROVE  FaultsInv'
<1> DEFINE S == {f \in DOMAIN files : f >= m} \cup left
           fs == IF S = {} THEN [f \in {0} |-> 0] ELSE [f \in S |-> files[f]]
           L == InFiles(log, S)
           T == {t \in torn : t.file \in S}
           H == {k \in Keys : \/ Behind(k)
                              \/ Live(k) /\ keyDir[k].FileID \notin S
                              \/ HasEntry(k, InFiles(log, left)) /\ Winner(log, k).file \notin S}
<1>1. Reopen(fs, L, T) /\ harmed' = harmed \cup stale \cup H
  BY DEF CrashCompacting
<1>2. DiskOK(files, log) /\ S \in SUBSET DOMAIN files /\ DOMAIN files \subseteq Nat
  BY DEF FaultsInv, DiskInv, DiskOK
<1>3. DiskInv(fs, L, now) /\ AllNewest(fs)
  <2>1. CASE S = {}
    <3>1. L = {} /\ fs = [f \in {0} |-> 0]
      BY <2>1 DEF InFiles
    <3>2. DiskOK(fs, L) /\ AllNewest(fs)
      <4> HIDE DEF fs, L
      <4> QED
        BY <3>1, OneFile
    <3>3. DiskInv(files, log, now) /\ L \in SUBSET log
      BY DEF FaultsInv, InFiles
    <3> HIDE DEF fs, L
    <3> QED
      BY <3>2, <3>3, PartDisk
  <2>2. CASE S # {}
    <3>1. fs = [f \in S |-> files[f]]
      BY <2>2
    <3> HIDE DEF S, fs
    <3> QED
      BY <1>2, <3>1, PartFiles
  <2> QED
    BY <2>1, <2>2
<1>4. \A f \in DOMAIN files : f \notin S => f < m /\ f \notin left
  BY <1>2
<1>5. \A f \in S : f \in DOMAIN files /\ (f >= m \/ f \in left)
  BY <1>2
<1> HIDE DEF S, fs
<1>6. ASSUME NEW k \in Keys, acked[k] # Unsure, k \notin harmed'
      PROVE  Found(k, L)
  <2>1. /\ Known(k) /\ k \notin stale /\ ~Behind(k)
        /\ ~(Live(k) /\ keyDir[k].FileID \notin S)
        /\ ~(HasEntry(k, InFiles(log, left)) /\ Winner(log, k).file \notin S)
    BY <1>1, <1>6 DEF Known
  <2>2. Found(k, log)
    BY <2>1, LastFound
  <2>3. CASE EntriesOf(log, k) = {} /\ acked[k] = None
    BY <2>3 DEF Found, EntriesOf, InFiles
  <2>4. ASSUME NEW w \in log, IsTop(log, k, w), ~Hidden(w), acked[k] = ValueOf(w)
        PROVE  Found(k, L)
    <3>1. Winner(log, k) = w /\ w \in Entry /\ w.file \in DOMAIN files
      BY <1>2, <2>4, TopWins DEF DiskOK
    <3>2. CASE w.file \in S
      <4>1. w \in L /\ IsTop(L, k, w)
        BY <2>4, <3>2 DEF InFiles, IsTop, EntriesOf
      <4> QED
        BY <2>4, <4>1 DEF Found
    <3>3. CASE w.file \notin S
      <4>1. EntriesOf(L, k) = {}
        <5>1. SUFFICES ASSUME NEW d \in EntriesOf(L, k)
                       PROVE  FALSE
          OBVIOUS
        <5>2. d \in log /\ d \in EntriesOf(log, k) /\ d.file \in S
          BY DEF EntriesOf, InFiles
        <5>3. d.file \notin left
          BY <2>1, <3>1, <3>3, <5>2 DEF HasEntry, EntriesOf, InFiles
        <5>4. d.file >= m /\ w.file < m /\ d.file \in Nat /\ w.file \in Nat
          BY <1>2, <1>4, <1>5, <3>1, <3>3, <5>2, <5>3
        <5>5. d = w \/ Before(d, w)
          BY <2>4, <5>2 DEF IsTop
        <5> QED
          BY <5>4, <5>5 DEF Before
      <4>2. acked[k] = None
        <5>1. SUFFICES ASSUME acked[k] # None
                       PROVE  FALSE
          OBVIOUS
        <5>2. IsLive(keyDir[k]) /\ PointsAt(keyDir[k], k, acked[k])
          BY <2>1, <5>1, KnownIs
        <5>3. keyDir[k].FileID \in S
          BY <2>1, <5>2, LiveIs DEF FaultsInv
        <5> QED
          BY <4>1, <5>2, <5>3 DEF PointsAt, EntriesOf, InFiles
      <4> QED
        BY <4>1, <4>2 DEF Found
    <3> QED
      BY <3>2, <3>3
  <2> QED
    BY <2>2, <2>3, <2>4 DEF Found
<1> HIDE DEF L, T
<1> QED
  BY <1>1, <1>3, <1>6, ReopenInv
---------------------------------------------------------------------------
\* The empty data directory.
LEMMA FaultsInitInv == FaultsInit => FaultsInv
<1> SUFFICES ASSUME FaultsInit
             PROVE  FaultsInv
  OBVIOUS
<1>1. /\ files = [f \in {1} |-> 0] /\ log = {} /\ activeFileID = 1 /\ now = 1
      /\ keyDir = [k \in Keys |-> None] /\ acked = [k \in Keys |-> None]
  BY DEF FaultsInit, Init
<1>2. DiskOK(files, log) /\ AllNewest(files) /\ AtEnd(activeFileID, files, log, stale)
  BY <1>1, OneFile DEF AtEnd
<1>3. DiskInv(files, log, now)
  BY <1>1, <1>2 DEF DiskInv, AllWinners, Winners, EntriesOf
<1>4. \A k \in Keys : KeyInv(k)
  BY <1>1 DEF KeyInv, IndexOK, Holds, ComesTo, IsLive, EntriesOf
<1> QED
  BY <1>1, <1>2, <1>3, <1>4 DEF FaultsInv

\* Every step keeps the invariant.
LEMMA FaultsNextInv == Plain /\ FaultsInv /\ [FaultsNext]_allVars => FaultsInv'
<1> SUFFICES ASSUME Plain, FaultsInv, [FaultsNext]_allVars
             PROVE  FaultsInv'
  OBVIOUS
<1>0. now \in Nat
  BY DEF FaultsInv
<1>1. ASSUME NEW k \in Keys, NEW v \in Values, PutOK(k, v) \/ PutUnlogged(k, v)
      PROVE  FaultsInv'
  BY <1>1, PutOKInv, PutUnloggedInv
<1>2. ASSUME NEW k \in Keys, DeleteOK(k) \/ DeleteUnlogged(k)
      PROVE  FaultsInv'
  BY <1>2, DeleteOKInv, DeleteUnloggedInv
<1>3. ASSUME NEW items \in Batches, NEW ord \in Orders(DOMAIN items), BatchOK(items, ord)
      PROVE  FaultsInv'
  BY <1>3, BatchOKInv
<1>4. ASSUME NEW items \in Batches, NEW ord \in Orders(DOMAIN items),
             NEW n \in 0 .. Cardinality(DOMAIN items) - 1, NEW part \in 0 .. 1,
             BatchTorn(items, ord, n, part)
      PROVE  FaultsInv'
  BY <1>4, BatchTornInv
<1>5. CASE PutTorn \/ DeleteTorn
  BY <1>5, TornInv
<1>6. CASE \/ \E n \in 1 .. Cardinality(Keys) : RotateFails(n)
           \/ Close \/ (Tick /\ UNCHANGED faultVars) \/ UNCHANGED allVars
  <2>1. /\ UNCHANGED <<files, log, keyDir, acked, stale, harmed>>
        /\ now' \in Nat /\ now <= now'
        /\ open' => open /\ activeFileID' = activeFileID
    BY <1>0, <1>6 DEF RotateFails, Close, Tick, allVars, vars, faultVars, disk
  <2> QED
    BY <2>1, StillInv
<1>7. CASE CompactReadable
  <2>1. {} \in SUBSET (DOMAIN files \ {1})
    OBVIOUS
  <2> QED
    BY <1>7, <2>1, CompactsInv
<1>8. ASSUME NEW left \in SUBSET (DOMAIN files \ {1}),
             \/ \E lost, misread \in SUBSET Keys : CompactMisses(lost, misread, left)
             \/ \E k \in Keys, failed \in 0 .. Cardinality(Keys), part \in 0 .. 1 :
                  CompactCuts(k, failed, part, left)
             \/ CompactUnopened(left)
      PROVE  FaultsInv'
  BY <1>8, CompactsInv
<1>9. ASSUME NEW left \in SUBSET DOMAIN files, CompactUnnamed(left)
      PROVE  FaultsInv'
  BY <1>9, UnnamedInv
<1>10. CASE RestartAny
  BY <1>10, RestartAnyInv
<1>11. ASSUME NEW m \in DOMAIN files, NEW left \in SUBSET {f \in DOMAIN files : f <= m},
              CrashCompacting(m + 1, left)
       PROVE  FaultsInv'
  <2>1. m + 1 \in Nat /\ left \in SUBSET DOMAIN files
    BY DEF FaultsInv, DiskInv, DiskOK
  <2> QED
    BY <1>11, <2>1, CrashCompactingInv
<1> QED
  BY <1>1, <1>2, <1>3, <1>4, <1>5, <1>6, <1>7, <1>8, <1>9, <1>10, <1>11 DEF FaultsNext

\* The invariant of the engine under failures.
THEOREM FaultsInvariant == Plain => (FaultsSpec => []FaultsInv)
<1> SUFFICES ASSUME Plain
             PROVE  FaultsSpec => []FaultsInv
  OBVIOUS
<1>1. FaultsInv /\ [FaultsNext]_allVars => FaultsInv'
  BY FaultsNextInv
<1> QED
  BY <1>1, FaultsInitInv, PTL DEF FaultsSpec
---------------------------------------------------------------------------
\* What an index record gives, in the words of the properties.
LEMMA GivesIs ==
  ASSUME NEW i, NEW t, IndexOK(i, t), NEW a, NEW k, Holds(i, a, log, k)
  PROVE  Gives(i, a, k)
<1>1. i = None \/ i.Deleted \in BOOLEAN
  BY DEF IndexOK, KeyDirInfo
<1>2. IsLive(i) <=> i # None /\ ~i.Deleted
  BY <1>1 DEF IsLive
<1> QED
  BY <1>2 DEF Holds, Gives, PointsAt

\* What the index points at is the known value.
LEMMA KeptIs == FaultsInv => AckedKept
<1> SUFFICES ASSUME FaultsInv, NEW k \in Keys, Known(k)
             PROVE  Gives(keyDir[k], acked[k], k)
  BY DEF AckedKept
<1>1. IndexOK(keyDir[k], now) /\ Holds(keyDir[k], acked[k], log, k)
  BY DEF FaultsInv, KeyInv
<1> QED
  BY <1>1, GivesIs

\* And so is what a restart finds.
LEMMA DurableIs == Plain /\ FaultsInv => AckedDurable
<1> SUFFICES ASSUME Plain, FaultsInv, NEW k \in Keys, Known(k), k \notin stale, ~Behind(k)
             PROVE  Gives(RebuildKeyDir(Scanned(log), FALSE)[k], acked[k], k)
  BY DEF AckedDurable
<1>1. DiskInv(files, log, now) /\ DiskOK(files, log) /\ Scanned(log) \in SUBSET log
  BY DEF FaultsInv, DiskInv, Scanned
<1>2. DiskInv(files, Scanned(log), now)
  <2>1. DiskOK(files, Scanned(log))
    BY <1>1 DEF DiskOK
  <2> QED
    BY <1>1, <2>1, PartDisk
<1>3. Holds(RebuildKeyDir(Scanned(log), FALSE)[k], acked[k], log, k)
  BY <1>1, LastFound, FoundHolds
<1>4. IndexOK(RebuildKeyDir(Scanned(log), FALSE)[k], now)
  BY <1>2, RebuiltOK
<1> QED
  BY <1>3, <1>4, GivesIs

\* For callers who do not put the tombstone value, without compression: whatever write,
\* rotation, WAL record or step of a compaction fails, whenever the store is closed, crashes
\* or starts again, the index gives each key that is known what the calls have made of it.
THEOREM AckedIsKept == Plain => (FaultsSpec => []AckedKept)
<1> SUFFICES ASSUME Plain
             PROVE  FaultsSpec => []AckedKept
  OBVIOUS
<1>1. FaultsSpec => []FaultsInv
  BY FaultsInvariant
<1> QED
  BY <1>1, KeptIs, PTL

\* Under the same conditions a restart would find it, unless a part of an entry hides it or
\* a file that outlived its compaction has an entry of the key.
THEOREM AckedIsDurable == Plain => (FaultsSpec => []AckedDurable)
<1> SUFFICES ASSUME Plain
             PROVE  FaultsSpec => []AckedDurable
  OBVIOUS
<1>1. FaultsSpec => []FaultsInv
  BY FaultsInvariant
<1>2. FaultsInv => AckedDurable
  BY DurableIs
<1> QED
  BY <1>1, <1>2, PTL
===========================================================================
