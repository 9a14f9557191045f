----------------------------- MODULE GojiCache -----------------------------
(***************************************************************************)
(* Get and the two caches before it: cache.go and the read path of db.go.  *)
(* Get looks the key up in keyCache and the block in blockCache without    *)
(* db.mu (the fast path), then goes through keyDir, blockCache and the     *)
(* file under db.mu.RLock.  The writers append to the files under db.mu;   *)
(* some of them empty blockCache and some do not.                          *)
(*                                                                         *)
(* A file is a sequence of cells: a header takes HeaderLen of them and a   *)
(* value ValueLen, so that blocks of BlockSize cells cut entries anywhere. *)
(* There is no compression.  keyCache keeps no expiry, so of a TTL only    *)
(* the deletion shows that expireKey makes when it is over.                *)
(***************************************************************************)
EXTENDS Integers, Sequences, FiniteSets, SequencesExt, Functions

CONSTANTS
  Keys, Values,
  Header,          \* a cell of a header
  Tombstone,       \* a cell of the value of a deletion
  Zero,            \* a cell no write has reached
  None,            \* no index entry, no answer
  Readers,         \* goroutines that call Get
  HeaderLen,       \* HeaderSize and the key, in cells
  ValueLen,        \* a value, in cells
  BlockSize,       \* blockCache.blockSize, in cells
  KeyCacheSize, BlockCacheSize,
  MaxFileSize,     \* config.MaxFileSize, in cells
  MaxLog           \* bound: writers stop when the files hold this many entries

ASSUME KeysAssumption == IsFiniteSet(Keys)
ASSUME LengthAssumption == {HeaderLen, ValueLen, BlockSize} \subseteq Nat \ {0}
ASSUME CacheAssumption == {KeyCacheSize, BlockCacheSize, MaxFileSize, MaxLog} \subseteq Nat

VARIABLES
  files,       \* the data files by ID; the last one is active
  keyDir,      \* key |-> where its value is, or None
  keyCache,    \* its items, the most recently used first
  blockCache,
  reader,      \* reader |-> where its Get is
  seen,        \* history: reader |-> what its key held at some moment since the call
  quiet        \* history: every write since blockCache was last emptied emptied it too

vars == <<files, keyDir, keyCache, blockCache, reader, seen, quiet>>
store == <<files, keyDir>>
---------------------------------------------------------------------------
(* LRUCache.                                                               *)

Has(c, k) == \E i \in DOMAIN c : c[i].key = k

\* items, the map from a key to its element of the list.
Elem(c, k) == CHOOSE i \in DOMAIN c : c[i].key = k

ItemOf(c, k) == c[Elem(c, k)].val

\* Remove.
Without(c, k) == IF Has(c, k) THEN RemoveAt(c, Elem(c, k)) ELSE c

\* Get, when it finds k.
Touch(c, k) == <<[key |-> k, val |-> ItemOf(c, k)]>> \o Without(c, k)

\* Mutant of SetItem: the old item of k is not taken out first.
SetItemTwice(c, k, v, capacity) ==
  <<[key |-> k, val |-> v]>> \o (IF Len(c) >= capacity /\ c # <<>> THEN Front(c) ELSE c)

\* Set: the old item of k goes, then the oldest one if the cache is full, so that a cache
\* of capacity 0 holds one item all the same.
SetItem(c, k, v, capacity) ==
  LET rest == Without(c, k)
  IN  <<[key |-> k, val |-> v]>>
        \o (IF Len(rest) >= capacity /\ rest # <<>> THEN Front(rest) ELSE rest)
---------------------------------------------------------------------------
KeyDir == [FileID : Nat \ {0}, ValuePos : Nat, Deleted : BOOLEAN]

Place == [FileID : Nat \ {0}, ValuePos : Nat]

PlaceOf(info) == [FileID |-> info.FileID, ValuePos |-> info.ValuePos]

EntryLen == HeaderLen + ValueLen

\* ReadAt into n cells that were zero: what lies beyond the end of the file stays zero.
ReadAt(p, n) ==
  LET f == files[p.FileID]
  IN  [i \in 1 .. n |-> IF p.ValuePos + i <= Len(f) THEN f[p.ValuePos + i] ELSE Zero]

BlockOf(p) == [p EXCEPT !.ValuePos = BlockSize * (@ \div BlockSize)]

\* What extractDataFromBlock copies out of the block, and whether the value ends in it.
InBlock(p) == p.ValuePos - BlockOf(p).ValuePos + ValueLen <= BlockSize

\* Mutant of Extract: the offset in the block is not applied.
ExtractAtStart(block, p) == SubSeq(block, 1, ValueLen)

Extract(block, p) ==
  LET offset == p.ValuePos - BlockOf(p).ValuePos
  IN  SubSeq(block, offset + 1, offset + ValueLen)

Live(k) == keyDir[k] # None /\ ~keyDir[k].Deleted

Answer(k) == IF Live(k) THEN ReadAt(PlaceOf(keyDir[k]), ValueLen) ELSE None
---------------------------------------------------------------------------
Idle == [pc |-> "idle", key |-> None, at |-> None, out |-> None]

Init ==
  /\ files = << <<>> >>
  /\ keyDir = [k \in Keys |-> None]
  /\ keyCache = <<>> /\ blockCache = <<>>
  /\ reader = [r \in Readers |-> Idle]
  /\ seen = [r \in Readers |-> {}]
  /\ quiet = TRUE

\* Orders in which range goes through a map of some of the keys.
Orders ==
  {order \in UNION {[1 .. n -> Keys] : n \in 0 .. Cardinality(Keys)} : IsInjective(order)}

\* db.mu.Lock.
Exclusive == \A r \in Readers : reader[r].pc \notin {"locked", "file"}

Room(n) ==
  FoldFunction(LAMBDA f, s : Len(f) + s, 0, files) + n * EntryLen <= MaxLog * EntryLen

\* The files after n entries have room in the active one, and its ID.
Rotated(n) ==
  IF Len(Last(files)) + n * EntryLen > MaxFileSize THEN Append(files, <<>>) ELSE files

\* The cells of the entries of a sequence of values.
Written(values) ==
  [c \in 1 .. Len(values) * EntryLen |->
     IF (c - 1) % EntryLen < HeaderLen THEN Header ELSE values[(c - 1) \div EntryLen + 1]]

\* fs with these entries behind the last one.
WithEntries(fs, values) == [fs EXCEPT ![Len(fs)] = @ \o Written(values)]

\* Where the value of the i-th entry appended to fs is.
NewPlace(fs, i) ==
  [FileID |-> Len(fs), ValuePos |-> Len(Last(fs)) + (i - 1) * EntryLen + HeaderLen,
   Deleted |-> FALSE]

\* Callers in the middle of a Get stay where they are and see what a key holds from now on.
Witnessed ==
  /\ UNCHANGED reader
  /\ seen' = [r \in Readers |->
        IF reader[r].pc = "idle" THEN seen[r]
        ELSE seen[r] \cup {Answer(reader[r].key)'}]

\* Mutant of Emptied: only the blocks of files before the active one are dropped.
EmptiedBefore == SelectSeq(blockCache, LAMBDA x : x.key.FileID = Len(files))

\* InvalidateFile, which drops every block of every file.
Emptied == <<>>

Put(k, v) ==
  /\ Exclusive /\ Room(1)
  /\ LET fs == Rotated(1)
     IN  /\ files' = WithEntries(fs, <<v>>)
         /\ keyDir' = [keyDir EXCEPT ![k] = NewPlace(fs, 1)]
         /\ keyCache' = SetItem(keyCache, k, PlaceOf(NewPlace(fs, 1)), KeyCacheSize)
  /\ blockCache' = Emptied /\ quiet' = TRUE
  /\ Witnessed

\* BatchPut of the keys of order, in that order; it leaves both caches as they are.
BatchPut(order, items) ==
  /\ order # <<>>
  /\ Exclusive /\ Room(Len(order))
  /\ LET fs == Rotated(Len(order))
     IN  /\ files' = WithEntries(fs, [i \in DOMAIN order |-> items[order[i]]])
         /\ keyDir' = [k \in Keys |-> IF k \in Range(order)
                                      THEN NewPlace(fs, CHOOSE i \in DOMAIN order : order[i] = k)
                                      ELSE keyDir[k]]
  /\ quiet' = FALSE
  /\ Witnessed
  /\ UNCHANGED <<keyCache, blockCache>>

\* What Delete and deleteInternal have in common.
WriteTombstone(k) ==
  /\ Exclusive /\ Room(1)
  /\ files' = WithEntries(files, <<Tombstone>>)
  /\ keyDir' = [keyDir EXCEPT ![k].Deleted = TRUE]
  /\ Witnessed

Delete(k) ==
  /\ keyDir[k] # None
  /\ WriteTombstone(k)
  /\ keyCache' = Without(keyCache, k)
  /\ blockCache' = Emptied /\ quiet' = TRUE

\* expireKey, of a key whose time is over; the caches keep it.
ExpireKey(k) ==
  /\ Live(k)
  /\ WriteTombstone(k)
  /\ quiet' = FALSE
  /\ UNCHANGED <<keyCache, blockCache>>

\* Compact: file 1 holds the live keys, in the order of a map; the caches know nothing of it.
Compact(order) ==
  /\ Range(order) = {k \in Keys : Live(k)}
  /\ Exclusive
  /\ files' = WithEntries(<< <<>> >>, [i \in DOMAIN order |-> Answer(order[i])[1]])
  /\ keyDir' = [k \in Keys |-> IF k \in Range(order)
                               THEN NewPlace(<< <<>> >>, CHOOSE i \in DOMAIN order : order[i] = k)
                               ELSE None]
  /\ quiet' = FALSE
  /\ Witnessed
  /\ UNCHANGED <<keyCache, blockCache>>
---------------------------------------------------------------------------
Goto(r, pc, at) ==
  /\ reader' = [reader EXCEPT ![r].pc = pc, ![r].at = at]
  /\ UNCHANGED seen

Return(r, out) ==
  /\ reader' = [reader EXCEPT ![r] = [Idle EXCEPT !.out = out]]
  /\ seen' = [seen EXCEPT ![r] = {}]

\* The call: GetKeyDir of keyCache.
BeginGet(r, k) ==
  /\ reader[r].pc = "idle"
  /\ IF Has(keyCache, k)
     THEN /\ reader' = [reader EXCEPT ![r] = [Idle EXCEPT !.pc = "block", !.key = k,
                                                         !.at = ItemOf(keyCache, k)]]
          /\ keyCache' = Touch(keyCache, k)
     ELSE /\ reader' = [reader EXCEPT ![r] = [Idle EXCEPT !.pc = "lock", !.key = k]]
          /\ UNCHANGED keyCache
  /\ seen' = [seen EXCEPT ![r] = {Answer(k)}]
  /\ UNCHANGED <<store, blockCache, quiet>>

\* tryCacheRead: the block under the place of the value itself is the answer, all of it.
TryCacheRead(r) ==
  /\ reader[r].pc = "block"
  /\ IF Has(blockCache, reader[r].at)
     THEN /\ Return(r, ItemOf(blockCache, reader[r].at))
          /\ blockCache' = Touch(blockCache, reader[r].at)
     ELSE /\ Goto(r, "lock", None)
          /\ UNCHANGED blockCache
  /\ UNCHANGED <<store, keyCache, quiet>>

\* db.mu.RLock and the lookup in keyDir.
ReadIndex(r) ==
  /\ reader[r].pc = "lock"
  /\ LET k == reader[r].key
     IN  IF Live(k)
         THEN /\ Goto(r, "locked", PlaceOf(keyDir[k]))
              /\ keyCache' = SetItem(keyCache, k, PlaceOf(keyDir[k]), KeyCacheSize)
         ELSE /\ Return(r, None)
              /\ UNCHANGED keyCache
  /\ UNCHANGED <<store, blockCache, quiet>>

\* readData: the value comes from the cached block if it ends in it.
ReadBlock(r) ==
  /\ reader[r].pc = "locked"
  /\ LET at == reader[r].at
         b  == BlockOf(at)
     IN  IF Has(blockCache, b)
         THEN /\ blockCache' = Touch(blockCache, b)
              /\ IF InBlock(at) THEN Return(r, Extract(ItemOf(blockCache, b), at))
                                ELSE Goto(r, "file", at)
         ELSE Goto(r, "file", at) /\ UNCHANGED blockCache
  /\ UNCHANGED <<store, keyCache, quiet>>

\* readFromFileAndCache and updateBlockCache.
ReadFile(r) ==
  /\ reader[r].pc = "file"
  /\ LET at == reader[r].at
         b  == BlockOf(at)
     IN  /\ Return(r, ReadAt(at, ValueLen))
         /\ blockCache' = SetItem(blockCache, b, ReadAt(b, BlockSize), BlockCacheSize)
  /\ UNCHANGED <<store, keyCache, quiet>>

Next ==
  \/ \E k \in Keys : (\E v \in Values : Put(k, v)) \/ Delete(k) \/ ExpireKey(k)
  \/ \E order \in Orders : \/ \E items \in [Keys -> Values] : BatchPut(order, items)
                          \/ Compact(order)
  \/ \E r \in Readers : \/ \E k \in Keys : BeginGet(r, k)
                        \/ TryCacheRead(r)
                        \/ ReadIndex(r)
                        \/ ReadBlock(r)
                        \/ ReadFile(r)

Spec == Init /\ [][Next]_vars
---------------------------------------------------------------------------
AtMostOnce(c) == \A i, j \in DOMAIN c : c[i].key = c[j].key => i = j

Largest(n) == IF n = 0 THEN 1 ELSE n

\* The variables hold what their declarations say, and a cache has one item of a key and
\* no more items than its capacity, or one.
TypeOK ==
  /\ keyDir \in [Keys -> KeyDir \cup {None}]
  /\ AtMostOnce(keyCache) /\ Len(keyCache) <= Largest(KeyCacheSize)
  /\ AtMostOnce(blockCache) /\ Len(blockCache) <= Largest(BlockCacheSize)
  /\ \A i \in DOMAIN keyCache : keyCache[i].key \in Keys /\ keyCache[i].val \in Place
  /\ \A i \in DOMAIN blockCache : /\ blockCache[i].key \in Place
                                  /\ Len(blockCache[i].val) = BlockSize
  /\ \A r \in Readers : reader[r].pc \in {"idle", "block", "lock", "locked", "file"}

\* While every write empties blockCache, a cached block is what its file holds now, the
\* zeros behind the last entry included: no Get fills it from a file that has moved on.
BlocksExact ==
  quiet => \A i \in DOMAIN blockCache :
             blockCache[i].val = ReadAt(blockCache[i].key, BlockSize)

\* A Get that goes through the index answers what its key held at some moment between its
\* call and its return, wherever blocks cut the value and whatever the caches evict, while
\* every write empties blockCache.
GetsCurrent ==
  [][\A r \in Readers :
       /\ reader[r].pc \in {"lock", "locked", "file"} /\ reader'[r].pc = "idle"
       /\ quiet
       => reader'[r].out \in seen[r]]_vars

\* README_EN.md:32, "Reliable data storage and retrieval mechanisms": what a Get answers is
\* what its key held at some moment between its call and its return.
GetsReliable ==
  [][\A r \in Readers : reader[r].pc # "idle" /\ reader'[r].pc = "idle"
                        => reader'[r].out \in seen[r]]_vars
===========================================================================
