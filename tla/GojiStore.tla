----------------------------- MODULE GojiStore -----------------------------
(***************************************************************************)
(* The storage engine of db.go: the append-only data files of the data     *)
(* directory, the in-memory index keyDir that points into them, and every  *)
(* operation that changes either.  The lock db.mu serialises the writers,  *)
(* so an operation is one step; what happens outside the lock is a step of *)
(* its own: PutWithTTL builds its entry, timestamp included, before it     *)
(* takes the lock, and a Get that meets an expired key leaves a goroutine  *)
(* behind that deletes the key later.                                      *)
(*                                                                         *)
(* The files are the set log of the entries in them.  An entry knows its   *)
(* file and its place in that file; every entry has length one, so a       *)
(* place is a number of entries and MaxFileSize counts entries.  Time is   *)
(* the uint32 of seconds the code stores.  WAL and caches have modules of  *)
(* their own.                                                              *)
(***************************************************************************)
EXTENDS Integers, FiniteSets, Functions

CONSTANTS
  Keys,              \* the keys callers use (never the empty key, which every operation rejects)
  Values,            \* the values callers put
  Tombstone,         \* TombstoneValue, the value Delete writes
  None,              \* no index entry, no write in progress
  Clients,           \* goroutines that call Put
  TTLs,              \* the ttl arguments in seconds: 0 none, negative expires at once
  SmartCompression,  \* config.SmartCompression # nil with a CompressionType that compresses
  MaxFileSize,       \* config.MaxFileSize
  MaxTime,           \* bound: the last second of the clock
  MaxLog,            \* bound: no caller writes once the files hold this many entries
  MaxFileID,         \* bound: no caller writes to a file beyond this one
  MaxExpirers        \* bound: deletions of one key in flight at once

ASSUME KeysAssumption == IsFiniteSet(Keys)
ASSUME TimeAssumption == MaxTime \in Nat \ {0} /\ TTLs \subseteq Int
ASSUME SizeAssumption == MaxFileSize \in Nat /\ MaxLog \in Nat /\ MaxFileID \in Nat
                         /\ MaxExpirers \in Nat
ASSUME ConfigAssumption == SmartCompression \in BOOLEAN

VARIABLES
  files,         \* the data files: file ID |-> size
  log,           \* the entries in them
  activeFileID,  \* the file being appended to
  keyDir,        \* the index: key |-> where its newest entry is
  pending,       \* client |-> the put it has stamped and not yet written
  expiring,      \* key |-> how many expireKey goroutines wait for the lock
  now            \* time.Now().Unix()

vars == <<files, log, activeFileID, keyDir, pending, expiring, now>>
disk == <<files, log>>
---------------------------------------------------------------------------
Entry == [file : Nat, pos : Nat, key : Keys, ts : Nat, ttl : Nat,
          val : Values \cup {Tombstone}, readable : BOOLEAN]

KeyDirInfo == [FileID : Nat, ValuePos : Nat, Timestamp : Nat, TTL : Nat, Deleted : BOOLEAN]

PutRequest == [key : Keys, val : Values, ts : Nat, ttl : Nat]

ASSUME NoneAssumption == None \notin KeyDirInfo /\ None \notin PutRequest

SizeAt(id) == IF id \in DOMAIN files THEN files[id] ELSE 0

\* Mutant of Grow: rotation opens the next file without O_CREATE.
GrowExisting(id, n) ==
  [f \in DOMAIN files |-> IF f = id THEN SizeAt(f) + n ELSE SizeAt(f)]

\* The files after n entries went to the end of file id, opened with O_CREATE and O_APPEND.
Grow(id, n) ==
  [f \in DOMAIN files \cup {id} |-> IF f = id THEN SizeAt(f) + n ELSE SizeAt(f)]

\* The file a write of n entries goes to: rotateActiveFile opens the next one when the
\* active one would grow past MaxFileSize.
FileFor(n) ==
  IF files[activeFileID] + n > MaxFileSize THEN activeFileID + 1 ELSE activeFileID

\* The expiry second PutWithTTL and SetTTL store; 0 stands for never.
Deadline(ttl) == IF ttl > 0 THEN now + ttl ELSE IF ttl < 0 THEN now ELSE 0

Live(k) == keyDir[k] # None /\ ~keyDir[k].Deleted

\* checkTTL, and the same test in BatchGet and GetTTL.
Expired(k) == keyDir[k].TTL > 0 /\ now >= keyDir[k].TTL

\* An entry as Put and BatchPut write it: what they compress, decompress gives back.
PutEntry(id, p, k, v, ts, ttl) ==
  [file |-> id, pos |-> p, key |-> k, ts |-> ts, ttl |-> ttl, val |-> v, readable |-> TRUE]

\* Mutant of TombstoneEntry: the Timestamp field is left out of the entry.
TombstoneUnstamped(id, p, k) ==
  [file |-> id, pos |-> p, key |-> k, ts |-> 0, ttl |-> 0, val |-> Tombstone,
   readable |-> ~SmartCompression]

\* An entry as Delete and deleteInternal write it.  The smart compressor leaves eleven
\* bytes raw, and the entry is labelled with config.CompressionType all the same: the
\* decompress that rebuildKeyDir runs at start-up, before there is a smart compressor,
\* cannot read it.
TombstoneEntry(id, p, k) ==
  [file |-> id, pos |-> p, key |-> k, ts |-> now, ttl |-> 0, val |-> Tombstone,
   readable |-> ~SmartCompression]

Info(e, deleted) ==
  [FileID |-> e.file, ValuePos |-> e.pos, Timestamp |-> e.ts, TTL |-> e.ttl,
   Deleted |-> deleted]
---------------------------------------------------------------------------
(* rebuildKeyDir: a scan of the files by ID and of each from its start, in *)
(* which an entry replaces the one before it unless its timestamp is       *)
(* older.  What is left for a key is its last entry among the newest.      *)

Before(d, e) == \/ d.file < e.file
                \/ d.file = e.file /\ d.pos < e.pos

EntriesOf(L, k) == {e \in L : e.key = k}

\* Mutant of Beats: processFile replaces an entry only by a strictly newer one.
BeatsIfNewer(e, d) == e.ts > d.ts \/ (e.ts = d.ts /\ Before(e, d))

Beats(e, d) == e.ts > d.ts \/ (e.ts = d.ts /\ Before(d, e))

Winner(L, k) ==
  CHOOSE e \in EntriesOf(L, k) : \A d \in EntriesOf(L, k) : d = e \/ Beats(e, d)

\* isTomb of processFile; smart says whether db.smartCompressor exists when it runs.
IsTomb(e, smart) == e.val = Tombstone /\ (e.readable \/ smart)

RebuildKeyDir(L, smart) ==
  [k \in Keys |-> IF EntriesOf(L, k) = {} THEN None
                  ELSE LET e == Winner(L, k) IN Info(e, IsTomb(e, smart))]

LastFile(fs) == CHOOSE id \in DOMAIN fs : \A f \in DOMAIN fs : f <= id

\* NewGojiDB on the data directory (fs, L): nothing of the old process is left but the disk.
Open(fs, L) ==
  /\ files' = fs
  /\ log' = L
  /\ activeFileID' = LastFile(fs)
  /\ keyDir' = RebuildKeyDir(L, FALSE)
  /\ pending' = [c \in Clients |-> None]
  /\ expiring' = [k \in Keys |-> 0]
---------------------------------------------------------------------------
Init ==
  /\ files = [f \in {1} |-> 0]
  /\ log = {}
  /\ activeFileID = 1
  /\ keyDir = [k \in Keys |-> None]
  /\ pending = [c \in Clients |-> None]
  /\ expiring = [k \in Keys |-> 0]
  /\ now = 1

Room(n) == Cardinality(log) + n <= MaxLog /\ FileFor(n) <= MaxFileID

Tick ==
  /\ now < MaxTime
  /\ now' = now + 1
  /\ UNCHANGED <<disk, activeFileID, keyDir, pending, expiring>>

\* The part of PutWithTTL under db.mu: append, then index.
WritePut(r) ==
  LET id == FileFor(1)
      e  == PutEntry(id, SizeAt(id), r.key, r.val, r.ts, r.ttl)
  IN  /\ files' = Grow(id, 1)
      /\ log' = log \cup {e}
      /\ activeFileID' = id
      /\ keyDir' = [keyDir EXCEPT ![r.key] = Info(e, FALSE)]

\* The part before it: the entry gets its timestamp and its expiry.
Stamp(k, v, ttl) == [key |-> k, val |-> v, ts |-> now, ttl |-> Deadline(ttl)]

BeginPut(c, k, v, ttl) ==
  /\ pending[c] = None
  /\ pending' = [pending EXCEPT ![c] = Stamp(k, v, ttl)]
  /\ UNCHANGED <<disk, activeFileID, keyDir, expiring, now>>

EndPut(c) ==
  /\ pending[c] # None
  /\ Room(1)
  /\ WritePut(pending[c])
  /\ pending' = [pending EXCEPT ![c] = None]
  /\ UNCHANGED <<expiring, now>>

\* A put nobody else runs beside: both parts in one step.
Put(k, v, ttl) ==
  /\ Room(1)
  /\ WritePut(Stamp(k, v, ttl))
  /\ UNCHANGED <<pending, expiring, now>>

\* Mutant of BatchEntries: currentPos is not advanced after an entry.
BatchEntriesAtStart(id, items, ord) ==
  {PutEntry(id, SizeAt(id), k, items[k], now, 0) : k \in DOMAIN items}

\* The entries of a batch that starts at the end of file id, in the order ord in which
\* range walks the map items.
BatchEntries(id, items, ord) ==
  {PutEntry(id, SizeAt(id) + ord[k], k, items[k], now, 0) : k \in DOMAIN items}

BatchPut(items, ord) ==
  LET n  == Cardinality(DOMAIN items)
      id == FileFor(n)
  IN  /\ Room(n)
      /\ files' = Grow(id, n)
      /\ log' = log \cup BatchEntries(id, items, ord)
      /\ activeFileID' = id
      /\ keyDir' = [k \in Keys |->
            IF k \in DOMAIN items
            THEN Info(PutEntry(id, SizeAt(id) + ord[k], k, items[k], now, 0), FALSE)
            ELSE keyDir[k]]
      /\ UNCHANGED <<pending, expiring, now>>

\* What Delete and deleteInternal have in common; neither rotates the file.
WriteTombstone(k) ==
  /\ files' = Grow(activeFileID, 1)
  /\ log' = log \cup {TombstoneEntry(activeFileID, SizeAt(activeFileID), k)}
  /\ keyDir' = [keyDir EXCEPT ![k].Deleted = TRUE, ![k].Timestamp = now]
  /\ UNCHANGED activeFileID

\* Delete asks only whether the key is indexed: a deleted key can be deleted again.
Delete(k) ==
  /\ keyDir[k] # None
  /\ Room(1)
  /\ WriteTombstone(k)
  /\ UNCHANGED <<pending, expiring, now>>

SetTTL(k, ttl) ==
  /\ Live(k)
  /\ keyDir' = [keyDir EXCEPT ![k].TTL = IF ttl > 0 THEN now + ttl ELSE 0]
  /\ UNCHANGED <<disk, activeFileID, pending, expiring, now>>

\* A Get that finds the key expired: go db.expireKey(key).
GetExpired(k) ==
  /\ Live(k)
  /\ Expired(k)
  /\ expiring[k] < MaxExpirers
  /\ expiring' = [expiring EXCEPT ![k] = @ + 1]
  /\ UNCHANGED <<disk, activeFileID, keyDir, pending, now>>

\* expireKey, which asks again whether the key is there but not whether it is expired.
ExpireKey(k) ==
  /\ expiring[k] > 0
  /\ expiring' = [expiring EXCEPT ![k] = @ - 1]
  /\ IF Live(k) THEN WriteTombstone(k) ELSE UNCHANGED <<disk, activeFileID, keyDir>>
  /\ UNCHANGED <<pending, now>>
---------------------------------------------------------------------------
EntryAt(id, p) == CHOOSE e \in log : e.file = id /\ e.pos = p

\* collectActiveKeys: it keeps a key through the second in which it expires.
ActiveKeys == {k \in Keys : Live(k) /\ (keyDir[k].TTL = 0 \/ now <= keyDir[k].TTL)}

\* Mutant of Rewritten: createEntry forgets the expiry.
RewrittenNoTTL(k, p) ==
  PutEntry(1, p, k, EntryAt(keyDir[k].FileID, keyDir[k].ValuePos).val,
           keyDir[k].Timestamp, 0)

\* rewriteActiveKeys and createEntry: the value as it is on disk, the timestamp and the
\* expiry as they are in the index.
Rewritten(k, p) ==
  PutEntry(1, p, k, EntryAt(keyDir[k].FileID, keyDir[k].ValuePos).val,
           keyDir[k].Timestamp, keyDir[k].TTL)

\* Compact, when every file operation succeeds: the active keys go to a new file 1 in the
\* order ord in which range walks them, and it is all that is left.
Compact(ord) ==
  /\ files' = [f \in {1} |-> Cardinality(ActiveKeys)]
  /\ log' = {Rewritten(k, ord[k]) : k \in ActiveKeys}
  /\ activeFileID' = 1
  /\ keyDir' = [k \in Keys |-> IF k \in ActiveKeys THEN Info(Rewritten(k, ord[k]), FALSE)
                                                 ELSE None]
  /\ UNCHANGED <<pending, expiring, now>>

\* The process ends, between two operations or inside a put or a batch that wrote some of
\* its entries to the file and none of them to the index, and NewGojiDB runs again.
Restart ==
  /\ Open(files, log)
  /\ UNCHANGED now

CrashWriting(r) ==
  LET id == FileFor(1)
  IN  /\ Room(1)
      /\ Open(Grow(id, 1), log \cup {PutEntry(id, SizeAt(id), r.key, r.val, r.ts, r.ttl)})
      /\ UNCHANGED now

CrashInPut(c) == pending[c] # None /\ CrashWriting(pending[c])

CrashInBatch(items, ord, n) ==
  LET id == FileFor(Cardinality(DOMAIN items))
      W  == {k \in DOMAIN items : ord[k] < n}
  IN  /\ Room(Cardinality(DOMAIN items))
      /\ Open(Grow(id, n), log \cup {e \in BatchEntries(id, items, ord) : e.key \in W})
      /\ UNCHANGED now

InFiles(L, S) == {e \in L : e.file \in S}

\* The process ends inside Compact, after cleanupOldFiles has removed the files below m and
\* before the new file has the name 1.data; under the name it has, no start-up reads it.
\* (Files go in the order of their names, which up to nine of them is that of their IDs.)
\* When no other file is left, NewGojiDB starts with file 0.
CrashInCompact(m) ==
  LET S == {f \in DOMAIN files : f >= m}
  IN  /\ Open(IF S = {} THEN [f \in {0} |-> 0] ELSE [f \in S |-> files[f]], InFiles(log, S))
      /\ UNCHANGED now

Orders(S) == Bijection(S, 0 .. Cardinality(S) - 1)

Batches == UNION {[S -> Values] : S \in SUBSET Keys \ {{}}}

Next ==
  \/ Tick
  \/ \E c \in Clients : \/ \E k \in Keys, v \in Values, ttl \in TTLs : BeginPut(c, k, v, ttl)
                        \/ EndPut(c)
                        \/ CrashInPut(c)
  \/ \E items \in Batches : \E ord \in Orders(DOMAIN items) :
       \/ BatchPut(items, ord)
       \/ \E n \in 1 .. Cardinality(DOMAIN items) : CrashInBatch(items, ord, n)
  \/ \E k \in Keys : \/ Delete(k)
                     \/ \E ttl \in TTLs : SetTTL(k, ttl)
                     \/ GetExpired(k)
                     \/ ExpireKey(k)
  \/ \E ord \in Orders(ActiveKeys) : Compact(ord)
  \/ \E m \in DOMAIN files : CrashInCompact(m + 1)
  \/ Restart

Spec == Init /\ [][Next]_vars
---------------------------------------------------------------------------
\* The variables hold what their declarations say.
TypeOK ==
  /\ DOMAIN files \subseteq Nat /\ files \in [DOMAIN files -> Nat]
  /\ log \subseteq Entry
  /\ activeFileID \in DOMAIN files
  /\ keyDir \in [Keys -> KeyDirInfo \cup {None}]
  /\ pending \in [Clients -> PutRequest \cup {None}]
  /\ expiring \in [Keys -> Nat]
  /\ now \in Nat \ {0}

\* No two entries share a place, every entry lies inside its file, and what the index
\* holds for a key is the place of an entry of that very key.  Rotation, batches laid out
\* from one starting offset, compaction and the rebuild each compute places in their own
\* way; a wrong one serves a key another key's bytes.
IndexExact ==
  /\ \A d, e \in log : d.file = e.file /\ d.pos = e.pos => d = e
  /\ \A e \in log : e.file \in DOMAIN files /\ e.pos < files[e.file]
  /\ \A k \in Keys : keyDir[k] # None =>
       \E e \in log : /\ e.key = k
                      /\ e.file = keyDir[k].FileID /\ e.pos = keyDir[k].ValuePos
                      /\ Live(k) => e.ts = keyDir[k].Timestamp

\* The entries of k carry timestamps in the order in which they were written.
InOrder(k) == \A d, e \in EntriesOf(log, k) : Before(d, e) => d.ts <= e.ts

\* What a restart at this moment would make of k is what the index has now: nothing
\* written is lost, nothing deleted comes back, no older value wins.  It is promised for a
\* key whose puts reached the file in the order of their timestamps, with tombstones the
\* start-up scan can read and no caller that puts the tombstone value itself.
RecoveryExact ==
  Tombstone \notin Values /\ ~SmartCompression =>
    \A k \in Keys : InOrder(k) =>
      LET r == RebuildKeyDir(log, FALSE)[k]
      IN  /\ r = None <=> keyDir[k] = None
          /\ r # None => (r.Deleted <=> keyDir[k].Deleted)
          /\ Live(k) => r.FileID = keyDir[k].FileID /\ r.ValuePos = keyDir[k].ValuePos

\* What Get returns for k, and until when.
Read(k) == IF Live(k) /\ ~Expired(k)
           THEN [val |-> EntryAt(keyDir[k].FileID, keyDir[k].ValuePos).val, until |-> keyDir[k].TTL]
           ELSE None

\* Compaction changes no answer: every key reads as before, until the same second.
CompactKeepsReads ==
  [][(\E ord \in Orders(ActiveKeys) : Compact(ord)) => \A k \in Keys : Read(k)' = Read(k)]_vars
===========================================================================
