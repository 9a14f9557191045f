# GojiDB in TLA+

Specifications of GojiDB, an embedded key-value store in Go: append-only data
files, an in-memory index, optional expiry per key, a write-ahead log for
transactions, two read caches, snapshots and compression. The modules are
checked with TLC on small instances, and every invariant and step property that is
checked there is also proved with TLAPS for every value of the constants: those of
the storage engine, its refinement of a dictionary, what it keeps when file operations
fail, snapshots, the order of log and store and the replay of whole transactions, the
caches, the answers of a `BatchGet`, and which values come back from the compressor.
What is only checked is that things end (see "Only model-checked").
`PROJECT.json` lists the runs, the
lines of code each definition stands for, what the runs found, and the hazards
of the code with the properties that cover them.

To check a run: `tlc -config store.cfg MCGojiStore.tla`. To check the proofs:
`tlapm GojiStoreProofs.tla`, and the same for `GojiSerialProofs`, `GojiWALProofs`,
`GojiCacheProofs`, `GojiCompressorProofs`, `GojiFaultsProofs`, `GojiSnapshotProofs` and
`GojiBatchGetProofs`.

## The system

| part | code | state | operations | works with |
|---|---|---|---|---|
| storage engine | `db.go`, `entry.go` | data files, `activeFileID`, `keyDir`, all under `db.mu` | `Put`, `PutWithTTL`, `BatchPut`, `Delete`, `SetTTL`, `GetTTL`, `ListKeys`, `Compact`, the start-up scan `rebuildKeyDir` | logs to the WAL; fills and empties the caches; a `Get` of an expired key starts an `expireKey` goroutine; every thousandth put starts a `Compact` |
| read path and caches | `db.go`, `cache.go` | `keyCache`, `blockCache` (LRU, a lock each) | `Get`, `BatchGet`, `LRUCache.Get/Set/Remove/Clear`, `InvalidateFile` | reads caches without `db.mu`, then index and files under its read lock |
| transactions | `transaction.go` | a list of operations per transaction | `Put`, `Delete`, `Commit`, `Rollback` | logs to the WAL, then calls the engine operation by operation |
| write-ahead log | `wal.go` | the log file and the buffer before it, under `w.mu` | `WriteRecord`, `WriteTransaction`, `backgroundSync`, `Recover`, `Checkpoint` | replays into the engine at start-up |
| snapshots | `snapshot.go` | a directory of copied files per snapshot | `CreateSnapshot`, `RestoreFromSnapshot`, `ListSnapshots`, `DeleteSnapshot` | copies and replaces the engine's files |
| expiry schedulers | `ttl.go` | a heap of expiry times; a wheel of timers | `Add`, `Remove`, `processExpiredKeys`, `advance` | call `Delete` back; the engine creates a `TTLManager` and never gives it a key |
| compressor | `smart_compression.go` | a result cache, dictionaries, a pool of workers | `CompressWithSmartChoice`, `compressParallel`, `compressStream`, `Decompress`, `Close` | called for every value written and read |
| utilities | `concurrent.go`, `pool.go`, `crc32.go` | shards, queues, pools | `ConcurrentMap`, `WorkQueue`, object pools | `keyDir` is a `ConcurrentMap`, used under `db.mu` |
| interface | `cli.go`, `main/`, the second half of `db.go` | none | printing, input | calls the operations |

What is hard in it:

- *Ordering.* The start-up scan decides by timestamps of one second that are
  taken before the lock; the order in the files and the order of the timestamps
  can differ.
- *Late goroutines.* `expireKey` and the automatic `Compact` run when the state
  that started them is gone.
- *Crashes.* Every write is several steps on disk; compaction removes before it
  renames; a batch has no marker; a transaction is logged, then applied.
- *Stale reads.* `Get` looks at two caches before it takes the lock, and half of
  the writers do not touch the caches.
- *Partial failure.* A write that fails leaves bytes in the file, a rotation that
  fails leaves the engine without an active file, a compaction goes on without the
  keys it cannot read, with wrong bytes for keys whose read failed unnoticed, and
  beside old files it could not remove.
- *Workers.* The compressor and `BatchGet` hand work to goroutines through
  channels; `Close` cancels them without waiting for calls under way.
- *Shared buffers.* The compressor's cache and the results of `BatchGet` hold slices of
  buffers that others fill again.
- *Guessing.* `Decompress` tells the form of a value from its first bytes.
- *Locks.* Recovery replays through the public operations, which log, which takes
  the lock recovery holds.

What makes each part correct: the index points at the newest entry of its key and
at no other key's bytes; a restart rebuilds the index that was lost; compaction
changes no answer; a lone caller sees a dictionary; a logged transaction is
replayed whole; a `Get` answers what its key held during the call; what a call
acknowledged survives failures of other keys; a value comes back from whatever form
it was stored in; every job a worker is given ends, and with it the call.

## The modules

| module | what it is |
|---|---|
| `GojiStore` | the storage engine |
| `MCGojiStore` | its instance for TLC |
| `GojiStoreProofs` | theorems about it |
| `KVStore` | the dictionary it promises to a lone caller |
| `GojiSerial`, `MCGojiSerial` | the engine with one caller, and the refinement to `KVStore` |
| `GojiSerialProofs` | the refinement, proved |
| `GojiFaults`, `MCGojiFaults` | the engine with one caller when file operations fail, and `Close` |
| `GojiFaultsProofs` | what is acknowledged is kept, proved |
| `GojiClaims`, `MCGojiClaims` | what README and comments say of the engine and it does not do |
| `GojiWAL`, `MCGojiWAL` | transactions, the log and recovery |
| `GojiWALProofs` | log before store and whole replays, proved |
| `GojiCache`, `MCGojiCache` | `Get` and the caches |
| `GojiCacheProofs` | caches, blocks and answers, proved |
| `GojiBatchGet`, `MCGojiBatchGet` | one `BatchGet` and its workers |
| `GojiBatchGetProofs` | its answers, proved |
| `GojiSnapshot`, `MCGojiSnapshot` | snapshots on top of the engine |
| `GojiSnapshotProofs` | restores are exact, proved |
| `GojiFormats` | the stored forms of a value, as functions |
| `GojiCompressor`, `MCGojiCompressor` | the smart compressor's calls, cache, workers and `Close` |
| `GojiCompressorProofs` | no job is lost, and which values come back, proved |

`GojiSerial`, `GojiFaults`, `GojiSnapshot` and `GojiClaims` extend `GojiStore`;
`GojiCompressor` extends `GojiFormats`; each `*Proofs` extends the module it is
named after, and the three about modules that extend `GojiStore` also
`GojiStoreProofs`. `GojiWAL` has the engine as a dictionary, which `GojiSerialProofs`
justifies.

### GojiStore

`files` maps file IDs to sizes and `log` is the set of entries in them, each with
its file and its place; `keyDir` is the index, `pending` the puts that have their
timestamp and not yet the lock, `expiring` the `expireKey` goroutines that wait
for the lock, `now` the clock.

An operation is one action, because `db.mu` is held through all of it. Two are
split where the code leaves the lock: `BeginPut`/`EndPut` are `PutWithTTL` before
and after `db.mu.Lock()`, and `GetExpired`/`ExpireKey` are the `Get` that finds a
key expired and the goroutine it starts. `BatchPut`, `Delete`, `SetTTL` and
`Compact` are whole handlers: rotation (`FileFor`, `Grow`) is part of the write
that causes it, and `Compact` includes the new file, the removal of the old ones
and the new index. The order in which Go's `range` walks a map is a bijection
`ord` chosen by the step. `Restart` is the end of the process between two
operations, with `Close` or without, and the next `NewGojiDB`; `CrashInPut`,
`CrashInBatch` and `CrashInCompact` end it inside one. A `Delete` cut after its
write is the `Delete` followed by `Restart`.

`RebuildKeyDir` is the start-up scan: `Winner` is the entry a scan in file order
with the test `e.Timestamp >= old.Timestamp` ends with.

Abstractions. Every entry has length one, so a place counts entries and
`MaxFileSize` does too. A value is a model value; compression matters in one
place, `TombstoneEntry`: whether the start-up scan can read a tombstone. A crash
ends the process and not the machine: what was written stays. Data files end
between entries and file operations succeed; `GojiFaults` has what happens when
they do not. Keys are not empty. Of a batch of all
equal timestamps the second can tick between two entries of it in the code; the
model gives all of them the second in which the batch runs.

Properties:

- `TypeOK`.
- `IndexExact`: places are unique, entries lie in their files, and the index of a
  key is the place of an entry of that key. Rotation, batches, compaction and
  rebuild compute places in four different ways.
- `RecoveryExact`: what a restart at this moment would make of a key is what the
  index has now. It is promised for keys whose entries reached the files in
  timestamp order (`InOrder`), when the scan can read tombstones
  (`~SmartCompression`) and no caller puts the tombstone's value. Each of the
  three conditions is needed: the first for the timestamp taken before the lock,
  the second for run `deleted`, the third because the value is the marker.
- `CompactKeepsReads`: after a `Compact` every key reads as before, until the same
  second.

### GojiSerial and KVStore

`KVStore` is a dictionary whose entries may lapse: writes of some keys at once,
and a clock. Its variable `last` holds the last write that was asked for, so that
a dictionary that changes without a call is no behaviour of it. `GojiSerial` runs
the operations of `GojiStore` one at a time, adds `last` as a history variable, and
`ImplementsKV` maps the dictionary to what `Get` returns for each key (`Read`).
Rotation, compaction, expiry, restart and crashes in a put must be stuttering
steps or the write that was asked for. `SetTTL` is left out: it changes no file,
and a restart takes it back. `BatchPut` has no crash inside, which would leave the
first entries of the batch (`CrashInBatch` of `GojiStore`, `BatchTorn` of
`GojiFaults`). With `AllInOrder` the condition `InOrder` of `RecoveryExact` always holds
here; `RecoveryExact` itself is checked in `store`, of which these behaviours are a part.

### GojiFaults

One caller, no expiries, and at most `MaxFaults` calls in which something fails. `open`
says whether `activeFile` is there; `torn` holds the places with a part of an entry. The
failures:

- a write leaves a part of its entry and returns an error (`PutTorn`, `DeleteTorn`). The
  scan of the next start takes what follows for the rest of that entry: `Hidden` is
  every entry behind a torn place of its file. A `Delete` writes to the active file
  however full it is, a put may rotate first;
- a batch ends with an error after `n` of its entries, with nothing or a part of the
  next one in the file (`BatchTorn`): the first `n` are written and indexed and stay;
- the entry is written and the WAL refuses its record (`PutUnlogged`,
  `DeleteUnlogged`): an error, no index entry, and the effect after a restart;
- a rotation, for one entry or for all of a batch, closes the active file and cannot
  open the next (`RotateFails(n)`);
- a compaction does not get to the new file with a key whose file it cannot open or
  whose entry it cannot write (`lost` of `CompactMisses`, `CompactCuts`). A write that
  fails may leave a part of its entry in the new file, and the offset is not moved past
  it, so that the keys after it are indexed in front of their entries (`OffsetOf`,
  `PlaceOf`);
- a read of a file other than the active one fails in a compaction. `readKeyData` has
  `f, err := os.Open` in an inner block and returns the outer `err`, which is nil: the
  buffer, zeros or a part of the value, goes into the new file with a CRC that is right
  for it. `misread` are the keys this happens to, `Readings` the bytes: any, because the
  properties tell only whether they are the value. The same goes for the read of a key
  whose place in the index is not its own;
- an old file is not removed (`left`); `cleanupOldFiles` ignores the error. Its entries
  are in no index and come back with the next start-up, those of deleted keys too;
- the new file cannot be renamed after the others are gone (`CompactUnnamed`), or cannot
  be opened under its name (`CompactUnopened`);
- `Close` leaves an engine no operation refuses; an automatic `Compact` after it
  (`CompactReadable` while not `open`) cannot read the active file and drops its
  keys.

`RestartAny` is the end of the process between two calls, with `Close` or without, and the
next start-up; a crash in the middle of a call is `PutTorn`, `DeleteTorn`, `BatchTorn`,
`PutUnlogged` or `DeleteUnlogged` and then `RestartAny`, because the caller of a call that
did not return knows as little as that of one that failed. `CrashCompacting` is the crash
between removal and rename.

`acked` is what the calls made of each key as far as the caller was told; a failed
call makes it `Unsure`, for a batch all of its keys, but for a torn write, which changes
neither index nor readable entries. `harmed` are the keys that lose their value with a
named cause: a compaction that left them out, read them wrongly, placed them behind a
cut, or lost its file; a start-up behind a torn place or in front of a file that was
left. `stale` are the keys with entries in such a file, as long as the process runs. A
key leaves `harmed` with the next successful call on it.

- `AckedKept`: a key that is neither unsure nor harmed reads as acknowledged: the failure
  of one call costs the keys of others nothing, however failures, rotations,
  compactions, `Close` and restarts follow each other.
- `AckedDurable`: so would it after a restart at any moment, unless its last entry
  lies behind a torn place, where it is lost to come, or it is `stale`.

They say which keys the named failures cost, no more. Not in the module: a start-up that
cannot open or read a file, failing `Seek`, `Sync` and `Glob`, a compaction file that
cannot be made, several writes of one compaction cut, a write that fails after its
rotation with no byte in the new file. Failures of one call are grouped as the actions
have them: `CompactMisses` may open, misread and leave files at once, `CompactCuts` may
leave files and fail to open the new one, and a compaction that misreads a key and cuts
another is not there. What a batch that failed leaves is modelled and not judged: see
"What the documents say and no run checks".

### GojiWAL

A transaction collects operations, `Commit` logs them record by record
(`LogRecord`, each under `w.mu`), applies them one by one (`ApplyOp`, each under
`db.mu`) and ends (`EndCommit`); commits of different transactions interleave.
`Crash` keeps what was flushed and any longer prefix of each transaction's
records, and may cut a record in two. `ReadLog`, `ReplayNext`, `ReplayOp` and
`EndReplay` are `Recover`, and the process can crash in it. `OpsOf(t)` is the set of
positions of a transaction's puts and deletes among its records; `replay` holds the
transaction under replay and the positions `left`, of which `ReplayOp` applies the
least: `Left(op, t)` is what that leaves in the key. The store is a
dictionary that survives crashes; that a lone replay may treat it as one is what
`ImplementsKV` says. The log is one sequence per transaction ID, because
recovery groups by ID and looks at the order inside a group only; records without
an ID are read and dropped by it. That the prefixes of different transactions are
chosen independently allows more crashes than one log file does, never fewer.

- `LoggedFirst`: with `WALSyncWrites`, a value of a transaction is in the store
  only if the file holds the transaction from BEGIN to COMMIT.
- `ReplayedWhole`: when a recovery ends, the logged transactions can be ranked so
  that every key they wrote holds what the last record on it of its last writer in
  that rank leaves there: some serial order of whole transactions, also after a
  crash inside a `Commit` or inside an earlier recovery.
- `RecoveryEnds`: a store that went down opens, or is refused for the record that
  was cut, or goes down again.

Fairness is asked of the recovery steps only (`ReadLog`, `ReplayNext`, `ReplayOp`,
`EndReplay`): `NewGojiDB` runs them in one goroutine with nothing to wait for but
`w.mu`, and the Go scheduler runs a runnable goroutine. That someone opens the
store after a crash is part of it. Callers may stop at any point.

### GojiCache

Files are sequences of cells, an entry a header of `HeaderLen` cells and a value
of `ValueLen`, so that blocks of `BlockSize` cells cut entries in every way: a
value inside a block, one cut by its end, one that starts it. The caches are
sequences, most recent first. A `Get` is five steps: `BeginGet` (the call and
`keyCache`), `TryCacheRead` (`blockCache`), `ReadIndex` (the read lock and
`keyDir`), `ReadBlock`, `ReadFile`. In the last two the reader holds the lock and
writers wait; before, they do not. `Put` and `Delete` empty `blockCache`;
`BatchPut`, `ExpireKey` and `Compact` do not. The history variables are `seen`,
what the key held since the call, and `quiet`: no write since `blockCache` was last
emptied has left it alone. There is no compression, and a key's expiry shows only
as the deletion `expireKey` makes. `LRUCache.Get` is taken for atomic; in the code
it moves list elements under a read lock, a data race.

- `BlocksExact`: while `quiet`, a cached block is what its file holds, zeros behind
  the end included.
- `GetsCurrent`: while `quiet`, a `Get` that goes through the index answers what
  its key held between call and return.

What the fast path answers is not promised: a value that starts on a block
boundary is answered with the whole block.

### GojiBatchGet

One call; `db.mu` is read-locked throughout, so `Init` chooses the index (missing,
expired or live; which file; compressed or not; larger than the buffer or not), which
files can be opened and which values are read and decompressed without an error; a read
that fails may have filled the buffer. The caller groups, starts the workers, sends the
files and waits; a worker takes a file and the set `rest` of keys in it, reads the one whose
value comes first in the file (`IsFirst`), then the first of the others, into one
buffer, and writes answers into the one map. A write to the map has a
beginning and an end: if two meet, the runtime may end the process, and if it does
not, an answer may be lost. An uncompressed value is answered as a slice of the
worker's buffer, so `Seen` is what the caller finds in it when the call returns.

- `AnswersExact`: every key has its answer, nothing for missing, expired or
  unreadable ones, its own bytes for copied values. Two exceptions are stated in
  it and are the code's: a value stored as it is may hold the bytes of another
  small value read after it, and nothing is promised once two writes met, which
  takes two files.
- `BatchGetEnds`: the call returns or the process has ended.

### GojiFormats and GojiCompressor

`GojiFormats` has no state. A value is a short sequence of bytes; the bytes that
matter are the three markers, printable and unprintable ones, the braces of JSON,
and one that stands for a compressed stream a caller stores as a value. The gain of
compressing is counted by repeated bytes; entropy, redundancy and the gain of the
best algorithm are this one measure. `FewPieces` is `compressParallel`'s division,
`AllPieces` that of the mixed and the streaming mode; `Decompress` reads a form
back the way the code does, by its first byte and then by trial.

`GojiCompressor` has the callers. A call looks into the cache (`StartCall`), later
takes the first mode that is on and fits (`Compress`), and in the parallel and the
streaming mode sends its jobs one by one (`SendJob`) and collects the results
(`Collect`). `TakeJob`, `FinishJob` and `Quit` are a worker, `CancelWorkers`,
`SendNil` and `CloseChannel` are `Close`, which may come at any moment;
`SendPanics` is a send on the channel it has closed, the end of the process. The
configuration is chosen in `Init`. A value that is not compressed is returned and cached
as the slice the call was given: `Slice` has the form and the `owner`, the caller in
whose buffer it is. When a caller brings its next value in the same buffer (`reuse` of
`StartCall`), every slice of it, in the cache and in what other calls were answered,
becomes the old bytes overwritten with the new ones (`Refilled`, `Overwritten`), and
`spoilt`; a caller that brings another buffer leaves the old one alone. The cache is
looked up after that, by a key that is a copy. What a caller does with its buffer while
its own call runs is left out. Not in it: dictionaries (hits are counted and
samples collected; `dict.Samples` is appended to without a lock,
smart_compression.go:955), statistics, errors of an encoder, the decoder after
`Close`, a `ChunkSize` of 0 or less.

- `JobsExact`: channel and workers hold, once each, exactly the jobs that calls
  wait for.
- `RoundTrip`: what a call returns decompresses to its value, unless `Loses`, and if
  `Loses` then not. The two losses are the code's: `TailLost`, the remainder of the
  length divided by `MaxParallelism`, which no piece holds; and `Misread`, a value
  stored as it is that begins like a stored form. Slices that are `spoilt` are left
  out, since they hold what their owner put there; no other slice is.
- `CallsEnd`: a call returns unless `Close` comes. With the parallel mode off and
  the streaming mode on it is not promised: no worker runs, and `compressStream`
  waits for ever. With both on, the parallel mode is taken.
- `CloseEnds`: `Close` returns if the channel has room for its nils and the jobs
  calls can leave in it; with less room it can wait for workers that have left.
- `TypeOK` bounds the cache, the channel and, with `PiecesAssumption`, the jobs of
  a call by the number of pieces of its value.

Fairness there and in `GojiBatchGet` is weak fairness of every goroutine's own
step: each is runnable whenever its action is enabled, none waits for input. That
`Close` is called is not assumed.

### GojiSnapshot

It extends `GojiStore` with `snaps`, the snapshot directories, and with the
operations on them beside those of the engine. `CreateSnapshot` is one action:
it holds the read lock, so no writer runs inside it, and it changes nothing others
read before it ends. `Restore` is `RestoreFromSnapshot` under `db.mu`; it accepts any
directory, as the code does, also one a crash left unfinished. `CrashInCreate`,
`CrashInRemoval`, `CrashInRestore` and `CrashInDelete` end the process inside the
copying, the removal of the old files, the copying back and `os.RemoveAll`. A put
that has its timestamp and waits for the lock survives a restore and is written
after it. A directory carries two history fields: `held`, the index when it was made,
and `whole`, whether `CreateSnapshot` finished it and no `DeleteSnapshot` began. The
copies are cut between entries, file operations succeed, `snapshot.json` is left out
(nothing but `ListSnapshots` reads it), and the caches are those of `GojiCache`.

- `RestoreExact`: a restore of a whole snapshot gives every key the place and the
  deletion mark it had when the snapshot was made, whatever happened since, with the
  conditions of `RecoveryExact`.
- `IndexExact` and `RecoveryExact` are checked again: restores bring files with other
  IDs and sizes, and interrupted ones leave mixtures of files.

## The runs

| run | question | bounds |
|---|---|---|
| `store` | is the index right, and rebuilt right, under concurrent puts, late expiries, rotation, compaction and crashes? | two keys, one value, one goroutine with a put under way besides atomic batches and deletes, ttl 0, 1 and -1, two seconds, three entries before callers stop, two entries a file, files to ID 2, one expiry in flight per key |
| `serial` | does a lone caller get a dictionary, with entries in timestamp order? | two keys, two values, ttl 0, 1 and -1, three seconds, three entries |
| `wal` | are transactions replayed whole, and does recovery end? | two transactions, two operations between them, one direct write, two crashes |
| `cache` | are blocks and answers exact while writes empty the block cache? | two keys, two readers, four entries, three entries a file, key cache of 1, block cache of 2 |
| `snapshot` | does a restore bring back what was saved, and does the engine survive it? | one directory, two keys, one value, no ttl, no late expiries, two seconds, two entries before callers stop, one entry a file, files to ID 2 |
| `faults` | which keys do failing file operations cost their value? | two keys, two values, two seconds, two calls with failures, three entries before callers stop, two entries a file, files to ID 3 |
| `compressor` | is a job lost, which values come back, does a call or `Close` wait for ever? | six configurations, two callers, two workers, three calls, each with a new or a used buffer, four values of up to six bytes, pieces of two bytes, a channel of eight and one of one, caches of one and two |
| `batchget` | does each key get its own answer? | three keys in two files, two workers, every index |
| `deleted` | README: "Crash-safe data persistence" | a tombstone the scan cannot read brings the key back |
| `expire` | comment: expireKey deletes expired keys | it deletes a renewed key |
| `walreplay` | README: "Automatic WAL replay" | replay overwrites a newer put |
| `cachestale` | README: "Reliable data storage and retrieval" | a `Get` after a `BatchPut` answers zeros |

The first eight pass; each of the last four checks one statement of the repository
and ends in a counterexample of the code's own steps.

Why the bounds are enough to be worth something. In `store` a file holds two
entries and three can be written, so a rotation happens with entries on both
sides, a batch of two fits or rotates, and a compaction joins two files; a put
stamped in the first second can reach the file after writes of the second one,
which is the order `InOrder` excludes; ttl -1 in a clock of two seconds gives a key
that is expired and active, expired and dropped, ttl 1 one that is live in one
second and expired in the next. One value is enough because the index properties
speak of places and keys; `serial` has two, because answers matter there. In
`wal` two operations in two transactions give a transaction of two, two of one
that write the same key, and one whose put is rejected; the second crash falls
inside the recovery from the first. In `cache` the values of the first three
entries lie inside a block, on its boundary and across one, the fourth is in a new
file, and the caches are small enough to evict. In `snapshot` one entry fills a
file, so that a copy or a removal of two files can be cut between them, and the one
directory is made again after it is deleted. In `faults` two failures give one
that follows from the other, such as a torn entry and a compaction that leaves its
file behind, a cut entry in a compaction and a misread one in the next, or a failed
rotation and a failed rename; three entries give a key an old value, a new one and a
neighbour, in two files. In `compressor` three
pieces meet two workers and `compressParallel` has a remainder; in the channel of
one, callers wait for workers and `Close` for both; three calls give an eviction
and a hit on an entry of another call whose buffer was filled again. In `wal` a
transaction commits once (`MaxCommits`), so that an ID is not used twice. In `cache`
capacities are 1 and 2; capacity 0 is in the theorem `CachesShaped` only. In `batchget` two keys share a file and a
buffer while the third is in the other file, read by the other worker.
The bounds `MaxLog`, `MaxFileID`, `MaxTime` and `MaxExpirers` (store), `MaxOps`,
`MaxCommits`, `MaxWrites`, `MaxCrashes` (log), `MaxLog` (cache), `MaxSnaps` (snapshots), `MaxFaults` (failures), `MaxCalls` (compressor)
are constants that only guards of callers', failures' and crashes' actions mention;
`MaxJobs` is the most pieces a value of the instance is cut into (`PiecesAssumption`) and
stands in no guard.

## The proofs

`GojiStoreProofs` proves, from the `ASSUME`s of `GojiStore` (finite set of keys,
natural bounds, integer ttls, `None` is no record):

- `StoreInvariant`: `Spec => []StoreInv`
- `TypeCorrect`: `Spec => []TypeOK`
- `IndexIsExact`: `Spec => []IndexExact`
- `RecoveryIsExact`: `Spec => []RecoveryExact`
- `CompactionKeepsReads`: `Spec => CompactKeepsReads`

They hold for any number of keys, values, clients, seconds and entries. Of a lone
caller, `GojiSerialProofs` proves

- `AlwaysInOrder`: `SerialSpec => []AllInOrder`
- `ImplementsDictionary`: `Plain => (SerialSpec => ImplementsKV)`

and of a lone caller whose file operations fail, any number of times,
`GojiFaultsProofs` proves

- `AckedIsKept`: `Plain => (FaultsSpec => []AckedKept)`
- `AckedIsDurable`: `Plain => (FaultsSpec => []AckedDurable)`

`Plain` says that the scan can read tombstones and nobody puts the tombstone's value:
the two conditions without which a deleted key can come back (run `deleted`).
`GojiSnapshotProofs` proves, for any number of directories,

- `SnapInvariant`: `SnapSpec => []SnapInv`
- `IndexStaysExact`: `SnapSpec => []IndexExact`
- `RecoveryStaysExact`: `SnapSpec => []RecoveryExact`
- `RestoreIsExact`: `SnapSpec => RestoreExact`

`GojiWALProofs` proves, for any number of transactions, operations and crashes, from
`None` and `Direct` being no transactions, the empty key being none and the
transactions being finitely many,

- `LoggedBeforeApplied`: `Spec => []LoggedFirst`
- `TypeCorrect`: `Spec => []TypeOK`
- `ReplayInvariant`: `Spec => []ReplayInv`
- `RecoveryIsWhole`: `Spec => ReplayedWhole`

`GojiCacheProofs` proves, for any readers, capacities and lengths of headers, values
and blocks,

- `CachesShaped`: `Spec => []TypeOK`
- `BlocksStayExact`: `Spec => []BlocksExact`
- `GetsAreCurrent`: `Spec => GetsCurrent`

`GojiBatchGetProofs` proves `AnswersAreExact`: `Spec => []AnswersExact`, for finitely
many keys in different places and at least one CPU. `GojiCompressorProofs` proves, for
values of any length and any configuration, callers and workers,

- `NoJobIsLost`: `Spec => []JobsExact`
- `ValueInvariant`: `Spec => []ValueInv`
- `ValuesComeBack`: `Spec => []RoundTrip`
- `TypeCorrect`: `Spec => []TypeOK`

### The storage engine

None of the checked invariants is inductive by itself. `StoreInv` adds:

- `IsNewest`: the active file is the one with the largest ID. Without it a
  rotation might open a file that already has entries, and `IndexExact` would fail.
- `SameKeys`: a key is indexed exactly when the files hold an entry of it; the scan
  of a restart indexes nothing else.
- `AllWinners`: whatever entries are removed, of the rest of the entries of a key
  one beats all others. It is needed because `Winner` is a `CHOOSE`, and
  because a crash in a compaction leaves any suffix of the files and one in a restore
  any mixture. It follows step by step from `BeatsTransitive` and `AppendWinner`: an
  appended entry beats the old winner or is beaten by it.
- `AtLast`: for a key written in timestamp order the index stands for its last
  entry, deleted exactly if that is a tombstone. With `WinnerLast` (the winner of
  such a key is its last entry) this gives `RecoveryExact`.
- `Readable` and `LiveValues`: entries can be read, and the value of a live key is
  no tombstone. Compaction rewrites values; one that was a tombstone would become
  a deletion at the next restart.

Every action gets a lemma. The four that append go through one, `AppendInv`, about
a set of fresh entries behind the end of a file; all restarts go through
`OpenInv`, about a disk that is in order and nothing else, which follows from
`RebuildInv`, about the index a scan builds of any such set of entries.

### A lone caller

`SerialInv` is `StoreInv`, `AllInOrder` and `TTLKept`, that the expiry in the index
is the one in the file: a restart reads it there, and without it a key would change
its lapse at a restart. Entries that are stamped now go behind all others of their
key, and compaction keeps one entry of a key with its timestamp, so the order
holds; with it, `AtLast` of `StoreInv` says that a restart finds the entry the
index has. For the refinement `Read` is taken apart into a function of index,
files and clock (`ReadOf`): a write changes it for its keys to what was asked, every
other step leaves it, and a tick can only end a key that lapses, as in `KVStore`.

### Failures

`FaultsInv` has three parts. The disk (`DiskInv`): places are unique, no entry is ahead
of the clock, has an expiry or needs the compressor, and any of the entries have a last
one per key. The files (`AllNewest`, `AtEnd`): of whatever files are left one is the
newest, and while there is an active file no entry of a key that is not stale lies beyond
it. The keys (`KeyInv`): the index record of a known key gives the acknowledged value
(`Holds`), and when the key is not stale its entries come to that value (`ComesTo`): one
of them, `IsTop`, comes after the others and is no older, or there are none and the value
is `None`. `Holds` and `ComesTo` are both needed: a rebuild says nothing of the index
before it, and the index nothing of what a rebuild finds.

A write at the end of the active file puts a new top and an index record that agrees with
it; that it comes after the key's other entries is what `AtEnd` is for. A write that is
not indexed makes its key unsure, and a torn one adds no entry. A compaction replaces the
entries of every key it keeps with one, and marks as harmed the keys lost, misread or
indexed in front of their entries, and as stale those with entries in a file left behind,
for which `ComesTo` says nothing any more while `Holds` still does. For a start-up it is
enough that each known key's top, if it has one, is on the disk it opens and in front of
any torn place (`ReopenInv`, `LastFound`); `CrashCompactingInv` shows this of every set of
files a crash in a compaction can leave. `AckedKept` is `Holds`, and `AckedDurable`
follows from `ComesTo` and the rebuild lemmas.

### Snapshots

`SnapInv` is `StoreInv` and, of each directory, that it can be opened as a data
directory (`Openable`): entries in their files, a newest file, a winner among any
of its entries. That is true of unfinished ones too, because any subset of the files
of such a directory is one; this is why `AllWinners` speaks of all subsets. Of a whole
one `Rebuilt` says that a scan of its entries builds the index held when it was made,
which is `RecoveryExact` at that moment. A restore, cut or not, is then `OpenInv` on
entries of the directory, of the old files, or of both.

### The log

`LoggedFirst` says nothing of a transaction that is about to be applied.
`WALInv` follows it: `InStep` ties the place of a `Commit` to the records it has
written (BEGIN from the first, COMMIT when it applies, and never more steps than
records), `Synced` that with `WALSyncWrites` all records are in the file, `Replayable`
that a recovery replays only what is complete in the log, `StoredLogged` is the goal
for the whole log. Crashes keep it because they keep what is flushed.

`ReplayInv` says what the store holds in the middle of a recovery: there is a rank
of the transactions visited so far, the one under replay last, in which each
key written so far holds what its last writer left (`Shows`), where of the transaction
under replay only the positions that are done count, and those are a beginning of it
(`FirstToLast`). `ReplayNext` ranks the next transaction behind the others, with
nothing done, which changes no last writer; `ReplayOp` makes its transaction the
last writer of one key. What direct puts, cut commits and cut recoveries left before
plays no part: a key that a logged transaction wrote has been written by the end.

### The caches

`CacheInv` adds to `BlocksExact` where places point (`IndexOK`: into files there
are) and what a reader knows (`ReaderOK`). From its call on, `seen` has what its
key holds: the call puts it there, and a write, which alone changes it, adds the new
answer. Once it has the lock it has the place the index gives its key; writers wait,
so both stay until it returns. A block that is exact then has the value where
`Extract` looks for it (`ExtractFacts`), since `BlockSize * (pos \div BlockSize)` is
never behind `pos`. The caches themselves are lists: `WithoutFacts`, `TouchFacts` and
`SetItemFacts` say what `Remove`, `Get` and `Set` do to their items. The proof needs
`quiet` only where a block is read, and the exclusion of writers only for readers
that hold the lock.

### BatchGet

`BatchInv` follows a key from its group over the channel to a worker and to its answer
(`NoneLost`): while no two writes met, a requested key is `Outstanding` or `Answered`,
and when all workers have ended nothing is outstanding (`WorkerOK`: a worker ends
only when the channel is drained and closed). An answer that is a slice stays one of a
buffer that holds the bytes of some small value (`Buffered`). With a single file there
is a single worker (`Alone`), hence no race.

### The compressor

`CompInv` is `JobsExact` with types of channel and hands (`Slots`) and the shape of
a call (`CallShape`): results only for what was sent, and nothing sent outside the
sending of jobs. The lemmas `ExactSend`, `ExactTake`, `ExactQuit`, `ExactFinish` and
`ExactNil` are about a channel, hands and sets of awaited jobs as such; every step
of callers, workers and `Close` is one of them.

`ValueInv` adds what calls and cache hold (`CallHolds`, `CacheHolds`): the jobs of a call
are those its value is cut into, its results are the blobs of the pieces with the same
number, whichever worker made them and in whatever order, and a cached slice is `Raw` or
`Plain` of its value until its buffer is filled again, and then `Raw` of something
(`EntryRefilled`). What is left is about data. `PiecesJoined` says that
the pieces of a value, concatenated, are the value up to where they end; its induction
over the number of pieces is an argument about a least counterexample (`LeastNat`, from
the library's well-foundedness of the naturals), and the fold of `FlattenSeq` is a
function that `Folded` describes. `AllJoined` and `FewJoined` give all of the value,
or all but the remainder of `compressParallel`; `TailCut` and `RawRead` say that the two
losses are losses; `ContainerRead` says that a container
with the right blobs is read as its pieces. `JobsExact` is needed a second time for
`TypeOK`: a job in the channel is one of those its call waits for, so its number is
at most the number of pieces.

### Only model-checked

The liveness properties `RecoveryEnds`, `CallsEnd`, `CloseEnds` and `BatchGetEnds`: they
need `ENABLED` and fairness, which the prover does not have. The four runs that end in
a violation are counterexamples and have nothing to prove.

### What the documents say and no run checks

Met while modelling, besides the four statements the violation runs check:

- README_EN.md:313-315 says of `BatchPut` "Atomic batch writes" and "All succeed or all
  fail". A batch whose write fails or whose process ends in the middle leaves its first
  entries, in the order of a map, in the file and the index (`BatchTorn`,
  `CrashInBatch`).
- README_EN.md:205-210 and CHANGELOG.md:22 say that data of 1 byte to 100 MB keep their
  integrity. The one byte 1 is stored as it is and reads as nothing, the bytes 2 and 3 as
  an error (`Misread`); a value longer than `ChunkSize * MaxParallelism`, with the
  mixed mode off, loses the remainder of its length divided by `MaxParallelism`
  (`TailLost`); and a caller that fills its buffer again can change what is stored for
  another caller's equal value (`Refilled`). `RoundTrip` says exactly when, and is no
  claim that the documents are right.

## Not modelled, and the plan

| next | what | why in this order |
|---|---|---|
| `GojiSnapshot` | copies that fail in a process that goes on, `DeleteSnapshot` beside a restore | error paths leave files, index and handle apart |
| `GojiFaults` | start-ups that cannot read a file; several cuts in one compaction; expiries | widens the fault model; `FaultsInv` assumes that entries carry no expiry |
| `GojiWAL` | `Close` and a `Checkpoint`, if something comes to call it | today a restart reads the whole log |

`ttl.go` and `WorkQueue` of `concurrent.go` are not modelled because the engine does not
run them: `NewGojiDB` creates a `TTLManager` and nothing adds a key to it,
`startTTLCleanup` and `cleanupExpiredKeys` are called by nobody, and neither `TimeWheel`
nor `WorkQueue` has a user. Keys expire through `Get` only. Data races inside one call of
`LRUCache.Get` and on the samples of a dictionary are named in the hazards and not
modelled: what the Go memory model allows there is not a choice among few outcomes.

Left out for good: `cli.go`, `main/` and the printing half of `db.go` (user
interface), metrics, configuration loading (constants here), object pools and the
arithmetic of checksums. `Checkpoint` of the WAL is called by nothing.
