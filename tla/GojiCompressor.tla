--------------------------- MODULE GojiCompressor ---------------------------
(***************************************************************************)
(* SmartCompressor at work: callers that compress values at once, the      *)
(* cache of results they share, the channel of jobs and the workers behind *)
(* the parallel and the streaming mode, and Close, which the engine calls  *)
(* without waiting for puts to end.  A value that is stored as it is stays *)
(* in the buffer of the caller that brought it: the cache and later calls  *)
(* hold a slice of that buffer, and the caller may fill it again.          *)
(***************************************************************************)
EXTENDS GojiFormats

CONSTANTS
  Callers,    \* goroutines that call CompressWithSmartChoice
  Workers,    \* goroutines startWorkerPool may start
  Inputs,     \* the values they compress
  Configs,    \* the configurations to look at
  None,       \* no caller
  MaxCalls,   \* bound: calls altogether
  MaxJobs     \* the most jobs a call makes of its value

\* MaxParallelism is the number after the default for 0 is put in; pool is the capacity of
\* workerPool, 100 in the code; algorithm is "none" when the choice is adaptive.
Config == [ChunkSize : Nat \ {0}, MaxParallelism : 1 .. Cardinality(Workers), pool : Nat,
           EnableMixedMode : BOOLEAN, EnableParallel : BOOLEAN, EnableStreaming : BOOLEAN,
           EnableCache : BOOLEAN, CacheSize : Nat \ {0}, algorithm : Algorithms]

ASSUME ConfigsAssumption == Configs \subseteq Config
ASSUME InputsAssumption == Inputs \subseteq Seq(Bytes)
ASSUME NoneAssumption == None \notin Callers
ASSUME CallBoundsAssumption == {MaxCalls, MaxJobs} \subseteq Nat

\* MaxJobs is what the lengths of the values allow, and no guard mentions it.
ASSUME PiecesAssumption ==
  \A d \in Inputs, cf \in Configs : PieceCount(d, cf.ChunkSize) <= MaxJobs

VARIABLES
  config,    \* the configuration, which Init chooses and nothing changes
  cache,     \* CompressionCache: entries of a value and a slice, oldest first
  pool,      \* workerPool: the jobs and nils in the channel
  hands,     \* worker |-> the job it works on, None, or Gone
  call,      \* caller |-> its call
  closing,   \* what Close has done: open, cancelled, closed
  nils,      \* how many nils it has sent
  crashed,   \* a send on the closed channel has ended the process
  calls      \* calls so far

vars == <<config, cache, pool, hands, call, closing, nils, crashed, calls>>
closeVars == <<closing, nils>>
---------------------------------------------------------------------------
Job(c, i) == [caller |-> c, id |-> i]
Nil == [caller |-> None, id |-> 0]
Gone == [caller |-> None, id |-> 1]
Idle == [caller |-> None, id |-> 2]

\* A slice of bytes: the form in it, and the caller whose buffer it is a part of, None when
\* it is nobody's.  History: spoilt, that caller has filled the buffer again.
Slice(form, owner) == [form |-> form, owner |-> owner, spoilt |-> FALSE]

\* A call that has no jobs: before it, looking into the cache, returned.
Jobless(at, d, slice) ==
  [at |-> at, data |-> d, jobs |-> <<>>, sent |-> 0, results |-> <<>>, slice |-> slice]

NoSlice == Slice(Raw(<<>>), None)
NoCall == Jobless("idle", <<>>, NoSlice)

\* startWorkerPool: only when the parallel mode is on, whoever else sends jobs.
StartedWorkers == IF config.EnableParallel THEN config.MaxParallelism ELSE 0

Init ==
  /\ config \in Configs
  /\ cache = <<>> /\ pool = <<>>
  /\ \E started \in SUBSET Workers :
       /\ Cardinality(started) = StartedWorkers
       /\ hands = [w \in Workers |-> IF w \in started THEN Idle ELSE Gone]
  /\ call = [c \in Callers |-> NoCall]
  /\ closing = "open" /\ nils = 0 /\ crashed = FALSE /\ calls = 0

Calling(c) == call[c].at \in {"missed", "sending"}

Returned(c, slice) ==
  [call EXCEPT ![c] = Jobless("returned", call[c].data, slice)]
---------------------------------------------------------------------------
\* CompressionCache.get and set.  A full cache loses its oldest entry before the new one
\* comes in, also when the new one takes the place of an entry it holds.
Hits(entries, d) == {i \in DOMAIN entries : entries[i].key = d}

\* A map holds one entry of a key.
Without(entries, d) ==
  IF Hits(entries, d) = {} THEN entries ELSE RemoveAt(entries, CHOOSE i \in Hits(entries, d) : TRUE)

\* Mutant of Kept: an eviction when the cache is over its size, not when it is at it.
KeptOver == IF Len(cache) > config.CacheSize THEN Tail(cache) ELSE cache

Kept == IF Len(cache) >= config.CacheSize THEN Tail(cache) ELSE cache

\* The key is a copy of the value, the data the slice itself.
CacheSet(d, slice) ==
  cache' = IF config.EnableCache THEN Append(Without(Kept, d), [key |-> d, slice |-> slice])
                                 ELSE cache

\* A buffer that held old, filled with d.
Overwritten(old, d) == [i \in DOMAIN old |-> IF i <= Len(d) THEN d[i] ELSE old[i]]

\* What becomes of a slice when the caller c brings its next value d: in its buffer, or in
\* another one, and then it leaves the old one alone.
Refilled(s, c, d, reuse) ==
  IF s.owner # c THEN s
  ELSE IF reuse
  THEN [form |-> Raw(Overwritten(s.form.parts[1].blob.of, d)), owner |-> c, spoilt |-> TRUE]
  ELSE [form |-> s.form, owner |-> None, spoilt |-> s.spoilt]

\* CompressWithSmartChoice looks into the cache.
StartCall(c, d, reuse) ==
  LET entries == [i \in DOMAIN cache |->
                    [cache[i] EXCEPT !.slice = Refilled(@, c, d, reuse)]]
      found == config.EnableCache /\ Hits(entries, d) # {}
  IN  /\ ~Calling(c) /\ calls < MaxCalls
      /\ calls' = calls + 1
      /\ cache' = entries
      /\ call' = [b \in Callers |->
           IF b # c THEN [call[b] EXCEPT !.slice = Refilled(@, c, d, reuse)]
           ELSE IF found
           THEN Jobless("returned", d, entries[CHOOSE i \in Hits(entries, d) : TRUE].slice)
           ELSE Jobless("missed", d, NoSlice)]
      /\ UNCHANGED <<config, pool, hands, closeVars>>

\* The value is not worth compressing, or turns out not to be: the call returns, and the
\* cache takes, the slice it was given.
KeepRaw(c) ==
  LET slice == Slice(Raw(call[c].data), c)
  IN  /\ call' = Returned(c, slice)
      /\ CacheSet(call[c].data, slice)
      /\ UNCHANGED pool

CompressMixed(c) ==
  /\ call' = Returned(c, Slice(Mixed(call[c].data, config.ChunkSize, config.algorithm), None))
  /\ UNCHANGED <<cache, pool>>

CompressPlain(c) ==
  LET d == call[c].data
      slice == Slice(Plain(d, Algorithm(config.algorithm, d)), None)
  IN  /\ Savings(d) >= CompressionGain
      /\ call' = Returned(c, slice)
      /\ CacheSet(d, slice)
      /\ UNCHANGED pool

\* compressParallel and compressStream cut the value and begin to send the pieces.
CutIntoJobs(c, jobs) ==
  /\ call' = [call EXCEPT ![c] = [@ EXCEPT !.at = "sending", !.jobs = jobs]]
  /\ UNCHANGED <<cache, pool>>

ParallelJobs(d) ==
  LET pieces == FewPieces(d, config.ChunkSize, config.MaxParallelism)
  IN  Jobs(pieces, Chosen(config.algorithm, pieces))

\* compressStream chooses one algorithm for the whole value.
StreamJobs(d) ==
  LET pieces == AllPieces(d, config.ChunkSize)
  IN  Jobs(pieces, [i \in DOMAIN pieces |-> Algorithm(config.algorithm, d)])

\* The rest of CompressWithSmartChoice after the cache: the first mode that is on and that
\* the value is long enough for.
Compress(c) ==
  LET d == call[c].data
      long == Len(d) > config.ChunkSize
  IN  /\ call[c].at = "missed"
      /\ IF ~ShouldCompress(config.algorithm, d) THEN KeepRaw(c)
         ELSE IF config.EnableMixedMode /\ long THEN CompressMixed(c)
         ELSE IF config.EnableParallel /\ long THEN CutIntoJobs(c, ParallelJobs(d))
         ELSE IF config.EnableStreaming /\ long THEN CutIntoJobs(c, StreamJobs(d))
         ELSE CompressPlain(c) \/ (Savings(d) < CompressionGain /\ KeepRaw(c))
      /\ UNCHANGED <<config, hands, closeVars, calls>>
---------------------------------------------------------------------------
\* Mutant of HasRoom: a channel made without a capacity.
HasTaker == \E w \in Workers : hands[w] = Idle

HasRoom == Len(pool) < config.pool

\* sc.workerPool <- jobs[i]
SendJob(c) ==
  /\ call[c].at = "sending" /\ call[c].sent < Len(call[c].jobs)
  /\ closing # "closed" /\ HasRoom
  /\ pool' = Append(pool, Job(c, call[c].sent + 1))
  /\ call' = [call EXCEPT ![c].sent = @ + 1]
  /\ UNCHANGED <<config, cache, hands, closeVars, calls>>

\* The same on the channel Close has closed.
SendPanics(c) ==
  /\ call[c].at = "sending" /\ call[c].sent < Len(call[c].jobs)
  /\ closing = "closed"
  /\ crashed' = TRUE
  /\ UNCHANGED <<config, cache, pool, hands, call, closeVars, calls>>

\* <-job.Done of every job, in order; then the parts are written in order.
Collect(c) ==
  LET r == call[c]
  IN  /\ r.at = "sending" /\ r.sent = Len(r.jobs)
      /\ DOMAIN r.jobs \subseteq DOMAIN r.results
      /\ call' = Returned(c, Slice(Form(IF config.EnableParallel THEN "02" ELSE "03",
                                        r.jobs, r.results), None))
      /\ UNCHANGED <<config, cache, pool, hands, closeVars, calls>>
---------------------------------------------------------------------------
\* The select of a worker takes a job or a nil.
TakeJob(w) ==
  /\ hands[w] = Idle /\ pool # <<>>
  /\ hands' = [hands EXCEPT ![w] = IF Head(pool) = Nil THEN Gone ELSE Head(pool)]
  /\ pool' = Tail(pool)
  /\ UNCHANGED <<config, cache, call, closeVars, calls>>

\* Mutant of MayQuit: a worker leaves its job behind when the context is cancelled.
MayQuitAnytime(w) == hands[w] # Gone

MayQuit(w) == hands[w] = Idle

\* The select finds the context cancelled, or receives nil from the closed channel.
Quit(w) ==
  /\ MayQuit(w)
  /\ \/ closing = "cancelled"
     \/ closing = "closed"
  /\ hands' = [hands EXCEPT ![w] = Gone]
  /\ UNCHANGED <<config, cache, pool, call, closeVars, calls>>

\* Mutant of AfterJob: a worker that ends with its first job.
AfterFirst == Gone

AfterJob == Idle

\* job.Result gets the blob, job.Done is closed.
Done(results, i, blob) ==
  [n \in DOMAIN results \cup {i} |-> IF n = i THEN blob ELSE results[n]]

FinishJob(w) ==
  LET j == hands[w]
  IN  /\ j.caller # None
      /\ LET job == call[j.caller].jobs[j.id]
         IN  call' = [call EXCEPT ![j.caller].results = Done(@, j.id, Blob(job.data, job.algo))]
      /\ hands' = [hands EXCEPT ![w] = AfterJob]
      /\ UNCHANGED <<config, cache, pool, closeVars, calls>>
---------------------------------------------------------------------------
\* Close: cancel the context, send a nil for each worker, close the channel.
CancelWorkers ==
  /\ closing = "open"
  /\ closing' = "cancelled"
  /\ UNCHANGED <<config, cache, pool, hands, call, nils, calls>>

SendNil ==
  /\ closing = "cancelled" /\ nils < config.MaxParallelism /\ HasRoom
  /\ pool' = Append(pool, Nil)
  /\ nils' = nils + 1
  /\ UNCHANGED <<config, cache, hands, call, closing, calls>>

CloseChannel ==
  /\ closing = "cancelled" /\ nils = config.MaxParallelism
  /\ closing' = "closed"
  /\ UNCHANGED <<config, cache, pool, hands, call, nils, calls>>

CallStep(c) == Compress(c) \/ SendJob(c) \/ Collect(c)
WorkerStep(w) == TakeJob(w) \/ Quit(w) \/ FinishJob(w)
CloseStep == SendNil \/ CloseChannel

Alive(A) == ~crashed /\ A /\ UNCHANGED crashed

Next ==
  \/ \E c \in Callers, d \in Inputs, reuse \in BOOLEAN : Alive(StartCall(c, d, reuse))
  \/ \E c \in Callers : Alive(CallStep(c))
  \/ \E c \in Callers : ~crashed /\ SendPanics(c)
  \/ \E w \in Workers : Alive(WorkerStep(w))
  \/ Alive(CancelWorkers)
  \/ Alive(CloseStep)

\* Goroutines that can go on do: no operation here waits for anything outside.
Spec ==
  /\ Init /\ [][Next]_vars
  /\ \A c \in Callers : WF_vars(Alive(CallStep(c)))
  /\ \A w \in Workers : WF_vars(Alive(WorkerStep(w)))
  /\ WF_vars(Alive(CloseStep))
---------------------------------------------------------------------------
TypeOK ==
  /\ config \in Configs
  /\ \A e \in Range(cache) : e.key \in Inputs
  /\ Len(cache) <= config.CacheSize
  /\ pool \in Seq([caller : Callers, id : 1 .. MaxJobs] \cup {Nil})
  /\ Len(pool) <= config.pool
  /\ hands \in [Workers -> [caller : Callers, id : 1 .. MaxJobs] \cup {Idle, Gone}]
  /\ \A c \in Callers :
       /\ call[c].at \in {"idle", "missed", "sending", "returned"}
       /\ call[c].data \in Inputs \cup {<<>>}
       /\ call[c].sent \in 0 .. Len(call[c].jobs)
       /\ DOMAIN call[c].results \subseteq 1 .. call[c].sent
  /\ closing \in {"open", "cancelled", "closed"}
  /\ nils \in 0 .. config.MaxParallelism
  /\ crashed \in BOOLEAN
  /\ calls \in 0 .. MaxCalls

\* What a call has sent and has no result of.
Awaited(c) == {i \in 1 .. call[c].sent : i \notin DOMAIN call[c].results}

InPool(j) == \E n \in DOMAIN pool : pool[n] = j
InHands(j) == \E w \in Workers : hands[w] = j

\* The channel and the workers hold, once each, the jobs that the calls under way wait for
\* and no others, whatever Close does meanwhile: no job is dropped, done twice, or left
\* over from a call that has returned (worker, compressParallel, Close).
JobsExact ==
  /\ \A m, n \in DOMAIN pool : pool[m] = pool[n] /\ pool[m] # Nil => m = n
  /\ \A v, w \in Workers : hands[v] = hands[w] /\ hands[v].caller # None => v = w
  /\ \A n \in DOMAIN pool, w \in Workers : hands[w] # pool[n]
  /\ \A n \in DOMAIN pool : pool[n] # Nil => pool[n].id \in Awaited(pool[n].caller)
  /\ \A w \in Workers : hands[w].caller # None => hands[w].id \in Awaited(hands[w].caller)
  /\ \A c \in Callers : \A i \in Awaited(c) : InPool(Job(c, i)) \/ InHands(Job(c, i))

\* compressParallel divides a value it cannot cut into as many pieces as it has workers.
TailLost(d) ==
  /\ config.EnableParallel /\ ~config.EnableMixedMode
  /\ PieceCount(d, config.ChunkSize) > config.MaxParallelism
  /\ Len(d) % config.MaxParallelism # 0

\* The two ways in which the code itself loses a value.
Loses(form, d) ==
  \/ form.mark = "02" /\ TailLost(d)
  \/ form = Raw(d) /\ Misread(d)

\* What a call returns, from the cache or from whatever mode, Decompress turns back into the
\* value, exactly unless compressParallel left a tail uncut or a value stored as it is
\* begins like a stored form: in whatever order workers end their jobs, whichever caller
\* the cached form is from and whatever else it holds.  A slice of a buffer that its owner
\* has filled again since is left out: it holds what the owner put there.
RoundTrip ==
  \A c \in Callers :
    LET r == call[c]
        form == r.slice.form
    IN  r.at = "returned" /\ ~r.slice.spoilt =>
          (Decompress(form) = r.data <=> ~Loses(form, r.data))

\* A call returns if nobody calls Close meanwhile and workers run, which
\* they do not in the streaming mode: it is reached with the parallel mode off only, and
\* then nobody takes what compressStream sends.
CallsEnd ==
  \A c \in Callers :
    (Calling(c) /\ (config.EnableParallel \/ ~config.EnableStreaming))
      ~> (~Calling(c) \/ closing # "open")

\* Close ends, also when the workers have left before it sends their nils, if the channel
\* has room for the nils and for every job that calls can leave in it.
CloseEnds ==
  (closing = "cancelled"
     /\ config.pool >= config.MaxParallelism + MaxJobs * Cardinality(Callers))
    ~> (closing = "closed")
===========================================================================
