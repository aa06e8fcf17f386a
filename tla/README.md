# Verification of mini-llm-serving

TLA+ models of the serving core of `src/src/llm_serving`, the TLC runs that check
them on small instances, and TLAPS proofs that carry the main results to every
size. File names below are relative to `src/src/llm_serving`.

## 1. The system

A FastAPI application runs one asyncio event loop per process. A client's prompt is
put into a Redis sorted set, worker tasks pop it, a circuit breaker admits it, the
model runs it in a thread of the executor, and a future carries the result back to
the handler. Several processes may share the Redis instance.

| component | state | operations | talks to |
|---|---|---|---|
| circuit breaker `core/circuit_breaker.py` | state, failure count, time of the last failure, half-open slots | allow_request, record_success, record_failure, reset | called by every worker of its process |
| worker pool `core/worker.py` | registry `_pending` of futures, tasks | register_request, cancel_request, the worker loop, start, stop | queue, breaker, executor, batcher |
| priority queue `queue/priority_queue.py` | sorted set in Redis | enqueue (ZADD, ZCARD), dequeue (ZPOPMIN), queue_depth | Redis |
| completions endpoint `api/router.py` | one coroutine per request | create_completion, wait_for, its error paths | worker pool, queue, memory pressure |
| batch scheduler `core/batcher.py` | asyncio.Queue, collector task, a batch in the making | submit, the collector, stop | workers submit; executor runs the batch |
| KV prefix cache `core/kv_cache.py` | LRU map, memory counter, hit counters | get, put, evict, clear | inference threads, memory pressure callbacks |
| memory pressure `profiler/` | current level, reject flag, escalation step, tracked allocations | should_admit, level changes, callbacks | KV cache, completions endpoint |
| rate limiter `queue/rate_limiter.py`, `middleware/rate_limit.py` | token buckets in Redis, cached script hash | check, script load, fail open | Redis |
| load shedder `middleware/load_shedder.py` | none (reads the depth) | admit or 503 | priority queue |
| error handler, exceptions | none | table of statuses | all |
| streaming `core/streaming.py`, `api/router.py` | two queues, a producer and a generation thread | event generator, producer, generation, two timeouts, disconnect | executor |
| speculative decoding `speculative/` | tokens, acceptance counts | draft, verify, accept or resample, collect | models |
| lifecycle, application `lifecycle.py`, `main.py` | shutdown flag, in-flight count | signal, readiness, drain, shutdown order | all |
| Redis client, configuration, loader, schemas, logging | a connection, settings | connect, ping, load | Redis |

What makes it hard: everything between two awaits is atomic and everything else
interleaves (other tasks, the executor, Redis, the timers); an answer and a timeout
race for one future; Redis applies commands whose replies are lost, and comes back
without its scripts and with older data or none; processes stop and die with work in Redis; the circuit
breaker and the rate limiter receive reports and stamps that are older than their state;
threads fill a cache that the event loop clears; a stream crosses three threads with a
timeout at each border. What must be right, per component:

- *breaker*: count, state and slots agree after late reports; no state denies every
  request for ever; it closes once the model works.
- *pool, queue, endpoint*: one answer per request, 200 only with its own result, no
  inference twice, no future set twice, no registry leak, order of priority and
  arrival, every client answered.
- *batcher*: bounded batches, nothing lost, the own row for every request and no trace of the
  padding in it, everybody answered until stop.
- *KV cache and memory pressure*: the memory counter equals the sum of the entries, the least
  recently used goes first, rejection begins at CRITICAL and ends only and always after NORMAL.
- *rate limiter, load shedder*: a bound on what a bucket gives, honest Retry-After, expiry
  that gives nobody a token, failing open only without Redis, a bound on the depth.
- *streaming*: every text once and in order, no cut stream that looks complete, every stream
  ends, no thread is kept.
- *speculation*: the target's distribution exactly, texts that end for a reason, progress.

`PROJECT.json` lists the hazards of the code at their lines, with the properties that
would catch each.

## 2. The modules

| module | models | notes |
|---|---|---|
| `Breaker` | the breaker as operators on a record | used by the next and by `WorkerPool` |
| `CircuitBreaker` | a breaker with concurrent callers, time, a model that fails and recovers, `reset()` | `call` records which half-open period admitted a running call |
| `PriorityQueue` | the score, and what ZPOPMIN may return | equal scores in any order: members begin with a random id |
| `Completions` | abstract: what clients are promised | `status` of a client, `work` on its prompt |
| `WorkerPool` | endpoint, queue, worker loops, breakers and processes together | refines `Completions` |
| `BatchScheduler` | callers, collector, timer, `stop()` | |
| `BatchForward` | padding, one generation for all rows at the highest temperature of the batch, splitting; and `generate` alone | the list of results `BatchScheduler` zips with its items |
| `KVCache` | the LRU cache as operators | one call is one step, as the lock makes it |
| `MemoryPressure` | the cache between executor threads and event loop, levels, callbacks, admission | |
| `TokenBucket` | the Lua script, its TTL and Retry-After on integers | a token is `Unit` parts, `Rate` parts come back a second |
| `Gateway` | load shedder, rate limiter, routes and Redis together | |
| `TokenStream` | abstract: what a streaming client is promised | |
| `Streaming` | event generator, producer thread, generation thread | refines `TokenStream` |
| `RejectionSampling` | the sampler at one position, with integer weights | |
| `Speculative` | draft, verification, sampler and collection | |
| `MC...` | instances for TLC | |
| `..._proofs` | theorems | section 5 |

The slip operators (`Peek`, `CancelOnly`, `ShedTooDeep`, ...) beside a definition are variants
a plausible mistake would give. No `Next` uses them: put in the place of the definition
they show which property would notice.

**State.** `CircuitBreaker` and `Breaker`: `_state`, `_failure_count`,
`_last_failure_time` as the time elapsed since, capped at the recovery timeout,
`_half_open_calls`. `WorkerPool`: `handler` is the await the endpoint's coroutine is in,
`future` and `pending` are the future and its key in `_pending`, `queue` the sorted set,
`priority` and `stamp` the score of a member, `pc` and `item` the local state of a
worker, `up` that of a process; `work` is history. `BatchScheduler`: `queue` is the
asyncio.Queue, `batch` the list being built, `result` what a future carries, `cancelling` a cancellation of the collector
that it has not seen. `MemoryPressure`: `cache` holds the OrderedDict and its memory counter,
`level`, `rejecting`, `escalation` the fields of monitor and manager, `loop` where the one
`should_admit` is; `recency` and `entered` are history. `Gateway`: `pc` is the
await a request is in, `stamp` the time it sent to the script, `sha` the cached hash, `script`
Redis' script cache, `bucket` the hash of the key, `depth` the size of the queue, `saved` the last
snapshot of both on the disk of Redis; `granted`,
`birth` and `promise` are history. `Streaming`: `consumer`, `producer` and `generation` are the
three threads of control, `tokenQueue` the asyncio queue between the first two; the texts
between the other two are those made and not yet read; `sent` is history. `Speculative`:
`generated` is the text, `drafted`, `kept` and `extra` the step under way.

**Actions.** One action is the code between two awaits. `Submit` is `register_request`
and `enqueue` up to the ZADD; `Zadd` is Redis; `Enqueued` the replies. `Timeout` is the
timer of `wait_for`, `AnswerTimeout` the handler that runs later: in between the worker
may finish. `Pop` is Redis applying ZPOPMIN; the reply may be lost (`PopReplyLost`), the
item unknown to this process (`DropOrphan`), the circuit open (`RejectOpen`).
`StartInference` is allow_request and the hand-over to the executor (or the batcher), and
`InferenceSucceeds`/`InferenceFails` the report, the resolution of the future and the
removal from the registry in one go, as the code has no await between them. `Stop`, `WorkerExits`,
`StopFinishes` are the three parts of `stop()`; `Crash` and `Start` the loss and return of a
process, with the queue still in Redis. In `BatchScheduler`, `Dispatch` is the end of
`wait_for`, the drain and the hand-over, which the code does without an await; `ResolveResults` hands the i-th result to the i-th item, if its
future is still pending.

In `MemoryPressure` a thread looks (`Hit`, `Miss`), runs the forward pass and stores
(`StorePrefix`) a state of one of the prefix's `Sizes`: two threads may miss one prefix, and the second may
replace the first one's state by a larger or a smaller one. `should_admit` has no await but takes the lock
several times, so `EnterHigh`, `Measure` and `Evict` are steps between which threads run.
In `Gateway`, `Shed` reads the depth and `Enqueue` raises it, with the awaits of the
limiter in between; `Begin` and `Load` read the clock, `Grant` and `Deny` run the script
later, `ReplyLost` runs it for nothing or for a repetition, `FailOpen` is its except branch. `Save` is a snapshot of Redis,
and `RedisStarts` comes back with it or with an empty volume, and without the script. In
`Streaming`, `Get` and `Check` are apart because `is_disconnected` is awaited after an item is taken;
`ReadTimeout` is the streamer's and `Timeout` the consumer's timeout;
`ReadEnd` finds the streamer drained, and then perhaps an error of the generation. In `Speculative`,
`Speculate` drafts a token, `Accept`, `Reject` and `Bonus` are the sampler's outcomes and
`Collect` the end of an iteration.

## 3. The runs

| run | instance | what it shows |
|---|---|---|
| `breaker` | 3 callers, threshold 2, 2 slots | Counters consistent after any order of late reports; a half-open circuit has a probe that will end it; it closes when the model works. |
| `breaker_probes` (refuted) | 3 callers, 1 slot | "Max concurrent calls allowed in HALF_OPEN" does not hold: a late failure resets the slots while the probe runs. |
| `pool` | 2 processes, one worker each, 2 requests, 2 tiers, every fault | Refinement of `Completions`, single copy, registry, single resolution, priority order. |
| `pool_live` | 1 process, 2 workers, 3 requests, one ZADD repeated, no timer | Every request is answered by a worker, also through an open circuit; nobody is forgotten; a half-open circuit has a worker that will report. |
| `pool_shared_queue` (refuted) | 2 processes, no faults | "Multiple instances can safely pull from the same queue" does not hold: the wrong process drops the item. |
| `batch` | 4 requests with different prompts, limits and temperatures, batches of 2 | Bounds, order, nothing lost, everybody gets the own row, rows as they would be alone at that temperature, all submits end until `stop()`. |
| `cache` | 2 threads, 4 prefixes of one or two sizes, 3 entries | Accounting, LRU order and the rejection of requests survive puts, hits, evictions and clears in every order; rejection ends. |
| `gateway` | 2 requests at a time, 4 points in time, a Redis that stops, restarts from a snapshot or empty, and loses replies | How far the queue limit and the rate can be exceeded; Retry-After holds; expiry gives nothing. |
| `limiter_restart` (refuted) | 1 request at a time | "Fail open if Redis is unavailable" does not hold: it stays open after a restart of Redis. |
| `stream` | 2 streams, 1 executor thread | Refinement of `TokenStream`; every stream ends and no thread is kept, also when generations hang. |
| `speculative` | K = 3, texts of 6, three pairs of models | The target's distribution at every position, the ends of a text and its price in passes of the target. |
| `speculative_limit` (refuted) | as above | "Maximum tokens to generate" does not hold: an end of sequence beyond the limit is returned with all before it. |

**Bounds.** Two processes with one worker each give every race over one queue; a third
adds nothing a pair does not have, since a registry and a breaker are private. Two
requests, one of each process, cover priority, ties and races over the shared queue; what
several requests do to one breaker is left to `pool_live`, where three requests of one
process go over two workers: one opens the circuit, one is its probe or is rejected, one
waits behind a full pool. `MaxStamp` caps the clock (0 or 1: equal and
different times), `Multiplier` need only exceed it. A threshold of 1 or 2 makes the
circuit open within the run; 2 slots allow a slot to be free while another is taken.
`MaxFailures` caps the failure count, which nothing reads above the threshold. Four
requests over batches of two leave a full batch, a rest and a straggler; the prompts are of
lengths 1, 3, 2 and 1 and the limits 3, 1, 2 and 2, so that padding, the longest limit and the
shortest text belong to different rows. One request is warmer than the others and warms every batch it is
in; two of the others may then get another text than at their own temperature. `Resent` names
the requests whose ZADD the client library may send a second time; `OneCopy` and
`Completions` need it empty, liveness does not.

The cache has 16 bytes and 3 entries for prefixes of 2 or 9, 3, 4, and 6 or 18. Any three of the least fit, so
that a fourth evicts one by the number of entries with memory to spare; the state of 9 evicts one or two and
keeps the others, also when it replaces the state of 2 of the same prefix; that of 18 never fits. The
rest of the memory is 20 or 37 against levels of 34 and 38, so that the cache alone can decide
the level and the rest alone can keep it up. In `gateway`, a bucket of one token of 3 parts refilled by
2 a second is neither empty nor full at whole seconds, and its TTL of 3 falls within
`MaxTime` = 3; `MaxDepth` is 1 and two requests overtake each other. `MaxSaved` = 1 caps the depth
of a snapshot, here at the limit of the queue: one that was taken beyond it adds its excess to the bound. The view
leaves out the answers, which no action reads. The two requests are alike and
the run uses their symmetry, as it checks no liveness. In `stream`, one stream has an
empty text in its middle, which is not sent, the other a text that looks like the error
sentinel; one thread for two streams makes one of them wait. In `speculative` one draft differs from the target, one
is equal to it, one proposes what the target never says; 6 tokens in steps of at most 4
end a text within a step and between steps.

**Fairness.** Weak fairness of what the event loop, Redis and the executor do by
themselves: a ready task runs, a command is answered, an inference ends, a timer fires.
Nothing is assumed of clients, faults, `stop()` or restarts. `pool_live` has timers switched
off, so an answer can only come from a worker; `ClosesAfterRecovery` assumes that the model
works from some time on (`<>[]healthy`) and that requests keep coming, since the breaker has no
timer of its own. `RejectionEnds` assumes that requests keep coming as well, because only
`should_admit` looks at the memory: without requests nobody is rejected, and the flag stays.
In `Streaming` the event generator and a producer that has started are fair, timeouts
included; nothing is asked of the generation, which may hang, nor that a producer gets a
thread, since other inferences hold threads too.

**Deadlock** is checked except in `batch`, `stream` and the two speculative runs: those systems
rest when every submit or stream has ended, the scheduler was stopped or the text is complete.

## 4. Findings

1. `core/circuit_breaker.py:184`: any failure in HALF_OPEN, also of a call admitted while
   CLOSED, reopens the circuit and forgets the probes that run: later periods admit more
   beside them than `half_open_max_calls`.
2. `core/worker.py:177`: with a shared queue an instance destroys the requests of the others.
3. `queue/rate_limiter.py:133`: the hash of the script is cached for ever. A restarted Redis
   does not know it, and the limiter lets everything pass until the process is restarted.
4. `speculative/orchestrator.py:96`: an end of sequence in a step returns before the text is cut, which may then be
   longer than `max_new_tokens` by up to K.

Observed while modelling, without a run of their own, because the models state what the code
does or because it is one place without an interleaving:

- `middleware/load_shedder.py:21` says the bypass paths "must always be reachable"; the rate limiter
  behind it may still answer them with 429 (`Deny`). `/health` answers 500 without Redis, because the depth
  is asked for after the PING that was caught (`Health`).
- `speculative/orchestrator.py:138`: the "fallback to standard decoding" of a low acceptance rate ends the text, before
  its end of sequence and its limit, and nothing generates the rest (`EndsForAReason` has this exception).
  A disabled speculation is a 400, not a standard generation.
- `core/batcher.py:118`: `stop()` resolves no future, although tests/test_batcher.py:148 speaks of "pending requests
  resolve or get cancelled on stop". In the application the pool stops first and cancels the callers.
- `core/inference.py:163`: all rows of a batch are equally long, and a row that ended early is filled up with pad
  tokens, which its `completion_tokens` counts up to `max_tokens`; the text is right.
- The error sentinel is in band: a text that begins with `__ERROR__:` ends its stream as an
  error (`Chunks` of kind "marker"). A generation whose streamer timed out runs on beside
  the executor, outside of `max_workers` (`GenerationsBounded` leaves those out).
- `lifecycle.py:71`: nobody calls `track_request`, so the drain has nothing to wait for.
- `core/kv_cache.py:196`: with `max_entries = 0` `put` never returns (`KVCacheAssumption`).
- A batch runs at its highest temperature and without seeds, as `batcher.py:74` and `:142` document ("best-effort"): a
  request gets one of the texts of that temperature (`OwnResult`). On a CPU the tracker sums allocations that nothing
  registers, so no pressure is ever seen.
  `generate_with_cache` and `_create_sync_response` have no caller yet.

## 5. The proofs

All hold for every value of the constants that the named assumptions allow. Every invariant and
every action property of the passing runs is proved.

**Induction over data.** Sums (`MapThenSumSet`), eviction loops (`EvictMany`) and the picking of
elements (`Picked`) are recursive functions, which TLA+ defines by a CHOOSE: a proof has to show
first that a function with these equations exists, and by induction on the size of the data
what it computes. The induction principle is proved from the well-foundedness of `<` on the
numbers, which the library states without an operator parameter: a nonempty set of numbers has
a least element (`LeastNumber`), so a set that holds 0 and with each number the next holds all of them
(`NumberInduction`). The predicate of an induction is then a set, `{n \in Nat : ...}`.

**Facts by name.** What a lemma gives about sequences is a predicate of its own where it is used more
than once (`Joins`, `Collects`, `MarkedAfter`, `InPlace`, `Joined`, `Appends`): a step cites the lemma for
the predicate, and the next one expands it. The leaves then follow from few facts, far from the
time limits of the provers.

- `Breaker_proofs`: `BreakerInv` (types; CLOSED exactly below the threshold; no slots outside of
  HALF_OPEN) is kept by every operator of `Breaker`. Assumes a positive threshold, a positive
  number of slots, a natural recovery time.
- `CircuitBreaker_proofs`: the four invariants of the run. The invariant adds to `BreakerInv` that the
  slots are the running probes, that there is none outside of HALF_OPEN (or the next period would
  count from the wrong number) and at least one in it. Every report ends the half-open period it
  lands in; the callers are a finite set, counted with the cardinality theorems.
- `WorkerPool_proofs`: types, together with what they need: a worker holds an item exactly
  between a pop and its end, and a process that is down has only stopped workers (otherwise a
  restart could find an item in the hands of a polling worker). `ScoreKeepsOrder`: the score
  keeps tiers apart for every multiplier above the latest timestamp. `HalfOpenIsServed`: only an
  admitted probe makes a breaker half-open, its worker runs from the same step on, and whatever any
  worker reports ends the period.
  What the pool promises rests on the inductive invariant `PoolInv` in three parts. `Registry`: an
  entry is awaited or left by a raising enqueue, its future is pending or was cancelled by a
  timer whose handler has not run. `Copies`: a request is nowhere before its ZADD, then in the
  queue or with one worker. `Ledger`: nothing has run for a request that is queued or just
  popped, it runs for one that a worker runs, and a result is a computed one. Neither is
  inductive alone: that an inference starts on untouched work needs the single copy. From
  these: `SettledOnce`, `LeakOnlyFromEnqueue`, `NoWorkForTheGone`, `PopsByPriority`,
  and, with `Resent = {}`, `OneCopy` and the refinement `KeepsPromise` (each step of the pool is a
  step of `Completions` or a stutter). `WhatClientsAreTold` draws from the refinement
  what a client and the model may rely on: "ok" means computed for this request, the first answer stands, an
  inference begins once. `OneInstanceForgetsNobody` proves `NotForgotten` for one
  process whose Redis commands are not lost; the run `pool_shared_queue` shows that two processes break it.
- `BatchScheduler_proofs`: types, the bound of a batch, own results, single resolution, and that
  until `stop()` batch and queue together are the last of what was submitted, in order
  (`NothingLost`), and all the rest is settled (`LeftMeansSettled`). `NobodyElsesResult` follows a request through positions:
  it is in one place of the batch, its padded row is in that place of the input, the output of the model has
  its continuation there (`RowOfOutput`), the split leaves the results in place (`SplitOfRow`), and
  the zip hands out that place, past the futures that are done. `NoTraceOfThePadding` says that a row may get exactly the
  texts its request may get alone at the temperature of the batch: what the mask lets the model see is
  the prompt (`PickedSuffix`); the common number of steps is the longest limit or the longest continuation, so each
  row has ended or reached its limit by then (`StepsEnough`); the split after the padded prompt
  finds exactly the new tokens, and the filling of a row that ended early leaves no trace in its
  text (`TextOfPadded`). It holds for every list of requests, not only for those the collector forms.
- `MemoryPressure_proofs`: first the operations of the cache. `Counted` says that the keys are distinct
  and the counter is the sum of the entries; `Trimmed` that a cache has lost only entries that
  precede all it kept. One eviction trims, so any number does (`EvictManyTrims`), and put finds room
  after evicting everything at the latest. `PutResult` subtracts the size stored
  with a replaced entry and adds the new one, whatever both are; the replaced entry goes first, and the ones evicted after it precede all
  others that stay. `AccountingHolds` and
  `EvictsOldestHolds` then follow from one invariant, in which the order of the cache is part of
  the order of last uses (`Ordered`): a hit and a put move their prefix to the end of both, evictions
  and `clear` take from the cache alone. The limit on what `_on_high` evicts (`TypeCorrect`) rests on the accounting.
  `PutAlwaysEnds`: an emptied cache has room (`RoomInTheEnd`), so the loops of put end for every prefix and size and before
  they would evict from an empty cache; this is where `max_entries` must not be 0. `HighFreesEnough`: what
  `_on_high` measured is freed, or nothing is left, also if the cache changed in between.
  `RejectsSinceCritical` needs only the levels. Assumes that sizes are natural numbers, `max_entries` is positive
  and HIGH below CRITICAL.
- `Gateway_proofs`: `DepthBounded` by the set of requests between shedder and queue, which only a
  depth below the limit lets grow; the bound is relative to the depth of the last snapshot. For the bucket, three facts are needed at once. `Budget`: tokens and
  grants together are at most the size and the refill up to the bucket's stamp, which stays true when a
  script moves that stamp back. `Solvent`: at the time of its last use a bucket holds no less than
  nothing, so that the TTL, twice the time to fill it, makes it full: `ExpiryGivesNothing`. `KeepsWord`: at
  the promised time there is a token; a script that refuses takes nothing, so it moves tokens
  and stamp along one line and keeps the promises to others. A restart keeps all
  three: a snapshot's own account holds (`SavedAccount`), and while its bucket has not expired it is at least as
  rich as the one that grew out of it (`SavedRicher`). Assumes a positive size, unit and rate.
- `Streaming_proofs`: `StreamRefines`, over an invariant that says of every queue that each
  text follows the one before it with no event between them (`InOrder`), that the last one is the
  last event read (`UpToRead`), and that an end marker stands behind the last event or behind an
  error. `ExecutorBoundsGenerations`: a generation that runs and has not stalled has a reading
  producer, and those take the threads. For all texts, also of different lengths and all empty.
  `ClientsReceive` spells out the promise: the client has an initial part of the texts, in order and
  each once, and all of them when its stream ends as complete.
- `Speculative_proofs`: `TextOfTarget`, over an invariant that follows the contexts through a step:
  the i-th drafted token, the i-th draft and the i-th target distribution all belong to the
  token before it (`DraftSupport`, `KeptSupport`, `ExtraSupport`), also after a rejection. `EndHasReason`
  says that a text stops at its first end of sequence or exactly at the limit, but for the fallback;
  `ExcessBounded` bounds the excess of one with an end of sequence by K; `LoopAdvances` needs only that a step adds one
  token of its own. `NoMorePasses` (`PassesBounded`) adds that a pass of the target is paid for by a token
  before the next one starts (`Passes`): with the limit on the tokens, the loop ends for every draft. `SamplerIsExact`: for two distributions of equal total the mass that is rejected is the mass
  of the residual, so that acceptance and residual add up to the target at every token, also when
  nothing is rejected. For every pair of models in which each context has a token of positive weight.

**Only model-checked:** all liveness (`ClosesAfterRecovery`, `HalfOpenEnds`, `Answered`,
`EverySubmitEnds`, `RejectionEnds`, `StreamEnds`, `SlotFreed`; fairness and ENABLED are out of the
prover's reach), and with it that no ZADD repeated by the library stops an answer.

## 6. What is left out, and the plan

Abstracted in what is modelled: prompts, outputs, token counts and metrics of the pool; the
polling sleep; the tensor work; the text of responses. The model of the pool does
not distinguish a worker that waits for the executor from one that waits for the batcher.
The bucket counts in integers where the script has floating point, seconds are whole, and there is one
API key, since buckets share nothing. The models of speculation see one token of context,
which does not tell apart longer contexts but keeps every position's alignment visible. The
model of a batch says one of the continuations possible at a temperature after what its mask lets it see; seeds are left
out. The script stores `tostring` of its numbers, 14 digits of them; the integers of the model are exact.

Still open, in this order:

1. Gateway and pool as one system, with the depth raised by `WorkerPool`'s ZADD.
2. Priorities under a steady stream of urgent requests, for which the model would need requests
   that come again.

Not modelled: configuration, logging, schemas, model loading, the memory API, the estimator and the
tracker's manual allocations, benchmarks, deployment files: they keep no state that a
decision depends on, or are pure I/O. The drain of `lifecycle.py` counts requests nobody reports.
