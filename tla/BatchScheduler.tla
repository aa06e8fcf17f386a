---------------------------- MODULE BatchScheduler ----------------------------
(***************************************************************************)
(* core/batcher.py: callers submit requests into an asyncio.Queue and      *)
(* await a future each; one collector task takes a first item, waits for   *)
(* more until the batch is full or max_batch_wait_ms is over, drains what  *)
(* is there, runs the batch in the executor and resolves the futures.      *)
(* An action is the code between two awaits of one task; the timer, the    *)
(* executor and the callers run in between.                                *)
(***************************************************************************)
EXTENDS BatchForward

CONSTANTS
    MaxBatchSize,   \* max_batch_size
    Stops,          \* whether stop() may be called
    Cancels         \* whether a caller may be cancelled while it waits

ASSUME BatchAssumption ==
    /\ MaxBatchSize \in Nat \ {0}
    /\ Stops \in BOOLEAN /\ Cancels \in BOOLEAN

VARIABLES
    caller,      \* where the caller of submit() is
    future,      \* the state of its future
    result,      \* what the future carries once it has a result
    queue,       \* the asyncio.Queue
    pc,          \* where the collector is
    batch,       \* the batch it builds or runs
    running,     \* _running
    cancelling,  \* the collector's task was cancelled and has not noticed yet
    submitted    \* history: every request in the order of submission

vars == <<caller, future, result, queue, pc, batch, running, cancelling, submitted>>
collectorVars == <<pc, batch>>
stopVars == <<running, cancelling>>

CallerState == {"idle", "waiting", "returned", "raised", "cancelled"}
Settled == {"result", "error", "cancelled"}
FutureState == {"none", "pending"} \cup Settled
Answers == [text : Seq(Nat), completion_tokens : Nat]
NoAnswer == [text |-> <<>>, completion_tokens |-> 0]
CollectorState == {"first", "filling", "executing", "stopped"}

\* A batch exists exactly while it is filled or executed.
TypeOK ==
    /\ caller \in [Requests -> CallerState]
    /\ future \in [Requests -> FutureState]
    /\ result \in [Requests -> Answers]
    /\ queue \in Seq(Requests)
    /\ pc \in CollectorState
    /\ batch \in Seq(Requests)
    /\ batch = <<>> <=> pc \in {"first", "stopped"}
    /\ running \in BOOLEAN /\ cancelling \in BOOLEAN
    /\ submitted \in Seq(Requests)

\* After start().
Init ==
    /\ caller = [r \in Requests |-> "idle"]
    /\ future = [r \in Requests |-> "none"]
    /\ result = [r \in Requests |-> NoAnswer]
    /\ queue = <<>>
    /\ pc = "first"
    /\ batch = <<>>
    /\ running = TRUE /\ cancelling = FALSE
    /\ submitted = <<>>

-----------------------------------------------------------------------------
(***************************************************************************)
(* The callers.                                                            *)
(***************************************************************************)

\* submit up to its await; the queue is unbounded, so put does not wait.
Submit(r) ==
    /\ caller[r] = "idle"
    /\ caller' = [caller EXCEPT ![r] = "waiting"]
    /\ future' = [future EXCEPT ![r] = "pending"]
    /\ queue' = Append(queue, r)
    /\ submitted' = Append(submitted, r)
    /\ UNCHANGED <<result, collectorVars, stopVars>>

\* The awaited future is resolved: submit returns or raises.
Return(r) ==
    /\ caller[r] = "waiting"
    /\ future[r] \in Settled
    /\ caller' = [caller EXCEPT ![r] =
                     IF future[r] = "result" THEN "returned" ELSE "raised"]
    /\ UNCHANGED <<future, result, queue, collectorVars, stopVars, submitted>>

\* The task that awaits submit is cancelled (the worker pool stops): the future
\* is cancelled with it, the item stays where it is.
CancelCaller(r) ==
    /\ Cancels
    /\ caller[r] = "waiting" /\ future[r] = "pending"
    /\ caller' = [caller EXCEPT ![r] = "cancelled"]
    /\ future' = [future EXCEPT ![r] = "cancelled"]
    /\ UNCHANGED <<result, queue, collectorVars, stopVars, submitted>>

-----------------------------------------------------------------------------
(***************************************************************************)
(* The collector.                                                          *)
(***************************************************************************)

\* await self._queue.get() of the loop.
TakeFirst ==
    /\ pc = "first" /\ running
    /\ queue # <<>>
    /\ batch' = <<Head(queue)>>
    /\ queue' = Tail(queue)
    /\ pc' = "filling"
    /\ UNCHANGED <<caller, future, result, stopVars, submitted>>

\* One round of _wait_for_batch, which wait_for runs as a task of its own: it may
\* take one more item while the cancellation of the collector is under way.
Fill ==
    /\ pc = "filling"
    /\ Len(batch) < MaxBatchSize
    /\ queue # <<>>
    /\ batch' = Append(batch, Head(queue))
    /\ queue' = Tail(queue)
    /\ UNCHANGED <<caller, future, result, pc, stopVars, submitted>>

\* Slips in the drain: one item too many; the drained items first.
DrainOneMore(n) ==
    LET m == IF n < Len(queue) THEN n + 1 ELSE n
    IN  /\ batch' = batch \o SubSeq(queue, 1, m)
        /\ queue' = SubSeq(queue, m + 1, Len(queue))
DrainInFront(n) ==
    /\ batch' = SubSeq(queue, 1, n) \o batch
    /\ queue' = SubSeq(queue, n + 1, Len(queue))

\* The non-blocking drain takes n items.
Drain(n) ==
    /\ batch' = batch \o SubSeq(queue, 1, n)
    /\ queue' = SubSeq(queue, n + 1, Len(queue))

\* wait_for is over; the loop drains and hands the batch to the executor without
\* another await.
Dispatch ==
    /\ LET room == MaxBatchSize - Len(batch)
       IN  Drain(IF Len(queue) < room THEN Len(queue) ELSE room)
    /\ pc' = "executing"
    /\ UNCHANGED <<caller, future, result, running, submitted>>

\* The batch is full.  A cancellation that arrives when _wait_for_batch is
\* already done is swallowed by wait_for (Python 3.11), and the batch still runs.
DispatchFull ==
    /\ pc = "filling"
    /\ Len(batch) >= MaxBatchSize
    /\ Dispatch
    /\ cancelling' = FALSE

\* A slip: a lone request is not flushed.
DispatchPair ==
    /\ pc = "filling" /\ ~cancelling
    /\ Len(batch) < MaxBatchSize /\ Len(batch) > 1
    /\ Dispatch
    /\ UNCHANGED cancelling

\* max_batch_wait_ms after the first item was taken.
DispatchOnTimeout ==
    /\ pc = "filling" /\ ~cancelling
    /\ Len(batch) < MaxBatchSize
    /\ Dispatch
    /\ UNCHANGED cancelling

InBatch(r) == \E i \in DOMAIN batch : batch[i] = r

\* A slip: the batch is not a new one in every round.
NextRoundSameBatch ==
    /\ pc' = IF running THEN "first" ELSE "stopped"
    /\ UNCHANGED batch

\* Back to the head of the loop.
NextRound ==
    /\ pc' = IF running THEN "first" ELSE "stopped"
    /\ batch' = <<>>

\* The positions of the batch whose item is r; there is at most one.
Row(r) == CHOOSE i \in DOMAIN batch : batch[i] = r

Awaited(r) == InBatch(r) /\ future[r] = "pending"

\* Slips: the results in the reverse order; done futures set again; only the
\* first item failed.
ResultsReversed(results) ==
    /\ future' = [r \in Requests |-> IF Awaited(r) THEN "result" ELSE future[r]]
    /\ result' = [r \in Requests |->
                     IF Awaited(r) THEN results[Len(batch) + 1 - Row(r)] ELSE result[r]]
ResultsAgain(results) ==
    /\ future' = [r \in Requests |-> IF InBatch(r) THEN "result" ELSE future[r]]
    /\ result' = [r \in Requests |-> IF InBatch(r) THEN results[Row(r)] ELSE result[r]]
FailFirst ==
    /\ future' = [r \in Requests |->
                     IF batch[1] = r /\ future[r] = "pending" THEN "error" ELSE future[r]]
    /\ UNCHANGED result

\* zip hands the i-th result to the i-th item.
ResolveResults(results) ==
    /\ future' = [r \in Requests |-> IF Awaited(r) THEN "result" ELSE future[r]]
    /\ result' = [r \in Requests |-> IF Awaited(r) THEN results[Row(r)] ELSE result[r]]

\* One exception fails every item of the batch.
ResolveError ==
    /\ future' = [r \in Requests |-> IF Awaited(r) THEN "error" ELSE future[r]]
    /\ UNCHANGED result

BatchSucceeds ==
    /\ pc = "executing" /\ ~cancelling
    /\ NextRound
    /\ UNCHANGED <<caller, queue, stopVars, submitted>>
    /\ \E results \in GenerateBatch(batch) : ResolveResults(results)

BatchFails ==
    /\ pc = "executing" /\ ~cancelling
    /\ ResolveError
    /\ NextRound
    /\ UNCHANGED <<caller, queue, stopVars, submitted>>

-----------------------------------------------------------------------------
(***************************************************************************)
(* stop(): the collector is cancelled and awaited; nothing else is done.   *)
(***************************************************************************)

Stop ==
    /\ Stops /\ running
    /\ running' = FALSE
    /\ cancelling' = (pc # "stopped")
    /\ UNCHANGED <<caller, future, result, queue, collectorVars, submitted>>

\* CancelledError at the await the collector is in: it breaks out of its loop
\* and the batch it had is gone, in the executor or not.
CollectorExits ==
    /\ cancelling
    /\ pc' = "stopped"
    /\ batch' = <<>>
    /\ cancelling' = FALSE
    /\ UNCHANGED <<caller, future, result, queue, running, submitted>>

-----------------------------------------------------------------------------
CallerStep == \E r \in Requests : Submit(r) \/ Return(r) \/ CancelCaller(r)

CollectorStep ==
    \/ TakeFirst \/ Fill \/ DispatchFull \/ DispatchOnTimeout
    \/ BatchSucceeds \/ BatchFails \/ CollectorExits

Next == CallerStep \/ CollectorStep \/ Stop

Spec == Init /\ [][Next]_vars

\* The event loop runs ready tasks, the timer of wait_for fires, the executor
\* finishes a batch.
Fairness ==
    /\ \A r \in Requests : WF_vars(Return(r))
    /\ WF_vars(TakeFirst)
    /\ WF_vars(DispatchFull \/ DispatchOnTimeout)
    /\ WF_vars(BatchFails \/ BatchSucceeds)
    /\ WF_vars(CollectorExits)

FairSpec == Spec /\ Fairness

-----------------------------------------------------------------------------
(***************************************************************************)
(* Safety.                                                                 *)
(***************************************************************************)

\* A batch never exceeds max_batch_size, however the waiting fill, the timer and
\* the final drain overlap.
BatchBounded == Len(batch) <= MaxBatchSize

\* Until stop() is called, the batch followed by the queue is exactly the tail
\* of what was submitted, in that order: no item is lost or taken twice when
\* the timer cancels a waiting get, and none overtakes another.
NothingLost ==
    running =>
        LET open == batch \o queue
        IN  /\ Len(open) <= Len(submitted)
            /\ open = SubSeq(submitted, Len(submitted) - Len(open) + 1, Len(submitted))

\* While the scheduler runs, whatever has left the batch is settled: a batch
\* that fails fails all its items, and nobody is forgotten.
LeftMeansSettled ==
    running =>
        \A n \in 1 .. Len(submitted) - Len(batch \o queue) :
            future[submitted[n]] # "pending"

\* Through padding, the common temperature, splitting and the zip of results with
\* items, a request gets a text that its own prompt may get alone, up to its own
\* limit, at its own temperature or a higher one of another request.
OwnResult ==
    \A r \in Requests :
        future[r] = "result" =>
            \E t \in Temperatures :
                /\ t >= Temperature[r]
                /\ \E alone \in GenerateAlone(r, t) : result[r].text = alone.text

\* The other rows change nothing but the temperature: with longer or shorter
\* prompts, larger or smaller limits, earlier or later ends in its batch, a row may
\* get exactly the texts its request may get alone at the temperature of the batch.
PaddingLeavesNoTrace ==
    pc = "executing" =>
        \A i \in DOMAIN batch :
            {results[i].text : results \in GenerateBatch(batch)} =
                {alone.text : alone \in GenerateAlone(batch[i], BatchTemperature(batch))}

\* A future that is done, or cancelled with its caller, is never set again.
SettledOnce ==
    [][\A r \in Requests :
          future[r] \in Settled => future'[r] = future[r] /\ result'[r] = result[r]]_vars

\* Unless stop() is called, every submit returns or raises: a lone request is
\* flushed by the timer, and requests that arrive while a batch runs get the
\* next one.
EverySubmitEnds ==
    \A r \in Requests : caller[r] = "waiting" /\ running ~>
                           caller[r] # "waiting" \/ ~running

=============================================================================
