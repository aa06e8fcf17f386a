------------------------------ MODULE Streaming ------------------------------
(***************************************************************************)
(* A streaming completion: the event_generator on the event loop and       *)
(* _produce_tokens in a thread of the executor (api/router.py), and a      *)
(* generation thread of its own with a queue of texts between it and the   *)
(* producer (core/streaming.py).                                           *)
(*                                                                         *)
(* Both queues are unbounded.  The one between producer and event loop,    *)
(* filled by call_soon_threadsafe, keeps the order.  The texts in the one  *)
(* between generation and producer are those made and not yet read.        *)
(***************************************************************************)
EXTENDS Naturals, Sequences, FiniteSets

CONSTANTS
    Streams,
    Chunks,       \* what the model generates: "text", "empty" or "marker", a
                  \* text that looks like the error sentinel "__ERROR__:"
    MaxWorkers    \* max_workers of the executor

ASSUME StreamingAssumption ==
    /\ IsFiniteSet(Streams)
    /\ Chunks \in [Streams -> Seq({"text", "empty", "marker"})]
    /\ MaxWorkers \in Nat \ {0}

VARIABLES
    consumer,     \* where the event_generator is
    token,        \* the position of the text it has taken from the queue
    sent,         \* positions of the texts the client was sent
    client,       \* whether the client still listens
    producer,     \* where _produce_tokens is
    tokenQueue,   \* token_queue
    generation,   \* the generation thread
    made,         \* texts it has put into the streamer,
    read,         \* and texts the producer has taken out
    stalled       \* history: the streamer ran into its timeout

consumerVars == <<consumer, token, sent, client>>
producerVars == <<producer, read, stalled>>
generationVars == <<generation, made>>
vars == <<consumerVars, producerVars, generationVars, tokenQueue>>

Ended == {"complete", "error", "cut"}

Item == [type : {"token"}, at : Nat \ {0}] \cup [type : {"error", "end"}, at : {0}]
Token(i) == [type |-> "token", at |-> i]
Error == [type |-> "error", at |-> 0]
End == [type |-> "end", at |-> 0]

TypeOK ==
    /\ consumer \in [Streams -> {"none", "waiting", "checking"} \cup Ended]
    /\ token \in [Streams -> Nat]
    /\ sent \in [Streams -> Seq(Nat \ {0})]
    /\ client \in [Streams -> BOOLEAN]
    /\ producer \in [Streams -> {"none", "queued", "reading", "done"}]
    /\ tokenQueue \in [Streams -> Seq(Item)]
    /\ generation \in [Streams -> {"none", "running", "ended", "failed"}]
    /\ made \in [Streams -> Nat]
    /\ read \in [Streams -> Nat]
    /\ stalled \in [Streams -> BOOLEAN]

Init ==
    /\ consumer = [s \in Streams |-> "none"]
    /\ token = [s \in Streams |-> 0]
    /\ sent = [s \in Streams |-> <<>>]
    /\ client = [s \in Streams |-> TRUE]
    /\ producer = [s \in Streams |-> "none"]
    /\ tokenQueue = [s \in Streams |-> <<>>]
    /\ generation = [s \in Streams |-> "none"]
    /\ made = [s \in Streams |-> 0]
    /\ read = [s \in Streams |-> 0]
    /\ stalled = [s \in Streams |-> FALSE]

Post(s, items) == tokenQueue' = [tokenQueue EXCEPT ![s] = @ \o items]

-----------------------------------------------------------------------------
(***************************************************************************)
(* event_generator.                                                        *)
(***************************************************************************)

\* executor.submit, then the first get.
Open(s) ==
    /\ consumer[s] = "none"
    /\ consumer' = [consumer EXCEPT ![s] = "waiting"]
    /\ producer' = [producer EXCEPT ![s] = "queued"]
    /\ UNCHANGED <<token, sent, client, read, stalled, generationVars, tokenQueue>>

\* The generator ends: an error event if there is one, then [DONE].
EndStream(s, outcome) == consumer' = [consumer EXCEPT ![s] = outcome]

\* get returns.
Get(s) ==
    /\ consumer[s] = "waiting"
    /\ tokenQueue[s] # <<>>
    /\ LET item == Head(tokenQueue[s]) IN
           IF item.type = "end" THEN
               EndStream(s, "complete") /\ UNCHANGED token
           ELSE IF item.type = "error" \/ Chunks[s][item.at] = "marker" THEN
               EndStream(s, "error") /\ UNCHANGED token
           ELSE
               /\ consumer' = [consumer EXCEPT ![s] = "checking"]
               /\ token' = [token EXCEPT ![s] = item.at]
    /\ tokenQueue' = [tokenQueue EXCEPT ![s] = Tail(@)]
    /\ UNCHANGED <<sent, client, producerVars, generationVars>>

\* is_disconnected returns: the text is sent, or the generator returns.
Check(s) ==
    /\ consumer[s] = "checking"
    /\ token' = [token EXCEPT ![s] = 0]
    /\ IF client[s]
       THEN /\ sent' = [sent EXCEPT ![s] = Append(@, token[s])]
            /\ consumer' = [consumer EXCEPT ![s] = "waiting"]
       ELSE /\ EndStream(s, "cut")
            /\ UNCHANGED sent
    /\ UNCHANGED <<client, producerVars, generationVars, tokenQueue>>

\* A slip: the timeout is reported and the generator waits on.
TimeoutWaitsOn(s) ==
    /\ consumer[s] = "waiting"
    /\ UNCHANGED vars

\* wait_for gives up, also before the producer has begun; a text may arrive at the
\* same moment and is not read.
Timeout(s) ==
    /\ consumer[s] = "waiting"
    /\ EndStream(s, "error")
    /\ UNCHANGED <<token, sent, client, producerVars, generationVars, tokenQueue>>

\* The response of a client that is gone is cancelled at any of its awaits.
Cancel(s) ==
    /\ consumer[s] \in {"waiting", "checking"}
    /\ ~client[s]
    /\ EndStream(s, "cut")
    /\ token' = [token EXCEPT ![s] = 0]
    /\ UNCHANGED <<sent, client, producerVars, generationVars, tokenQueue>>

Disconnect(s) ==
    /\ consumer[s] \notin Ended
    /\ client[s]
    /\ client' = [client EXCEPT ![s] = FALSE]
    /\ UNCHANGED <<consumer, token, sent, producerVars, generationVars, tokenQueue>>

-----------------------------------------------------------------------------
(***************************************************************************)
(* _produce_tokens and generate_stream, in a thread of the executor.       *)
(***************************************************************************)

\* A slip: a thread of its own, not one of the executor.
StartUnbounded(s) ==
    /\ producer[s] = "queued"
    /\ producer' = [producer EXCEPT ![s] = "reading"]
    /\ generation' = [generation EXCEPT ![s] = "running"]
    /\ UNCHANGED <<consumerVars, read, stalled, made, tokenQueue>>

\* The executor has a thread for it, and the generation thread starts, also for a
\* client that is gone or was told of a timeout.
Start(s) ==
    /\ producer[s] = "queued"
    /\ Cardinality({r \in Streams : producer[r] = "reading"}) < MaxWorkers
    /\ producer' = [producer EXCEPT ![s] = "reading"]
    /\ generation' = [generation EXCEPT ![s] = "running"]
    /\ UNCHANGED <<consumerVars, read, stalled, made, tokenQueue>>

\* generate_stream raises before it starts the generation.
StartFails(s) ==
    /\ producer[s] = "queued"
    /\ Cardinality({r \in Streams : producer[r] = "reading"}) < MaxWorkers
    /\ producer' = [producer EXCEPT ![s] = "done"]
    /\ Post(s, <<Error, End>>)
    /\ UNCHANGED <<consumerVars, read, stalled, generationVars>>

\* The streamer yields a text; empty ones are not passed on.
Read(s) ==
    /\ producer[s] = "reading"
    /\ read[s] < made[s]
    /\ read' = [read EXCEPT ![s] = @ + 1]
    /\ IF Chunks[s][read[s] + 1] = "empty"
       THEN UNCHANGED tokenQueue
       ELSE Post(s, <<Token(read[s] + 1)>>)
    /\ UNCHANGED <<consumerVars, producer, stalled, generationVars>>

\* The streamer is exhausted.  The thread is joined, for five seconds at most, and
\* may have recorded an error of model.generate from after its last text.
ReadEnd(s) ==
    /\ producer[s] = "reading"
    /\ read[s] = made[s]
    /\ generation[s] = "ended"
    /\ producer' = [producer EXCEPT ![s] = "done"]
    /\ Post(s, <<End>>) \/ Post(s, <<Error, End>>)
    /\ UNCHANGED <<consumerVars, read, stalled, generationVars>>

\* A slip: only the finally block is run.
ReadTimeoutSilent(s) ==
    /\ producer[s] = "reading"
    /\ read[s] = made[s]
    /\ generation[s] # "ended"
    /\ producer' = [producer EXCEPT ![s] = "done"]
    /\ stalled' = [stalled EXCEPT ![s] = TRUE]
    /\ Post(s, <<End>>)
    /\ UNCHANGED <<consumerVars, read, generationVars>>

\* A slip: the timeout only matters when an error was recorded.
ReadTimeoutIfFailed(s) ==
    /\ producer[s] = "reading"
    /\ read[s] = made[s]
    /\ generation[s] = "failed"
    /\ producer' = [producer EXCEPT ![s] = "done"]
    /\ stalled' = [stalled EXCEPT ![s] = TRUE]
    /\ Post(s, <<Error, End>>)
    /\ UNCHANGED <<consumerVars, read, generationVars>>

\* queue.Empty: no text for too long.  A generation that failed puts no end into
\* the streamer, so this is how its failure is noticed.  One that still runs is
\* left alone, and its thread goes on beside the executor.
ReadTimeout(s) ==
    /\ producer[s] = "reading"
    /\ read[s] = made[s]
    /\ generation[s] # "ended"
    /\ producer' = [producer EXCEPT ![s] = "done"]
    /\ stalled' = [stalled EXCEPT ![s] = TRUE]
    /\ Post(s, <<Error, End>>)
    /\ UNCHANGED <<consumerVars, read, generationVars>>

-----------------------------------------------------------------------------
(***************************************************************************)
(* _generate_in_thread: model.generate with the streamer.                  *)
(***************************************************************************)
Generate(s) ==
    /\ generation[s] = "running"
    /\ made[s] < Len(Chunks[s])
    /\ made' = [made EXCEPT ![s] = @ + 1]
    /\ UNCHANGED <<consumerVars, producerVars, generation, tokenQueue>>

GenerateEnds(s) ==
    /\ generation[s] = "running"
    /\ made[s] = Len(Chunks[s])
    /\ generation' = [generation EXCEPT ![s] = "ended"]
    /\ UNCHANGED <<consumerVars, producerVars, made, tokenQueue>>

GenerateFails(s) ==
    /\ generation[s] = "running"
    /\ generation' = [generation EXCEPT ![s] = "failed"]
    /\ UNCHANGED <<consumerVars, producerVars, made, tokenQueue>>

-----------------------------------------------------------------------------
ConsumerStep(s) == Get(s) \/ Check(s) \/ Timeout(s) \/ Cancel(s)
ProducerStep(s) == Read(s) \/ ReadEnd(s) \/ ReadTimeout(s)
GenerationStep(s) == Generate(s) \/ GenerateEnds(s) \/ GenerateFails(s)

Next ==
    \E s \in Streams :
        \/ Open(s) \/ Disconnect(s) \/ Start(s) \/ StartFails(s)
        \/ ConsumerStep(s) \/ ProducerStep(s) \/ GenerationStep(s)

Spec == Init /\ [][Next]_vars

\* The event loop runs what can run, a thread that has started goes on, and both
\* timeouts elapse.  Nothing is asked of the generation, which may hang for ever,
\* and not that a thread starts: non-streaming inferences hold threads as well.
Fairness == \A s \in Streams : WF_vars(ConsumerStep(s)) /\ WF_vars(ProducerStep(s))

FairSpec == Spec /\ Fairness

-----------------------------------------------------------------------------
(***************************************************************************)
(* Properties.                                                             *)
(***************************************************************************)
Outcome(s) == IF consumer[s] \in {"waiting", "checking"} THEN "open" ELSE consumer[s]

Promised == INSTANCE TokenStream
                WITH outcome <- [s \in Streams |-> Outcome(s)]

\* The stream keeps what it promises its client: every text once and in order, and
\* no end that looks complete after a stall, a failure or a lost race of timeouts.
KeepsStreamPromise == Promised!Spec

\* Every stream ends, also when its generation hangs or the executor never has a
\* thread for it.
StreamEnds == \A s \in Streams : consumer[s] # "none" ~> consumer[s] \in Ended

\* A hanging generation does not keep its thread of the executor.
SlotFreed == \A s \in Streams : producer[s] = "reading" ~> producer[s] = "done"

\* main.py:66 lets max_workers limit the inferences that run in parallel; here it
\* does, but for the generations whose streamer ran into its timeout.
GenerationsBounded ==
    Cardinality({s \in Streams : generation[s] = "running" /\ ~stalled[s]}) <= MaxWorkers
=============================================================================
