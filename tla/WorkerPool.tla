------------------------------ MODULE WorkerPool ------------------------------
(***************************************************************************)
(* The non-streaming life of a request: the handler of POST                *)
(* /v1/completions (api/router.py) registers a future and puts the request *)
(* into the Redis priority queue; a worker (core/worker.py) pops it, asks  *)
(* the circuit breaker, runs the inference in the executor and resolves    *)
(* the future.  Several instances of the service may share one queue; each *)
(* has its own registry of futures, breaker and workers.                   *)
(*                                                                         *)
(* An event loop runs from one await to the next without interruption, so  *)
(* an action is the code between two awaits, and everything may happen in  *)
(* the other tasks, in Redis and in the executor between two actions.      *)
(***************************************************************************)
EXTENDS Breaker, PriorityQueue, FiniteSets

CONSTANTS
    Requests,       \* requests, each sent once
    NoRequest,      \* "no item"
    Instances,      \* processes of the service
    Workers,        \* worker tasks of all instances
    Home,           \* the instance that serves the handler of a request
    Host,           \* the instance a worker belongs to
    Tiers,          \* the priorities that requests come with
    Timeouts,       \* whether generation_timeout_s may elapse
    RedisFaults,    \* whether a Redis command or its reply may be lost
    Resent,         \* requests whose ZADD the Redis library may send twice
    Outages         \* whether instances are stopped, crash and are restarted

ASSUME WorkerPoolAssumption ==
    /\ NoRequest \notin Requests
    /\ Home \in [Requests -> Instances]
    /\ Host \in [Workers -> Instances]
    /\ Tiers \subseteq Priority
    /\ Resent \subseteq Requests
    /\ {Timeouts, RedisFaults, Outages} \subseteq BOOLEAN

VARIABLES
    handler,    \* where the handler of a request is
    response,   \* the status it answered with
    future,     \* the asyncio.Future of a request
    pending,    \* keys of _pending; a request is only ever in its home's registry
    priority,   \* the priority and
    stamp,      \* the enqueued_at of a request's member in the sorted set
    clock,      \* time.time()
    queue,      \* the sorted set in Redis
    pc,         \* where a worker is
    item,       \* the request it holds
    breaker,    \* the circuit breaker of each instance
    up,         \* the state of each instance
    work        \* history: what happened to the inference of a request

handlerVars == <<handler, response>>
memberVars == <<priority, stamp, clock>>
workerVars == <<pc, item>>
vars == <<handlerVars, future, pending, memberVars, queue, workerVars, breaker, up, work>>

\* "adding": the ZADD is on its way; "added": it was applied ("readded": twice),
\* its reply and that of ZCARD are not back; "timedOut": wait_for has given the
\* future up, the handler has not run yet.
Awaiting == {"adding", "added", "readded", "waiting", "timedOut"}
HandlerState == {"idle", "done"} \cup Awaiting
Response == {"none", "200", "500", "503", "504", "lost"}
Resolution == {"result", "failed", "modelNotLoaded", "circuitOpen", "cancelled"}
FutureState == {"none", "pending"} \cup Resolution
WorkerState == {"polling", "popped", "running", "stopped"}

TypeOK ==
    /\ handler \in [Requests -> HandlerState]
    /\ response \in [Requests -> Response]
    /\ future \in [Requests -> FutureState]
    /\ pending \subseteq Requests
    /\ priority \in [Requests -> Priority]
    /\ stamp \in [Requests -> Stamps]
    /\ clock \in Stamps
    /\ queue \subseteq Requests
    /\ pc \in [Workers -> WorkerState]
    /\ item \in [Workers -> Requests \cup {NoRequest}]
    /\ breaker \in [Instances -> Breakers]
    /\ up \in [Instances -> {"up", "stopping", "down"}]
    /\ work \in [Requests -> {"none", "running", "computed", "failed", "aborted"}]

Init ==
    /\ handler = [r \in Requests |-> "idle"]
    /\ response = [r \in Requests |-> "none"]
    /\ future = [r \in Requests |-> "none"]
    /\ pending = {}
    /\ priority = [r \in Requests |-> 1]
    /\ stamp = [r \in Requests |-> 0]
    /\ clock = 0
    /\ queue = {}
    /\ pc = [k \in Workers |-> "polling"]
    /\ item = [k \in Workers |-> NoRequest]
    /\ breaker = [i \in Instances |-> NewBreaker]
    /\ up = [i \in Instances |-> "up"]
    /\ work = [r \in Requests |-> "none"]

-----------------------------------------------------------------------------
(***************************************************************************)
(* The handler: create_completion and PriorityQueue.enqueue.               *)
(***************************************************************************)

\* The model is not loaded, or the memory pressure handler does not admit.
Refuse(r) ==
    /\ handler[r] = "idle" /\ up[Home[r]] = "up"
    /\ handler' = [handler EXCEPT ![r] = "done"]
    /\ response' = [response EXCEPT ![r] = "503"]
    /\ UNCHANGED <<future, pending, memberVars, queue, workerVars, breaker, up, work>>

\* A slip: the future is created but not put into the registry.
SubmitUnregistered(r) ==
    /\ handler[r] = "idle" /\ up[Home[r]] = "up"
    /\ handler' = [handler EXCEPT ![r] = "adding"]
    /\ future' = [future EXCEPT ![r] = "pending"]
    /\ UNCHANGED <<response, pending, memberVars, queue, workerVars, breaker, up, work>>

\* register_request, then enqueue up to its first await.  Two requests may read
\* the same time; MaxStamp bounds the clock.
Submit(r) ==
    /\ handler[r] = "idle" /\ up[Home[r]] = "up"
    /\ handler' = [handler EXCEPT ![r] = "adding"]
    /\ future' = [future EXCEPT ![r] = "pending"]
    /\ pending' = pending \cup {r}
    /\ \E p \in Tiers, t \in {clock, clock + 1} \cap Stamps :
          /\ priority' = [priority EXCEPT ![r] = p]
          /\ stamp' = [stamp EXCEPT ![r] = t]
          /\ clock' = t
    /\ UNCHANGED <<response, queue, workerVars, breaker, up, work>>

\* Redis applies the ZADD.
Zadd(r) ==
    /\ handler[r] = "adding"
    /\ handler' = [handler EXCEPT ![r] = "added"]
    /\ queue' = queue \cup {r}
    /\ UNCHANGED <<response, future, pending, memberVars, workerVars, breaker, up, work>>

\* The reply of the ZADD was lost and the client library sends it again: at most
\* once, a bound of the model, and only for the requests in Resent.
ZaddAgain(r) ==
    /\ r \in Resent
    /\ handler[r] = "added"
    /\ handler' = [handler EXCEPT ![r] = "readded"]
    /\ queue' = queue \cup {r}
    /\ UNCHANGED <<response, future, pending, memberVars, workerVars, breaker, up, work>>

\* The replies of ZADD and ZCARD are back: the handler awaits its future.
Enqueued(r) ==
    /\ handler[r] \in {"added", "readded"}
    /\ handler' = [handler EXCEPT ![r] = "waiting"]
    /\ UNCHANGED <<response, future, pending, memberVars, queue, workerVars, breaker, up, work>>

\* Either command raises: enqueue is outside of the handler's try, the exception
\* goes to the global handler and the registered future stays behind.
EnqueueRaises(r) ==
    /\ RedisFaults
    /\ handler[r] \in {"adding", "added", "readded"}
    /\ handler' = [handler EXCEPT ![r] = "done"]
    /\ response' = [response EXCEPT ![r] = "500"]
    /\ UNCHANGED <<future, pending, memberVars, queue, workerVars, breaker, up, work>>

\* The timer of wait_for: an unresolved future is cancelled; one that is
\* resolved but not yet seen by the handler is lost to the timeout.
Timeout(r) ==
    /\ Timeouts
    /\ handler[r] = "waiting"
    /\ handler' = [handler EXCEPT ![r] = "timedOut"]
    /\ future' = [future EXCEPT ![r] = IF @ = "pending" THEN "cancelled" ELSE @]
    /\ UNCHANGED <<response, pending, memberVars, queue, workerVars, breaker, up, work>>

\* A slip: the future is cancelled and stays in the registry.
CancelOnly(r) ==
    /\ future' = [future EXCEPT ![r] = IF @ = "pending" THEN "cancelled" ELSE @]
    /\ UNCHANGED pending

\* cancel_request: an entry of the registry that is still there is removed, and
\* cancelled if it is not done.
CancelRequest(r) ==
    /\ pending' = pending \ {r}
    /\ future' = [future EXCEPT ![r] =
                     IF r \in pending /\ @ = "pending" THEN "cancelled" ELSE @]

AnswerTimeout(r) ==
    /\ handler[r] = "timedOut"
    /\ CancelRequest(r)
    /\ handler' = [handler EXCEPT ![r] = "done"]
    /\ response' = [response EXCEPT ![r] = "504"]
    /\ UNCHANGED <<memberVars, queue, workerVars, breaker, up, work>>

\* The future is resolved and the handler maps it to a status.
StatusOf ==
    [result |-> "200", failed |-> "500", circuitOpen |-> "500",
     modelNotLoaded |-> "503", cancelled |-> "503"]

Answer(r) ==
    /\ handler[r] = "waiting"
    /\ future[r] \in Resolution
    /\ IF future[r] = "cancelled" THEN CancelRequest(r) ELSE UNCHANGED <<pending, future>>
    /\ handler' = [handler EXCEPT ![r] = "done"]
    /\ response' = [response EXCEPT ![r] = StatusOf[future[r]]]
    /\ UNCHANGED <<memberVars, queue, workerVars, breaker, up, work>>

-----------------------------------------------------------------------------
(***************************************************************************)
(* The worker: _worker_loop.                                               *)
(***************************************************************************)

Score == [r \in Requests |-> ComputeScore(priority[r], stamp[r])]

Owns(k, r) == r \in pending /\ Home[r] = Host[k]

\* Slips: a future that is done is set again; the entry stays in the registry.
ResolveAgain(k, r, how) ==
    /\ future' = [future EXCEPT ![r] = IF Owns(k, r) THEN how ELSE @]
    /\ pending' = IF Owns(k, r) THEN pending \ {r} ELSE pending

ResolveAndKeep(k, r, how) ==
    /\ future' = [future EXCEPT ![r] =
                     IF Owns(k, r) /\ @ = "pending" THEN how ELSE @]
    /\ UNCHANGED pending

\* The future is resolved unless somebody else did, and leaves the registry.
Resolve(k, r, how) ==
    /\ future' = [future EXCEPT ![r] =
                     IF Owns(k, r) /\ @ = "pending" THEN how ELSE @]
    /\ pending' = IF Owns(k, r) THEN pending \ {r} ELSE pending

\* Back to the head of the loop.
Poll(k) ==
    /\ pc' = [pc EXCEPT ![k] = "polling"]
    /\ item' = [item EXCEPT ![k] = NoRequest]

\* The queue is empty: sleep and poll again.
PollEmpty(k) ==
    /\ up[Host[k]] = "up" /\ pc[k] = "polling"
    /\ queue = {}
    /\ UNCHANGED vars

\* A slip: the item is read without being removed (ZRANGE for ZPOPMIN).
Peek(k) ==
    /\ up[Host[k]] = "up" /\ pc[k] = "polling"
    /\ \E r \in Lowest(queue, Score) : item' = [item EXCEPT ![k] = r]
    /\ pc' = [pc EXCEPT ![k] = "popped"]
    /\ UNCHANGED <<handlerVars, future, pending, memberVars, queue, breaker, up, work>>

\* Redis applies the ZPOPMIN; the item is now in the reply.
Pop(k) ==
    /\ up[Host[k]] = "up" /\ pc[k] = "polling"
    /\ \E r \in Lowest(queue, Score) :
          /\ queue' = queue \ {r}
          /\ item' = [item EXCEPT ![k] = r]
    /\ pc' = [pc EXCEPT ![k] = "popped"]
    /\ UNCHANGED <<handlerVars, future, pending, memberVars, breaker, up, work>>

\* The reply does not arrive: the loop logs the exception and goes on.
PopReplyLost(k) ==
    /\ RedisFaults
    /\ up[Host[k]] = "up" /\ pc[k] = "popped"
    /\ Poll(k)
    /\ UNCHANGED <<handlerVars, future, pending, memberVars, queue, breaker, up, work>>

\* "Dequeued orphan request (no pending future)".
DropOrphan(k) ==
    /\ up[Host[k]] = "up" /\ pc[k] = "popped"
    /\ ~Owns(k, item[k])
    /\ Poll(k)
    /\ UNCHANGED <<handlerVars, future, pending, memberVars, queue, breaker, up, work>>

\* The breaker denies the request.
RejectOpen(k) ==
    /\ up[Host[k]] = "up" /\ pc[k] = "popped"
    /\ Owns(k, item[k])
    /\ ~Allows(breaker[Host[k]])
    /\ breaker' = [breaker EXCEPT ![Host[k]] = AfterAllowRequest(@)]
    /\ Resolve(k, item[k], "circuitOpen")
    /\ Poll(k)
    /\ UNCHANGED <<handlerVars, memberVars, queue, up, work>>

StartInference(k) ==
    /\ up[Host[k]] = "up" /\ pc[k] = "popped"
    /\ Owns(k, item[k])
    /\ Allows(breaker[Host[k]])
    /\ breaker' = [breaker EXCEPT ![Host[k]] = AfterAllowRequest(@)]
    /\ pc' = [pc EXCEPT ![k] = "running"]
    /\ work' = [work EXCEPT ![item[k]] = "running"]
    /\ UNCHANGED <<handlerVars, future, pending, memberVars, queue, item, up>>

\* A slip: a success that the breaker does not hear of.
SucceedsUnrecorded(k) ==
    /\ up[Host[k]] = "up" /\ pc[k] = "running"
    /\ Resolve(k, item[k], "result")
    /\ work' = [work EXCEPT ![item[k]] = "computed"]
    /\ Poll(k)
    /\ UNCHANGED <<handlerVars, memberVars, queue, breaker, up>>

InferenceSucceeds(k) ==
    /\ up[Host[k]] = "up" /\ pc[k] = "running"
    /\ breaker' = [breaker EXCEPT ![Host[k]] = AfterSuccess(@)]
    /\ Resolve(k, item[k], "result")
    /\ work' = [work EXCEPT ![item[k]] = "computed"]
    /\ Poll(k)
    /\ UNCHANGED <<handlerVars, memberVars, queue, up>>

\* Slips: a failure that is not delivered, or delivered as a result.
FailsSilently(k) ==
    /\ up[Host[k]] = "up" /\ pc[k] = "running"
    /\ breaker' = [breaker EXCEPT ![Host[k]] = AfterFailure(@)]
    /\ work' = [work EXCEPT ![item[k]] = "failed"]
    /\ Poll(k)
    /\ UNCHANGED <<handlerVars, future, pending, memberVars, queue, up>>

FailsAsResult(k) ==
    /\ up[Host[k]] = "up" /\ pc[k] = "running"
    /\ breaker' = [breaker EXCEPT ![Host[k]] = AfterFailure(@)]
    /\ Resolve(k, item[k], "result")
    /\ work' = [work EXCEPT ![item[k]] = "failed"]
    /\ Poll(k)
    /\ UNCHANGED <<handlerVars, memberVars, queue, up>>

InferenceFails(k) ==
    /\ up[Host[k]] = "up" /\ pc[k] = "running"
    /\ breaker' = [breaker EXCEPT ![Host[k]] = AfterFailure(@)]
    /\ \E how \in {"failed", "modelNotLoaded"} : Resolve(k, item[k], how)
    /\ work' = [work EXCEPT ![item[k]] = "failed"]
    /\ Poll(k)
    /\ UNCHANGED <<handlerVars, memberVars, queue, up>>

-----------------------------------------------------------------------------
(***************************************************************************)
(* Instances stop, crash and start.                                        *)
(***************************************************************************)

\* InferenceWorkerPool.stop: every task is cancelled, ...
Stop(i) ==
    /\ Outages
    /\ up[i] = "up"
    /\ up' = [up EXCEPT ![i] = "stopping"]
    /\ UNCHANGED <<handlerVars, future, pending, memberVars, queue, workerVars, breaker, work>>

\* ... leaves its loop at the await it is in, with nothing reported, ...
WorkerExits(k) ==
    /\ up[Host[k]] = "stopping" /\ pc[k] # "stopped"
    /\ pc' = [pc EXCEPT ![k] = "stopped"]
    /\ item' = [item EXCEPT ![k] = NoRequest]
    /\ work' = IF pc[k] = "running" THEN [work EXCEPT ![item[k]] = "aborted"] ELSE work
    /\ UNCHANGED <<handlerVars, future, pending, memberVars, queue, breaker, up>>

\* ... and the futures that are left are cancelled.
StopFinishes(i) ==
    /\ up[i] = "stopping"
    /\ \A k \in Workers : Host[k] = i => pc[k] = "stopped"
    /\ up' = [up EXCEPT ![i] = "down"]
    /\ future' = [r \in Requests |->
                     IF r \in pending /\ Home[r] = i /\ future[r] = "pending"
                     THEN "cancelled" ELSE future[r]]
    /\ pending' = {r \in pending : Home[r] # i}
    /\ UNCHANGED <<handlerVars, memberVars, queue, workerVars, breaker, work>>

\* The process dies: its clients lose their connections, Redis keeps the queue.
Crash(i) ==
    /\ Outages
    /\ up[i] # "down"
    /\ LET gone == {r \in Requests : Home[r] = i /\ handler[r] \in Awaiting}
           aborted == {item[k] : k \in {j \in Workers : Host[j] = i /\ pc[j] = "running"}}
       IN  /\ handler' = [r \in Requests |-> IF r \in gone THEN "done" ELSE handler[r]]
           /\ response' = [r \in Requests |-> IF r \in gone THEN "lost" ELSE response[r]]
           /\ work' = [r \in Requests |-> IF r \in aborted THEN "aborted" ELSE work[r]]
    /\ pending' = {r \in pending : Home[r] # i}
    /\ pc' = [k \in Workers |-> IF Host[k] = i THEN "stopped" ELSE pc[k]]
    /\ item' = [k \in Workers |-> IF Host[k] = i THEN NoRequest ELSE item[k]]
    /\ up' = [up EXCEPT ![i] = "down"]
    /\ UNCHANGED <<future, memberVars, queue, breaker>>

\* A new process: InferenceWorkerPool.start with a new breaker and registry, on
\* the queue its predecessor left in Redis.
Start(i) ==
    /\ up[i] = "down"
    /\ \A r \in Requests : Home[r] = i => handler[r] \notin Awaiting
    /\ up' = [up EXCEPT ![i] = "up"]
    /\ pc' = [k \in Workers |-> IF Host[k] = i THEN "polling" ELSE pc[k]]
    /\ breaker' = [breaker EXCEPT ![i] = NewBreaker]
    /\ UNCHANGED <<handlerVars, future, pending, memberVars, queue, item, work>>

\* Time passes for the breaker of an instance.
Tick(i) ==
    /\ breaker[i].elapsed < RecoveryTimeout
    /\ breaker' = [breaker EXCEPT ![i] = AfterTick(@)]
    /\ UNCHANGED <<handlerVars, future, pending, memberVars, queue, workerVars, up, work>>

-----------------------------------------------------------------------------
HandlerStep(r) ==
    \/ Submit(r) \/ Zadd(r) \/ ZaddAgain(r) \/ Enqueued(r) \/ EnqueueRaises(r)
    \/ Refuse(r) \/ Timeout(r) \/ AnswerTimeout(r) \/ Answer(r)

WorkerStep(k) ==
    \/ PollEmpty(k) \/ Pop(k) \/ PopReplyLost(k) \/ DropOrphan(k) \/ RejectOpen(k)
    \/ StartInference(k) \/ InferenceSucceeds(k) \/ InferenceFails(k) \/ WorkerExits(k)

InstanceStep(i) ==
    Stop(i) \/ StopFinishes(i) \/ Crash(i) \/ Start(i) \/ Tick(i)

Next ==
    \/ \E r \in Requests : HandlerStep(r)
    \/ \E k \in Workers : WorkerStep(k)
    \/ \E i \in Instances : InstanceStep(i)

Spec == Init /\ [][Next]_vars

\* The event loop runs every task that is ready, Redis answers, timers fire, an
\* inference ends; that requests are sent, that Redis fails or an instance stops
\* is up to the environment, and a stopped instance need not come back.
Fairness ==
    /\ \A r \in Requests : /\ WF_vars(Zadd(r) \/ Enqueued(r))
                           /\ WF_vars(Timeout(r))
                           /\ WF_vars(Answer(r) \/ AnswerTimeout(r))
    /\ \A k \in Workers :
          /\ WF_vars(Pop(k))
          /\ WF_vars(DropOrphan(k) \/ RejectOpen(k) \/ StartInference(k))
          /\ WF_vars(InferenceSucceeds(k) \/ InferenceFails(k))
          /\ WF_vars(WorkerExits(k))
    /\ \A i \in Instances : WF_vars(StopFinishes(i))

FairSpec == Spec /\ Fairness

-----------------------------------------------------------------------------
(***************************************************************************)
(* Safety.                                                                 *)
(***************************************************************************)

Held(k) == item[k] # NoRequest

\* A request exists once: in the queue or in the hands of one worker, whatever
\* the workers of all instances do ("each item popped exactly once",
\* worker.py:5-6; a ZADD that the client library repeats would break it).
OneCopy ==
    \A k \in Workers : Held(k) =>
        /\ item[k] \notin queue
        /\ \A j \in Workers : item[j] = item[k] => j = k

\* A handler that waits on an unresolved future waits for something: its request
\* is in the queue or with a worker that has the future in its registry.  Holds
\* for one instance without lost replies (register_request before enqueue, pop
\* of the registry only together with the answer).
NotForgotten ==
    \A r \in Requests :
        handler[r] = "waiting" /\ future[r] = "pending" =>
            \/ r \in queue
            \/ \E k \in Workers : item[k] = r /\ Host[k] = Home[r]
            \/ up[Home[r]] = "stopping"

\* The registry holds only futures somebody awaits (worker.py:89), but for the
\* one way out of the handler that forgets it: an enqueue that raises.
LeakOnlyFromEnqueue ==
    \A r \in pending :
        handler[r] \in Awaiting \/ (response[r] = "500" /\ future[r] = "pending")

\* A half-open breaker of a serving instance has a worker running whose report
\* will settle it: no way through the worker loop takes a probe's slot away
\* without reporting.
HalfOpenHasWorker ==
    \A i \in Instances :
        up[i] = "up" /\ breaker[i].state = "HALF_OPEN" =>
            \E k \in Workers : Host[k] = i /\ pc[k] = "running"

\* The worker takes an item of the most urgent tier, and within the tier the
\* one that was registered first, at every pop: the score keeps both orders.
PopsByPriority ==
    [][\A k \in Workers : pc[k] = "polling" /\ pc'[k] = "popped" =>
          \A r \in queue :
             ~Before(priority[r], stamp[r], priority[item'[k]], stamp[item'[k]])]_vars

\* A resolved future is never resolved again, by whichever of the worker, the
\* timer, the handler and stop() comes second (the InvalidStateError that the
\* done() guards avoid).
SettledOnce ==
    [][\A r \in Requests : future[r] \in Resolution => future'[r] = future[r]]_vars

\* No inference is started for a client that already has its answer, except for
\* one whose enqueue raised after Redis had taken the request.
NoWorkForTheGone ==
    [][\A k \in Workers : pc[k] = "popped" /\ pc'[k] = "running" =>
          handler[item[k]] \in Awaiting \/ response[item[k]] = "500"]_vars

-----------------------------------------------------------------------------
(***************************************************************************)
(* Liveness, and what the clients are promised.                            *)
(***************************************************************************)

\* Every request whose handler has begun is answered.  With Timeouts the timer
\* alone would see to it; without, the workers must answer every request, also
\* while the breaker is open.
Answered ==
    \A r \in Requests : handler[r] \in Awaiting ~> handler[r] = "done"

\* What the client of a request knows.
Status(r) ==
    CASE handler[r] = "idle" -> "new"
      [] handler[r] \in Awaiting -> "accepted"
      [] OTHER -> CASE response[r] = "200" -> "ok"
                    [] response[r] = "504" -> "timeout"
                    [] response[r] = "lost" -> "lost"
                    [] OTHER -> "error"

C == INSTANCE Completions WITH status <- [r \in Requests |-> Status(r)]

\* The platform keeps the promise of Completions: no inference twice, no 200
\* without this request's own computed inference, no second answer.
KeepsPromise == C!Spec
=============================================================================
