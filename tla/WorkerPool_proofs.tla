--------------------------- MODULE WorkerPool_proofs ---------------------------
(***************************************************************************)
(* Proofs about WorkerPool, for every number of requests, workers and      *)
(* instances, with timeouts, Redis faults and outages.  What concerns the  *)
(* single copy of a request assumes that no ZADD is sent twice.            *)
(***************************************************************************)
EXTENDS WorkerPool, Breaker_proofs

(***************************************************************************)
(* The order of the queue.                                                 *)
(***************************************************************************)

\* The score keeps the tiers apart and the arrivals of a tier in order, whatever
\* the multiplier, as long as every timestamp is below it (_compute_score).
LEMMA ScoreKeepsOrder ==
    ASSUME NEW p \in Priority, NEW s \in Stamps, NEW q \in Priority, NEW t \in Stamps,
           Before(p, s, q, t)
    PROVE  ComputeScore(p, s) < ComputeScore(q, t)
<1>1. /\ s \in Nat /\ t \in Nat /\ s <= MaxStamp /\ t <= MaxStamp
      /\ Multiplier \in Nat /\ s < Multiplier
    BY PriorityQueueAssumption DEF Stamps
<1>2. CASE p = q
    BY <1>1, <1>2 DEF ComputeScore, Before, Priority
<1>3. CASE p = 1 /\ q \in {2, 3}
    BY <1>1, <1>3 DEF ComputeScore
<1>4. CASE p = 2 /\ q = 3
    BY <1>1, <1>4 DEF ComputeScore
<1> QED
    BY <1>2, <1>3, <1>4 DEF Before, Priority

\* A score is a natural number.
LEMMA ScoreType ==
    ASSUME NEW p \in Priority, NEW s \in Stamps
    PROVE  ComputeScore(p, s) \in Nat
<1>1. s \in Nat /\ Multiplier \in Nat
    BY PriorityQueueAssumption DEF Stamps
<1>2. CASE p = 1
    BY <1>1, <1>2 DEF ComputeScore
<1>3. CASE p = 2
    BY <1>1, <1>3 DEF ComputeScore
<1>4. CASE p = 3
    BY <1>1, <1>4 DEF ComputeScore
<1> QED
    BY <1>2, <1>3, <1>4 DEF Priority

(***************************************************************************)
(* Types.                                                                  *)
(***************************************************************************)

\* Types, consistent breakers, workers that hold an item exactly between a pop
\* and its end, and no worker outside of a process.
TypeInv ==
    /\ TypeOK
    /\ \A i \in Instances : BreakerInv(breaker[i])
    /\ \A k \in Workers : item[k] # NoRequest <=> pc[k] \in {"popped", "running"}
    /\ \A k \in Workers : up[Host[k]] = "down" => pc[k] = "stopped"

\* The initial state is well typed.
LEMMA InitType == Init => TypeInv
<1> SUFFICES ASSUME Init PROVE TypeInv
    OBVIOUS
<1>1. 0 \in Stamps
    BY PriorityQueueAssumption DEF Stamps
<1>2. NewBreaker \in Breakers
    BY NewBreakerGood DEF BreakerInv
<1> QED
    BY <1>1, <1>2, NewBreakerGood, WorkerPoolAssumption
       DEF Init, TypeInv, TypeOK, HandlerState, Awaiting, Response, FutureState,
           Resolution, WorkerState, Priority

USE DEF HandlerState, Awaiting, Response, FutureState, Resolution, WorkerState

\* The breaker of one instance changes by one of the operators of Breaker.
LEMMA BreakerStep ==
    ASSUME TypeInv, NEW i \in Instances, NEW b, BreakerInv(b),
           breaker' = [breaker EXCEPT ![i] = b]
    PROVE  /\ breaker' \in [Instances -> Breakers]
           /\ \A j \in Instances : BreakerInv(breaker'[j])
<1>1. b \in Breakers
    BY DEF BreakerInv
<1>2. breaker \in [Instances -> Breakers] /\ \A j \in Instances : BreakerInv(breaker[j])
    BY DEF TypeInv, TypeOK
<1>3. \A j \in Instances : breaker'[j] = IF j = i THEN b ELSE breaker[j]
    BY <1>2
<1> QED
    BY <1>1, <1>2, <1>3

\* Every step keeps all of it.
LEMMA NextType == TypeInv /\ [Next]_vars => TypeInv'
<1> SUFFICES ASSUME TypeInv, [Next]_vars PROVE TypeInv'
    OBVIOUS
<1> USE DEF handlerVars, memberVars, workerVars
<1>1. ASSUME NEW r \in Requests, HandlerStep(r) PROVE TypeInv'
    <2>1. UNCHANGED <<workerVars, breaker, up, work>>
        BY <1>1 DEF HandlerStep, Submit, Zadd, ZaddAgain, Enqueued, EnqueueRaises,
                    Refuse, Timeout, AnswerTimeout, Answer
    <2>2. CASE Submit(r)
        BY <2>1, <2>2, WorkerPoolAssumption DEF Submit, TypeInv, TypeOK
    <2>3. CASE Zadd(r) \/ ZaddAgain(r) \/ Enqueued(r) \/ EnqueueRaises(r) \/ Refuse(r)
        BY <2>1, <2>3 DEF Zadd, ZaddAgain, Enqueued, EnqueueRaises, Refuse, TypeInv, TypeOK
    <2>4. CASE Timeout(r) \/ AnswerTimeout(r)
        BY <2>1, <2>4 DEF Timeout, AnswerTimeout, CancelRequest, TypeInv, TypeOK
    <2>5. CASE Answer(r)
        <3>1. StatusOf[future[r]] \in Response
            BY <2>5 DEF Answer, StatusOf
        <3> QED
            BY <2>1, <2>5, <3>1 DEF Answer, CancelRequest, TypeInv, TypeOK
    <2> QED
        BY <1>1, <2>2, <2>3, <2>4, <2>5 DEF HandlerStep
<1>2. ASSUME NEW k \in Workers, WorkerStep(k) PROVE TypeInv'
    <2>1. Host[k] \in Instances /\ NoRequest \notin Requests
        BY WorkerPoolAssumption
    <2>2. BreakerInv(breaker[Host[k]])
        BY <2>1 DEF TypeInv
    <2>3. CASE PollEmpty(k)
        BY <2>3 DEF PollEmpty, vars, TypeInv, TypeOK
    <2>4. CASE Pop(k) \/ PopReplyLost(k) \/ DropOrphan(k) \/ WorkerExits(k)
        <3>1. UNCHANGED <<breaker, handlerVars, future, pending, memberVars, up>>
            BY <2>4 DEF Pop, PopReplyLost, DropOrphan, WorkerExits
        <3> QED
            BY <2>1, <2>4, <3>1
               DEF Pop, Lowest, PopReplyLost, DropOrphan, WorkerExits, Poll, TypeInv, TypeOK
    <2>5. CASE RejectOpen(k)
        <3>1. BreakerInv(AfterAllowRequest(breaker[Host[k]]))
            BY <2>2, AllowGood
        <3>2. /\ breaker' \in [Instances -> Breakers]
              /\ \A j \in Instances : BreakerInv(breaker'[j])
            BY <2>1, <2>5, <3>1, BreakerStep DEF RejectOpen
        <3> QED
            BY <2>1, <2>5, <3>2 DEF RejectOpen, Resolve, Poll, TypeInv, TypeOK
    <2>6. CASE StartInference(k)
        <3>1. BreakerInv(AfterAllowRequest(breaker[Host[k]]))
            BY <2>2, AllowGood
        <3>2. /\ breaker' \in [Instances -> Breakers]
              /\ \A j \in Instances : BreakerInv(breaker'[j])
            BY <2>1, <2>6, <3>1, BreakerStep DEF StartInference
        <3> QED
            BY <2>1, <2>6, <3>2 DEF StartInference, TypeInv, TypeOK
    <2>7. CASE InferenceSucceeds(k)
        <3>1. BreakerInv(AfterSuccess(breaker[Host[k]]))
            BY <2>2, SuccessGood
        <3>2. /\ breaker' \in [Instances -> Breakers]
              /\ \A j \in Instances : BreakerInv(breaker'[j])
            BY <2>1, <2>7, <3>1, BreakerStep DEF InferenceSucceeds
        <3> QED
            BY <2>1, <2>7, <3>2 DEF InferenceSucceeds, Resolve, Poll, TypeInv, TypeOK
    <2>8. CASE InferenceFails(k)
        <3>1. BreakerInv(AfterFailure(breaker[Host[k]]))
            BY <2>2, FailureGood
        <3>2. /\ breaker' \in [Instances -> Breakers]
              /\ \A j \in Instances : BreakerInv(breaker'[j])
            BY <2>1, <2>8, <3>1, BreakerStep DEF InferenceFails
        <3> QED
            BY <2>1, <2>8, <3>2 DEF InferenceFails, Resolve, Poll, TypeInv, TypeOK
    <2> QED
        BY <1>2, <2>3, <2>4, <2>5, <2>6, <2>7, <2>8 DEF WorkerStep
<1>3. ASSUME NEW i \in Instances, InstanceStep(i) PROVE TypeInv'
    <2>1. CASE Stop(i)
        BY <2>1 DEF Stop, TypeInv, TypeOK
    <2>2. CASE StopFinishes(i)
        BY <2>2 DEF StopFinishes, TypeInv, TypeOK
    <2>3. CASE Crash(i)
        BY <2>3, WorkerPoolAssumption DEF Crash, TypeInv, TypeOK
    <2>4. CASE Start(i)
        <3>1. /\ breaker' \in [Instances -> Breakers]
              /\ \A j \in Instances : BreakerInv(breaker'[j])
            BY <2>4, NewBreakerGood, BreakerStep DEF Start
        <3> QED
            BY <2>4, <3>1 DEF Start, TypeInv, TypeOK
    <2>5. CASE Tick(i)
        <3>1. BreakerInv(AfterTick(breaker[i]))
            BY TickGood DEF TypeInv
        <3>2. /\ breaker' \in [Instances -> Breakers]
              /\ \A j \in Instances : BreakerInv(breaker'[j])
            BY <2>5, <3>1, BreakerStep DEF Tick
        <3> QED
            BY <2>5, <3>2 DEF Tick, TypeInv, TypeOK
    <2> QED
        BY <1>3, <2>1, <2>2, <2>3, <2>4, <2>5 DEF InstanceStep
<1>4. CASE UNCHANGED vars
    BY <1>4 DEF vars, TypeInv, TypeOK
<1> QED
    BY <1>1, <1>2, <1>3, <1>4 DEF Next

\* Every component of the state keeps its type; each instance's breaker stays
\* consistent inside the pool.
THEOREM TypeCorrect == Spec => []TypeOK
<1>1. TypeInv => TypeOK
    BY DEF TypeInv
<1> QED
    BY <1>1, InitType, NextType, PTL DEF Spec

(***************************************************************************)
(* Half-open breakers.  A worker that passes allow_request runs; the first *)
(* report of a running worker ends the half-open period, whether or not it *)
(* was a probe of that period.                                             *)
(***************************************************************************)

\* A breaker is half open after allow_request only if the caller was let through or
\* it had been half open before.
LEMMA HalfOpenByProbe ==
    ASSUME NEW b, BreakerInv(b), AfterAllowRequest(b).state = "HALF_OPEN", ~Allows(b)
    PROVE  b.state = "HALF_OPEN"
<1>1. CASE ObservedState(b) # "HALF_OPEN"
    BY <1>1 DEF AfterAllowRequest
<1>2. CASE ObservedState(b) = "HALF_OPEN" /\ b.state = "OPEN"
    <2>1. EnterHalfOpen(b).halfOpenCalls = 0
        BY <1>2 DEF EnterHalfOpen
    <2> QED
        BY <1>2, <2>1, BreakerAssumption DEF Allows
<1>3. CASE ObservedState(b) = "HALF_OPEN" /\ b.state # "OPEN"
    BY <1>3 DEF ObservedState
<1> QED
    BY <1>1, <1>2, <1>3

\* No report leaves a breaker half open.
LEMMA ReportsSettle ==
    ASSUME NEW b, BreakerInv(b)
    PROVE  AfterSuccess(b).state # "HALF_OPEN" /\ AfterFailure(b).state # "HALF_OPEN"
BY DEF AfterSuccess, AfterFailure, BreakerInv, Breakers

\* Every step leaves a worker running wherever a breaker is half open.
LEMMA NextHalfOpen == TypeInv /\ HalfOpenHasWorker /\ [Next]_vars => HalfOpenHasWorker'
<1> SUFFICES ASSUME TypeInv, HalfOpenHasWorker, [Next]_vars,
                    NEW i \in Instances, up'[i] = "up", breaker'[i].state = "HALF_OPEN"
             PROVE  \E k \in Workers : Host[k] = i /\ pc'[k] = "running"
    BY DEF HalfOpenHasWorker
<1> USE DEF handlerVars, memberVars, workerVars
<1>t. /\ pc \in [Workers -> WorkerState] /\ breaker \in [Instances -> Breakers]
      /\ up \in [Instances -> {"up", "stopping", "down"}]
      /\ Host \in [Workers -> Instances] /\ BreakerInv(breaker[i])
    BY WorkerPoolAssumption DEF TypeInv, TypeOK
<1>0. up[i] = "up" /\ breaker[i].state = "HALF_OPEN" =>
          \E k \in Workers : Host[k] = i /\ pc[k] = "running"
    BY DEF HalfOpenHasWorker
<1>1. CASE UNCHANGED <<up, breaker, pc>>
    BY <1>0, <1>1
<1>2. ASSUME NEW r \in Requests, HandlerStep(r)
      PROVE  UNCHANGED <<up, breaker, pc>>
    BY <1>2 DEF HandlerStep, Submit, Zadd, ZaddAgain, Enqueued, EnqueueRaises,
                Refuse, Timeout, AnswerTimeout, Answer
<1>3. ASSUME NEW k \in Workers, WorkerStep(k)
      PROVE  \E j \in Workers : Host[j] = i /\ pc'[j] = "running"
    <2>1. CASE PollEmpty(k)
        BY <1>1, <2>1 DEF PollEmpty, vars
    <2>2. CASE Pop(k) \/ PopReplyLost(k) \/ DropOrphan(k)
        <3>1. /\ UNCHANGED <<up, breaker>> /\ pc[k] # "running"
              /\ \A j \in Workers : j # k => pc'[j] = pc[j]
            BY <1>t, <2>2 DEF Pop, PopReplyLost, DropOrphan, Poll
        <3> QED
            BY <1>0, <3>1
    <2>3. CASE WorkerExits(k)
        <3>1. /\ UNCHANGED <<up, breaker>> /\ up[Host[k]] = "stopping"
              /\ \A j \in Workers : j # k => pc'[j] = pc[j]
            BY <1>t, <2>3 DEF WorkerExits
        <3> QED
            BY <1>0, <3>1
    <2>4. CASE RejectOpen(k)
        <3>1. /\ UNCHANGED up /\ pc[k] # "running" /\ ~Allows(breaker[Host[k]])
              /\ breaker' = [breaker EXCEPT ![Host[k]] = AfterAllowRequest(@)]
              /\ \A j \in Workers : j # k => pc'[j] = pc[j]
            BY <1>t, <2>4 DEF RejectOpen, Poll
        <3>2. breaker[i].state = "HALF_OPEN"
            BY <1>t, <3>1, HalfOpenByProbe
        <3> QED
            BY <1>0, <3>1, <3>2
    <2>5. CASE StartInference(k)
        <3>1. /\ UNCHANGED up /\ pc'[k] = "running"
              /\ breaker' = [breaker EXCEPT ![Host[k]] = AfterAllowRequest(@)]
              /\ \A j \in Workers : j # k => pc'[j] = pc[j]
            BY <1>t, <2>5 DEF StartInference
        <3>2. Host[k] # i => breaker'[i] = breaker[i]
            BY <1>t, <3>1
        <3> QED
            BY <1>0, <3>1, <3>2
    <2>6. CASE InferenceSucceeds(k) \/ InferenceFails(k)
        <3>1. /\ UNCHANGED up
              /\ \/ breaker' = [breaker EXCEPT ![Host[k]] = AfterSuccess(@)]
                 \/ breaker' = [breaker EXCEPT ![Host[k]] = AfterFailure(@)]
              /\ \A j \in Workers : j # k => pc'[j] = pc[j]
            BY <1>t, <2>6 DEF InferenceSucceeds, InferenceFails, Poll
        <3>2. Host[k] # i
            BY <1>t, <3>1, ReportsSettle
        <3> QED
            BY <1>0, <1>t, <3>1, <3>2
    <2> QED
        BY <1>3, <2>1, <2>2, <2>3, <2>4, <2>5, <2>6 DEF WorkerStep
<1>4. ASSUME NEW j \in Instances, InstanceStep(j)
      PROVE  \E k \in Workers : Host[k] = i /\ pc'[k] = "running"
    <2>1. CASE Stop(j) \/ StopFinishes(j)
        <3>1. /\ UNCHANGED <<pc, breaker>> /\ (j # i => up'[i] = up[i]) /\ up'[j] # "up"
            BY <1>t, <2>1 DEF Stop, StopFinishes
        <3> QED
            BY <1>0, <3>1
    <2>2. CASE Crash(j)
        <3>1. /\ UNCHANGED breaker /\ (j # i => up'[i] = up[i]) /\ up'[j] # "up"
              /\ \A k \in Workers : Host[k] # j => pc'[k] = pc[k]
            BY <1>t, <2>2 DEF Crash
        <3> QED
            BY <1>0, <3>1
    <2>3. CASE Start(j)
        <3>1. /\ (j # i => up'[i] = up[i] /\ breaker'[i] = breaker[i])
              /\ breaker'[j].state = "CLOSED"
              /\ \A k \in Workers : Host[k] # j => pc'[k] = pc[k]
            BY <1>t, <2>3 DEF Start, NewBreaker
        <3> QED
            BY <1>0, <3>1
    <2>4. CASE Tick(j)
        <3>1. UNCHANGED <<up, pc>> /\ breaker' = [breaker EXCEPT ![j] = AfterTick(@)]
            BY <2>4 DEF Tick
        <3>2. breaker'[i].state = breaker[i].state
            BY <1>t, <3>1 DEF AfterTick, BreakerInv, Breakers
        <3> QED
            BY <1>0, <3>1, <3>2
    <2> QED
        BY <1>4, <2>1, <2>2, <2>3, <2>4 DEF InstanceStep
<1>5. CASE UNCHANGED vars
    BY <1>1, <1>5 DEF vars
<1> QED
    BY <1>1, <1>2, <1>3, <1>4, <1>5 DEF Next

\* No way through the worker loop takes the slot of a half-open breaker away without
\* a report to come, for any number of workers and slots.
THEOREM HalfOpenIsServed == Spec => []HalfOpenHasWorker
<1>1. Init => HalfOpenHasWorker
    BY DEF Init, HalfOpenHasWorker, NewBreaker
<1>2. TypeInv /\ HalfOpenHasWorker /\ [Next]_vars => HalfOpenHasWorker'
    BY NextHalfOpen
<1> QED
    BY <1>1, <1>2, InitType, NextType, PTL DEF Spec

-----------------------------------------------------------------------------
(***************************************************************************)
(* What the pool promises.  The inductive invariant has three parts:       *)
(* Registry says what a future and its entry in _pending tell about the    *)
(* handler, Copies where the only copy of a request is, and Ledger what    *)
(* has become of the inference of a request.  Copies and Ledger need that  *)
(* no ZADD is sent twice: the theorems that rest on them assume it.        *)
(***************************************************************************)
Entry(r) ==
    /\ handler[r] = "idle" => future[r] = "none" /\ r \notin pending
    /\ handler[r] \in Awaiting /\ future[r] = "pending" => r \in pending
    /\ r \in pending =>
          /\ handler[r] \in Awaiting \/ (response[r] = "500" /\ future[r] = "pending")
          /\ future[r] = "pending" \/ (handler[r] = "timedOut" /\ future[r] = "cancelled")

Registry == \A r \in Requests : Entry(r)

Copy(r) ==
    /\ handler[r] \in {"idle", "adding"} => r \notin queue /\ \A k \in Workers : item[k] # r
    /\ r \in queue => \A k \in Workers : item[k] # r
    /\ \A j, k \in Workers : item[j] = r /\ item[k] = r => j = k

Copies == \A r \in Requests : Copy(r)

Fate(r) ==
    /\ handler[r] \in {"idle", "adding"} \/ r \in queue => work[r] = "none"
    /\ \A k \in Workers : item[k] = r /\ pc[k] = "popped" => work[r] = "none"
    /\ \A k \in Workers : item[k] = r /\ pc[k] = "running" => work[r] = "running"
    /\ future[r] = "result" => work[r] = "computed"

Ledger == \A r \in Requests : Fate(r)

PoolInv == TypeInv /\ Registry /\ Copies /\ Ledger

USE DEF HandlerState, Awaiting, Response, FutureState, Resolution, WorkerState,
        handlerVars, memberVars, workerVars

\* The worker's answer keeps the entries: it touches only the future and the
\* entry of its own item, and the future only while nobody else has settled it.
LEMMA ResolveKeepsEntries ==
    ASSUME TypeInv, Registry, NEW k \in Workers, item[k] \in Requests,
           NEW how \in Resolution, Resolve(k, item[k], how), UNCHANGED handlerVars,
           NEW q \in Requests
    PROVE  Entry(q)'
<1>1. /\ future \in [Requests -> FutureState]
      /\ pending \subseteq Requests
      /\ Entry(q)
    BY DEF TypeInv, TypeOK, Registry
<1>2. handler' = handler /\ response' = response
    OBVIOUS
<1>3. CASE q = item[k] /\ Owns(k, q)
    <2>1. q \notin pending' /\ future'[q] = IF future[q] = "pending" THEN how ELSE future[q]
        BY <1>1, <1>3 DEF Resolve
    <2>2. future'[q] # "pending" /\ q \in pending
        BY <1>3, <2>1 DEF Owns
    <2> QED
        BY <1>1, <1>2, <2>1, <2>2 DEF Entry
<1>4. CASE q # item[k] \/ ~Owns(k, q)
    <2>1. future'[q] = future[q] /\ (q \in pending' <=> q \in pending)
        BY <1>1, <1>4 DEF Resolve
    <2> QED
        BY <1>1, <1>2, <2>1 DEF Entry
<1> QED
    BY <1>3, <1>4

(***************************************************************************)
(* Registry.                                                               *)
(***************************************************************************)

\* Nothing is registered and no future exists before a handler has begun.
LEMMA InitRegistry == Init => Registry
BY DEF Init, Registry, Entry

\* Every step keeps the registry in step with the handlers.
LEMMA NextRegistry == TypeInv /\ Registry /\ [Next]_vars => Registry'
<1> SUFFICES ASSUME TypeInv, Registry, [Next]_vars, NEW q \in Requests PROVE Entry(q)'
    BY DEF Registry
<1>t. /\ handler \in [Requests -> HandlerState]
      /\ response \in [Requests -> Response]
      /\ future \in [Requests -> FutureState]
      /\ pending \subseteq Requests
      /\ Entry(q)
    BY DEF TypeInv, TypeOK, Registry
<1>u. ASSUME handler'[q] = handler[q], response'[q] = response[q], future'[q] = future[q],
             q \in pending' <=> q \in pending
      PROVE  Entry(q)'
    BY <1>t, <1>u DEF Entry
<1>1. ASSUME NEW r \in Requests, HandlerStep(r) PROVE Entry(q)'
    <2>1. CASE q # r
        <3>1. /\ handler'[q] = handler[q] /\ response'[q] = response[q]
              /\ future'[q] = future[q] /\ (q \in pending' <=> q \in pending)
            BY <1>1, <1>t, <2>1
               DEF HandlerStep, Submit, Zadd, ZaddAgain, Enqueued, EnqueueRaises, Refuse,
                   Timeout, AnswerTimeout, Answer, CancelRequest
        <3> QED
            BY <1>u, <3>1
    <2>2. CASE q = r /\ Submit(r)
        BY <1>t, <2>2 DEF Submit, Entry
    <2>3. CASE q = r /\ (Zadd(r) \/ ZaddAgain(r) \/ Enqueued(r))
        BY <1>t, <2>3 DEF Zadd, ZaddAgain, Enqueued, Entry
    <2>4. CASE q = r /\ EnqueueRaises(r)
        BY <1>t, <2>4 DEF EnqueueRaises, Entry
    <2>5. CASE q = r /\ Refuse(r)
        BY <1>t, <2>5 DEF Refuse, Entry
    <2>6. CASE q = r /\ Timeout(r)
        BY <1>t, <2>6 DEF Timeout, Entry
    <2>7. CASE q = r /\ AnswerTimeout(r)
        BY <1>t, <2>7 DEF AnswerTimeout, CancelRequest, Entry
    <2>8. CASE q = r /\ Answer(r)
        BY <1>t, <2>8 DEF Answer, CancelRequest, Entry
    <2> QED
        BY <1>1, <2>1, <2>2, <2>3, <2>4, <2>5, <2>6, <2>7, <2>8 DEF HandlerStep
<1>2. ASSUME NEW k \in Workers, WorkerStep(k) PROVE Entry(q)'
    <2>1. CASE UNCHANGED <<handlerVars, future, pending>>
        BY <1>u, <2>1
    <2>2. ASSUME pc[k] \in {"popped", "running"} PROVE item[k] \in Requests
        BY <2>2 DEF TypeInv, TypeOK
    <2>3. CASE PollEmpty(k) \/ Pop(k) \/ PopReplyLost(k) \/ DropOrphan(k)
               \/ StartInference(k) \/ WorkerExits(k)
        BY <2>1, <2>3 DEF PollEmpty, vars, Pop, PopReplyLost, DropOrphan, StartInference, WorkerExits
    <2>4. CASE RejectOpen(k)
        BY <2>2, <2>4, ResolveKeepsEntries DEF RejectOpen
    <2>5. CASE InferenceSucceeds(k)
        BY <2>2, <2>5, ResolveKeepsEntries DEF InferenceSucceeds
    <2>6. CASE InferenceFails(k)
        BY <2>2, <2>6, ResolveKeepsEntries DEF InferenceFails
    <2> QED
        BY <1>2, <2>3, <2>4, <2>5, <2>6 DEF WorkerStep
<1>3. ASSUME NEW i \in Instances, InstanceStep(i) PROVE Entry(q)'
    <2>1. CASE UNCHANGED <<handlerVars, future, pending>>
        BY <1>u, <2>1
    <2>2. CASE Stop(i) \/ Start(i) \/ Tick(i)
        BY <2>1, <2>2 DEF Stop, Start, Tick
    <2>3. CASE StopFinishes(i)
        BY <1>t, <2>3 DEF StopFinishes, Entry
    <2>4. CASE Crash(i)
        <3>1. CASE Home[q] = i
            <4>1. q \notin pending' /\ handler'[q] \notin Awaiting /\ future'[q] = future[q]
                  /\ (handler'[q] = "idle" => handler[q] = "idle")
                BY <1>t, <2>4, <3>1 DEF Crash
            <4> QED
                BY <1>t, <4>1 DEF Entry
        <3>2. CASE Home[q] # i
            <4>1. /\ handler'[q] = handler[q] /\ response'[q] = response[q]
                  /\ future'[q] = future[q] /\ (q \in pending' <=> q \in pending)
                BY <1>t, <2>4, <3>2 DEF Crash
            <4> QED
                BY <1>u, <4>1
        <3> QED
            BY <3>1, <3>2
    <2> QED
        BY <1>3, <2>2, <2>3, <2>4 DEF InstanceStep
<1>4. CASE UNCHANGED vars
    BY <1>4, <1>u DEF vars
<1> QED
    BY <1>1, <1>2, <1>3, <1>4 DEF Next

\* Types and registry hold in every reachable state.
LEMMA RegistryInvariant == Spec => [](TypeInv /\ Registry)
BY InitType, NextType, InitRegistry, NextRegistry, PTL DEF Spec

\* worker.py:89: the registry holds only futures somebody awaits, but for an enqueue that
\* raised.
THEOREM RegistryIsAwaited == Spec => []LeakOnlyFromEnqueue
<1>1. TypeInv /\ Registry => LeakOnlyFromEnqueue
    BY DEF TypeInv, TypeOK, Registry, Entry, LeakOnlyFromEnqueue
<1> QED
    BY <1>1, RegistryInvariant, PTL

(***************************************************************************)
(* Copies.                                                                 *)
(***************************************************************************)

\* A step that neither adds to the queue nor hands out items keeps the copies.
LEMMA FewerCopies ==
    ASSUME NEW q, Copy(q),
           handler'[q] \in {"idle", "adding"} => handler[q] \in {"idle", "adding"},
           q \in queue' => q \in queue,
           \A k \in Workers : item'[k] = q => item[k] = q
    PROVE  Copy(q)'
BY DEF Copy

\* Only Zadd puts a request into the queue, when nobody has it, and only Pop
\* moves it, to one worker.
LEMMA NextCopies ==
    ASSUME Resent = {}, TypeInv, Copies, [Next]_vars
    PROVE  Copies'
<1> SUFFICES ASSUME NEW q \in Requests PROVE Copy(q)'
    BY DEF Copies
<1>t. /\ handler \in [Requests -> HandlerState]
      /\ item \in [Workers -> Requests \cup {NoRequest}]
      /\ queue \subseteq Requests
      /\ NoRequest \notin Requests
      /\ Copy(q)
    BY WorkerPoolAssumption DEF TypeInv, TypeOK, Copies
<1>1. ASSUME NEW r \in Requests, HandlerStep(r) PROVE Copy(q)'
    <2>1. item' = item
        BY <1>1 DEF HandlerStep, Submit, Zadd, ZaddAgain, Enqueued, EnqueueRaises, Refuse,
                    Timeout, AnswerTimeout, Answer
    <2>2. CASE Zadd(r)
        BY <1>t, <2>1, <2>2 DEF Zadd, Copy
    <2>3. CASE Submit(r) \/ Enqueued(r) \/ EnqueueRaises(r) \/ Refuse(r)
               \/ Timeout(r) \/ AnswerTimeout(r) \/ Answer(r)
        <3>1. /\ queue' = queue
              /\ handler'[q] \in {"idle", "adding"} => handler[q] \in {"idle", "adding"}
            BY <1>t, <2>3 DEF Submit, Enqueued, EnqueueRaises, Refuse, Timeout, AnswerTimeout, Answer
        <3> QED
            BY <1>t, <2>1, <3>1, FewerCopies
    <2> QED
        BY <1>1, <2>2, <2>3 DEF HandlerStep, ZaddAgain
<1>2. ASSUME NEW k \in Workers, WorkerStep(k) PROVE Copy(q)'
    <2>1. handler' = handler
        BY <1>2 DEF WorkerStep, PollEmpty, vars, Pop, PopReplyLost, DropOrphan, RejectOpen,
                    StartInference, InferenceSucceeds, InferenceFails, WorkerExits
    <2>2. CASE Pop(k)
        <3>1. PICK r \in queue : queue' = queue \ {r} /\ item' = [item EXCEPT ![k] = r]
            BY <2>2 DEF Pop, Lowest
        <3>2. item[k] = NoRequest
            BY <2>2 DEF Pop, TypeInv
        <3>3. CASE r = q
            BY <1>t, <2>1, <3>1, <3>2, <3>3 DEF Copy
        <3>4. CASE r # q
            <4>1. \A j \in Workers : item'[j] = q => item[j] = q
                BY <1>t, <3>1, <3>4
            <4> QED
                BY <1>t, <2>1, <3>1, <4>1, FewerCopies
        <3> QED
            BY <3>3, <3>4
    <2>3. CASE ~Pop(k)
        <3>1. /\ queue' = queue
              /\ item' = item \/ item' = [item EXCEPT ![k] = NoRequest]
            BY <1>2, <2>3 DEF WorkerStep, PollEmpty, vars, PopReplyLost, DropOrphan, RejectOpen, Poll,
                        StartInference, InferenceSucceeds, InferenceFails, WorkerExits
        <3>2. \A j \in Workers : item'[j] = q => item[j] = q
            BY <1>t, <3>1
        <3> QED
            BY <1>t, <2>1, <3>1, <3>2, FewerCopies
    <2> QED
        BY <2>2, <2>3
<1>3. ASSUME NEW i \in Instances, InstanceStep(i) PROVE Copy(q)'
    <2>1. /\ queue' = queue
          /\ handler'[q] \in {"idle", "adding"} => handler[q] \in {"idle", "adding"}
          /\ \A k \in Workers : item'[k] = q => item[k] = q
        BY <1>3, <1>t DEF InstanceStep, Stop, StopFinishes, Crash, Start, Tick
    <2> QED
        BY <1>t, <2>1, FewerCopies
<1>4. CASE UNCHANGED vars
    BY <1>4, <1>t, FewerCopies DEF vars
<1> QED
    BY <1>1, <1>2, <1>3, <1>4 DEF Next

\* At first there is no copy anywhere.
LEMMA InitCopies == Init => Copies
BY WorkerPoolAssumption DEF Init, Copies, Copy

(***************************************************************************)
(* Ledger.                                                                 *)
(***************************************************************************)

\* No inference has begun.
LEMMA InitLedger == Init => Ledger
BY WorkerPoolAssumption DEF Init, Ledger, Fate

\* A step that leaves the inference of a request alone keeps its account, unless
\* the request is put into the queue, popped or given a result.
LEMMA SameFate ==
    ASSUME NEW q, Fate(q), work'[q] = work[q],
           handler'[q] \in {"idle", "adding"} => handler[q] \in {"idle", "adding"},
           q \in queue' => q \in queue,
           \A k \in Workers : item'[k] = q => item[k] = q /\ pc'[k] = pc[k],
           future'[q] = "result" => future[q] = "result"
    PROVE  Fate(q)'
BY DEF Fate

\* A request that a worker runs or has run is in no queue and no other hands.
LEMMA NextLedger ==
    ASSUME Resent = {}, TypeInv, Copies, Ledger, [Next]_vars
    PROVE  Ledger'
<1> SUFFICES ASSUME NEW q \in Requests PROVE Fate(q)'
    BY DEF Ledger
<1>t. /\ handler \in [Requests -> HandlerState]
      /\ future \in [Requests -> FutureState]
      /\ work \in [Requests -> {"none", "running", "computed", "failed", "aborted"}]
      /\ item \in [Workers -> Requests \cup {NoRequest}]
      /\ pc \in [Workers -> WorkerState]
      /\ queue \subseteq Requests
      /\ NoRequest \notin Requests
      /\ Copy(q) /\ Fate(q)
    BY WorkerPoolAssumption DEF TypeInv, TypeOK, Copies, Ledger
<1>1. ASSUME NEW r \in Requests, HandlerStep(r) PROVE Fate(q)'
    <2>1. item' = item /\ pc' = pc /\ work' = work
        BY <1>1 DEF HandlerStep, Submit, Zadd, ZaddAgain, Enqueued, EnqueueRaises, Refuse,
                    Timeout, AnswerTimeout, Answer
    <2>2. CASE Zadd(r)
        BY <1>t, <2>1, <2>2 DEF Zadd, Fate
    <2>3. CASE Submit(r) \/ Enqueued(r) \/ EnqueueRaises(r) \/ Refuse(r)
               \/ Timeout(r) \/ AnswerTimeout(r) \/ Answer(r)
        <3>1. /\ queue' = queue
              /\ handler'[q] \in {"idle", "adding"} => handler[q] \in {"idle", "adding"}
              /\ future'[q] = "result" => future[q] = "result"
            BY <1>t, <2>3 DEF Submit, Enqueued, EnqueueRaises, Refuse, Timeout, AnswerTimeout,
                              Answer, CancelRequest
        <3> QED
            BY <1>t, <2>1, <3>1, SameFate
    <2> QED
        BY <1>1, <2>2, <2>3 DEF HandlerStep, ZaddAgain
<1>2. ASSUME NEW k \in Workers, WorkerStep(k) PROVE Fate(q)'
    <2>1. handler' = handler
        BY <1>2 DEF WorkerStep, PollEmpty, vars, Pop, PopReplyLost, DropOrphan, RejectOpen,
                    StartInference, InferenceSucceeds, InferenceFails, WorkerExits
    <2>2. CASE Pop(k)
        <3>1. PICK r \in queue : queue' = queue \ {r} /\ item' = [item EXCEPT ![k] = r]
            BY <2>2 DEF Pop, Lowest
        <3>2. /\ pc' = [pc EXCEPT ![k] = "popped"]
              /\ future' = future /\ work' = work
            BY <2>2 DEF Pop
        <3> QED
            BY <1>t, <2>1, <3>1, <3>2 DEF Copy, Fate
    <2>3. CASE PollEmpty(k) \/ PopReplyLost(k) \/ DropOrphan(k) \/ RejectOpen(k)
        <3>1. /\ queue' = queue /\ work' = work
              /\ future'[q] = "result" => future[q] = "result"
            BY <1>t, <2>3 DEF PollEmpty, vars, PopReplyLost, DropOrphan, RejectOpen, Resolve
        <3>2. \A j \in Workers : item'[j] = q => item[j] = q /\ pc'[j] = pc[j]
            BY <1>t, <2>3 DEF PollEmpty, vars, PopReplyLost, DropOrphan, RejectOpen, Poll
        <3> QED
            BY <1>t, <2>1, <3>1, <3>2, SameFate
    <2>4. ASSUME item[k] # q, UNCHANGED queue,
                 work' = work \/ \E w : work' = [work EXCEPT ![item[k]] = w],
                 \A j \in Workers : j # k => item'[j] = item[j] /\ pc'[j] = pc[j],
                 item'[k] \in {item[k], NoRequest},
                 future'[q] = future[q]
          PROVE  Fate(q)'
        <3>1. work'[q] = work[q]
            BY <1>t, <2>4
        <3>2. \A j \in Workers : item'[j] = q => item[j] = q /\ pc'[j] = pc[j]
            BY <1>t, <2>4
        <3> QED
            BY <1>t, <2>1, <2>4, <3>1, <3>2, SameFate
    <2>5. CASE StartInference(k)
        <3>1. CASE item[k] # q
            BY <1>t, <2>4, <2>5, <3>1 DEF StartInference
        <3>2. CASE item[k] = q
            <4>1. work[q] = "none" /\ q \notin queue /\ handler[q] \notin {"idle", "adding"}
                BY <1>t, <2>5, <3>2 DEF StartInference, Copy, Fate
            <4> QED
                BY <1>t, <2>1, <2>5, <3>2, <4>1 DEF StartInference, Copy, Fate
        <3> QED
            BY <3>1, <3>2
    <2>6. CASE InferenceSucceeds(k) \/ InferenceFails(k) \/ WorkerExits(k)
        <3>1. CASE item[k] # q
            <4>1. future'[q] = future[q]
                BY <1>t, <2>6, <3>1 DEF InferenceSucceeds, InferenceFails, WorkerExits, Resolve
            <4>2. /\ UNCHANGED queue
                  /\ work' = work \/ \E w : work' = [work EXCEPT ![item[k]] = w]
                BY <2>6 DEF InferenceSucceeds, InferenceFails, WorkerExits
            <4>3. /\ \A j \in Workers : j # k => item'[j] = item[j] /\ pc'[j] = pc[j]
                  /\ item'[k] \in {item[k], NoRequest}
                BY <1>t, <2>6 DEF InferenceSucceeds, InferenceFails, WorkerExits, Poll
            <4> QED
                BY <2>4, <3>1, <4>1, <4>2, <4>3
        <3>2. ASSUME item[k] = q PROVE q \notin queue' /\ handler'[q] \notin {"idle", "adding"}
            BY <1>t, <2>1, <2>6, <3>2 DEF InferenceSucceeds, InferenceFails, WorkerExits, Copy
        <3>3. ASSUME item[k] = q PROVE \A j \in Workers : item'[j] # q
            BY <1>t, <2>6, <3>3 DEF InferenceSucceeds, InferenceFails, WorkerExits, Poll, Copy
        <3>4. CASE item[k] = q /\ InferenceSucceeds(k)
            <4>1. work'[q] = "computed"
                BY <1>t, <3>4 DEF InferenceSucceeds
            <4> QED
                BY <3>2, <3>3, <3>4, <4>1 DEF Fate
        <3>5. CASE item[k] = q /\ InferenceFails(k)
            <4>1. future[q] # "result" /\ future'[q] # "result"
                BY <1>t, <3>5 DEF InferenceFails, Resolve, Fate
            <4> QED
                BY <3>2, <3>3, <3>5, <4>1 DEF Fate
        <3>6. CASE item[k] = q /\ WorkerExits(k)
            <4>1. future'[q] = future[q] /\ (future[q] = "result" => work'[q] = "computed")
                BY <1>t, <3>6 DEF WorkerExits, Fate
            <4> QED
                BY <3>2, <3>3, <3>6, <4>1 DEF Fate
        <3> QED
            BY <2>6, <3>1, <3>4, <3>5, <3>6
    <2> QED
        BY <1>2, <2>2, <2>3, <2>5, <2>6 DEF WorkerStep
<1>3. ASSUME NEW i \in Instances, InstanceStep(i) PROVE Fate(q)'
    <2>1. CASE Stop(i) \/ StopFinishes(i) \/ Tick(i)
        <3>1. /\ queue' = queue /\ work' = work /\ item' = item /\ pc' = pc /\ handler' = handler
              /\ future'[q] = "result" => future[q] = "result"
            BY <1>t, <2>1 DEF Stop, StopFinishes, Tick
        <3> QED
            BY <1>t, <3>1, SameFate
    <2>2. CASE Start(i)
        <3>1. \A k \in Workers : item'[k] = q => item[k] = q /\ pc'[k] = pc[k]
            BY <1>t, <2>2 DEF Start, TypeInv
        <3> QED
            BY <1>t, <2>2, <3>1, SameFate DEF Start
    <2>3. CASE Crash(i)
        <3>1. /\ queue' = queue /\ future' = future
              /\ handler'[q] \in {"idle", "adding"} => handler[q] \in {"idle", "adding"}
            BY <1>t, <2>3 DEF Crash
        <3>2. \A k \in Workers : item'[k] = q => item[k] = q /\ pc'[k] = pc[k] /\ Host[k] # i
            BY <1>t, <2>3 DEF Crash
        <3>3. CASE work'[q] = work[q]
            BY <1>t, <3>1, <3>2, <3>3, SameFate
        <3>4. CASE work'[q] # work[q]
            <4>1. PICK j \in Workers : Host[j] = i /\ pc[j] = "running" /\ item[j] = q
                BY <1>t, <2>3, <3>4 DEF Crash
            <4>2. /\ q \notin queue /\ handler[q] \notin {"idle", "adding"}
                  /\ work[q] = "running" /\ future[q] # "result"
                  /\ \A k \in Workers : item'[k] # q
                BY <1>t, <3>2, <4>1 DEF Copy, Fate
            <4> QED
                BY <1>t, <3>1, <4>2 DEF Fate
        <3> QED
            BY <3>3, <3>4
    <2> QED
        BY <1>3, <2>1, <2>2, <2>3 DEF InstanceStep
<1>4. CASE UNCHANGED vars
    BY <1>4, <1>t, SameFate DEF vars
<1> QED
    BY <1>1, <1>2, <1>3, <1>4 DEF Next

(***************************************************************************)
(* What follows from the invariant.                                        *)
(***************************************************************************)

\* The inductive invariant holds.
LEMMA PoolInvariant ==
    ASSUME Resent = {}
    PROVE  Spec => []PoolInv
<1>1. Init => PoolInv
    BY InitType, InitRegistry, InitCopies, InitLedger DEF PoolInv
<1>2. PoolInv /\ [Next]_vars => PoolInv'
    BY NextType, NextRegistry, NextCopies, NextLedger DEF PoolInv
<1> QED
    BY <1>1, <1>2, PTL DEF Spec

\* worker.py:5-6: a request is in the queue or with one worker, never twice.
THEOREM PoppedOnce ==
    ASSUME Resent = {}
    PROVE  Spec => []OneCopy
<1>1. PoolInv => OneCopy
    BY WorkerPoolAssumption DEF PoolInv, TypeInv, TypeOK, Copies, Copy, OneCopy, Held
<1> QED
    BY <1>1, PoolInvariant, PTL

\* A future is settled once, whoever comes second: the worker, the timer, the
\* handler or stop().
THEOREM NeverSetTwice == Spec => SettledOnce
<1>1. ASSUME TypeInv, Registry, [Next]_vars, NEW q \in Requests, future[q] \in Resolution
      PROVE  future'[q] = future[q]
    <2>t. /\ handler \in [Requests -> HandlerState]
          /\ future \in [Requests -> FutureState]
          /\ Entry(q)
        BY <1>1 DEF TypeInv, TypeOK, Registry
    <2>1. ASSUME NEW r \in Requests, HandlerStep(r) PROVE future'[q] = future[q]
        BY <1>1, <2>t, <2>1
           DEF HandlerStep, Submit, Zadd, ZaddAgain, Enqueued, EnqueueRaises, Refuse,
               Timeout, AnswerTimeout, Answer, CancelRequest, Entry
    <2>2. ASSUME NEW k \in Workers, WorkerStep(k) PROVE future'[q] = future[q]
        BY <1>1, <2>t, <2>2
           DEF WorkerStep, PollEmpty, vars, Pop, PopReplyLost, DropOrphan, RejectOpen,
               StartInference, InferenceSucceeds, InferenceFails, WorkerExits, Resolve
    <2>3. ASSUME NEW i \in Instances, InstanceStep(i) PROVE future'[q] = future[q]
        BY <1>1, <2>t, <2>3 DEF InstanceStep, Stop, StopFinishes, Crash, Start, Tick
    <2> QED
        BY <1>1, <2>1, <2>2, <2>3 DEF Next, vars
<1>2. TypeInv /\ Registry /\ [Next]_vars
      => [\A r \in Requests : future[r] \in Resolution => future'[r] = future[r]]_vars
    BY <1>1
<1> QED
    BY <1>2, RegistryInvariant, PTL DEF Spec, SettledOnce

\* No inference starts for a client that is gone, but for an enqueue that raised.
THEOREM OnlyForTheWaiting == Spec => NoWorkForTheGone
<1>1. ASSUME TypeInv, Registry, [Next]_vars, NEW k \in Workers,
             pc[k] = "popped", pc'[k] = "running"
      PROVE  handler[item[k]] \in Awaiting \/ response[item[k]] = "500"
    <2>i. TypeOK /\ item[k] # NoRequest
        BY <1>1, Zenon DEF TypeInv
    <2>t. /\ pc \in [Workers -> WorkerState]
          /\ item[k] \in Requests
        BY <2>i DEF TypeOK
    <2>1. StartInference(k)
        BY <1>1, <2>t
           DEF Next, vars, HandlerStep, Submit, Zadd, ZaddAgain, Enqueued, EnqueueRaises, Refuse,
               Timeout, AnswerTimeout, Answer, WorkerStep, PollEmpty, Pop, PopReplyLost,
               DropOrphan, RejectOpen, StartInference, InferenceSucceeds, InferenceFails,
               WorkerExits, Poll, InstanceStep, Stop, StopFinishes, Crash, Start, Tick
    <2> QED
        BY <1>1, <2>t, <2>1 DEF StartInference, Owns, Registry, Entry
<1>2. TypeInv /\ Registry /\ [Next]_vars
      => [\A k \in Workers : pc[k] = "popped" /\ pc'[k] = "running" =>
             handler[item[k]] \in Awaiting \/ response[item[k]] = "500"]_vars
    BY <1>1
<1> QED
    BY <1>2, RegistryInvariant, PTL DEF Spec, NoWorkForTheGone

\* Every pop takes the first of the most urgent tier, whatever the multiplier.
THEOREM TiersThenArrival == Spec => PopsByPriority
<1>1. ASSUME TypeInv, [Next]_vars, NEW k \in Workers,
             pc[k] = "polling", pc'[k] = "popped", NEW r \in queue
      PROVE  ~Before(priority[r], stamp[r], priority[item'[k]], stamp[item'[k]])
    <2>t. /\ pc \in [Workers -> WorkerState]
          /\ priority \in [Requests -> Priority]
          /\ stamp \in [Requests -> Stamps]
          /\ item \in [Workers -> Requests \cup {NoRequest}]
          /\ queue \subseteq Requests
        <3>1. TypeOK
            BY <1>1 DEF TypeInv
        <3> QED
            BY <3>1 DEF TypeOK
    <2>1. Pop(k)
        BY <1>1, <2>t
           DEF Next, vars, HandlerStep, Submit, Zadd, ZaddAgain, Enqueued, EnqueueRaises, Refuse,
               Timeout, AnswerTimeout, Answer, WorkerStep, PollEmpty, Pop, PopReplyLost,
               DropOrphan, RejectOpen, StartInference, InferenceSucceeds, InferenceFails,
               WorkerExits, Poll, InstanceStep, Stop, StopFinishes, Crash, Start, Tick
    <2>2. PICK x \in Lowest(queue, Score) : item' = [item EXCEPT ![k] = x]
        BY <2>1 DEF Pop
    <2>3. item'[k] = x /\ x \in Requests /\ r \in Requests
        BY <2>t, <2>2 DEF Lowest
    <2>4. Score[x] <= Score[r]
        BY <2>2 DEF Lowest
    <2>s. /\ Score[x] = ComputeScore(priority[x], stamp[x])
          /\ Score[r] = ComputeScore(priority[r], stamp[r])
        BY <2>3 DEF Score
    <2>5. SUFFICES ASSUME Before(priority[r], stamp[r], priority[x], stamp[x]) PROVE FALSE
        BY <2>3
    <2>6. Score[r] < Score[x]
        BY <2>t, <2>3, <2>5, <2>s, ScoreKeepsOrder
    <2>7. Score[r] \in Nat /\ Score[x] \in Nat
        BY <2>t, <2>3, <2>s, ScoreType
    <2> QED
        BY <2>4, <2>6, <2>7
<1>2. TypeInv /\ [Next]_vars
      => [\A k \in Workers : pc[k] = "polling" /\ pc'[k] = "popped" =>
             \A r \in queue :
                ~Before(priority[r], stamp[r], priority[item'[k]], stamp[item'[k]])]_vars
    BY <1>1
<1> QED
    BY <1>2, InitType, NextType, PTL DEF Spec, PopsByPriority

(***************************************************************************)
(* The platform implements Completions.                                    *)
(***************************************************************************)

statusNow == [q \in Requests |-> Status(q)]

\* A step that leaves the handler of a request alone leaves its client alone.
LEMMA SameStatus ==
    ASSUME NEW q, handler'[q] = handler[q], response'[q] = response[q]
    PROVE  Status(q)' = Status(q)
BY DEF Status

\* A step of the handler of one request changes the status of that request only.
LEMMA OneStatus ==
    ASSUME TypeInv, NEW r \in Requests, NEW h, NEW x,
           handler' = [handler EXCEPT ![r] = h], response' = [response EXCEPT ![r] = x],
           NEW s, Status(r)' = s
    PROVE  statusNow' = [statusNow EXCEPT ![r] = s]
<1>1. ASSUME NEW q \in Requests, q # r PROVE Status(q)' = Status(q)
    <2>1. handler'[q] = handler[q] /\ response'[q] = response[q]
        BY <1>1 DEF TypeInv, TypeOK
    <2> QED
        BY <2>1, SameStatus
<1> QED
    BY <1>1 DEF statusNow

\* Steps that neither answer nor begin or end an inference are stutters.
LEMMA Stutter ==
    ASSUME \A q \in Requests : Status(q)' = Status(q), work' = work
    PROVE  UNCHANGED <<statusNow, work>>
BY DEF statusNow

\* A step of a handler is an acceptance, a refusal, an answer or a stutter.
LEMMA HandlerImplements ==
    ASSUME PoolInv, NEW r \in Requests, HandlerStep(r)
    PROVE  C!Next \/ UNCHANGED <<statusNow, work>>
<1>t. /\ handler \in [Requests -> HandlerState]
      /\ response \in [Requests -> Response]
      /\ future \in [Requests -> FutureState]
      /\ TypeInv /\ Fate(r)
    BY DEF PoolInv, TypeInv, TypeOK, Ledger
<1>w. work' = work
    BY DEF HandlerStep, Submit, Zadd, ZaddAgain, Enqueued, EnqueueRaises, Refuse,
           Timeout, AnswerTimeout, Answer
<1>s. statusNow[r] = Status(r)
    BY DEF statusNow
<1>1. CASE Submit(r)
    <2>1. Status(r) = "new" /\ Status(r)' = "accepted"
        BY <1>t, <1>1 DEF Submit, Status
    <2>2. statusNow' = [statusNow EXCEPT ![r] = "accepted"]
        <3>1. /\ handler' = [handler EXCEPT ![r] = "adding"]
              /\ response' = [response EXCEPT ![r] = response[r]]
            BY <1>t, <1>1 DEF Submit
        <3> QED
            BY <1>t, <2>1, <3>1, OneStatus
    <2> QED
        BY <1>w, <1>s, <2>1, <2>2 DEF C!Next, C!Accept, statusNow
<1>2. CASE Refuse(r)
    <2>1. Status(r) = "new" /\ Status(r)' = "error"
        BY <1>t, <1>2 DEF Refuse, Status
    <2>2. statusNow' = [statusNow EXCEPT ![r] = "error"]
        <3>1. /\ handler' = [handler EXCEPT ![r] = "done"]
              /\ response' = [response EXCEPT ![r] = "503"]
            BY <1>2 DEF Refuse
        <3> QED
            BY <1>t, <2>1, <3>1, OneStatus
    <2> QED
        BY <1>w, <1>s, <2>1, <2>2 DEF C!Next, C!Refuse, statusNow
<1>3. CASE Zadd(r) \/ ZaddAgain(r) \/ Enqueued(r) \/ Timeout(r)
    <2>1. ASSUME NEW q \in Requests PROVE Status(q)' = Status(q)
        <3>1. CASE q # r
            <4>1. handler'[q] = handler[q] /\ response'[q] = response[q]
                BY <1>t, <1>3, <3>1 DEF Zadd, ZaddAgain, Enqueued, Timeout
            <4> QED
                BY <4>1, SameStatus
        <3>2. CASE q = r
            BY <1>t, <1>3, <3>2 DEF Zadd, ZaddAgain, Enqueued, Timeout, Status
        <3> QED
            BY <3>1, <3>2
    <2> QED
        BY <1>w, <2>1, Stutter
<1>4. ASSUME NEW x, NEW a \in C!Answers, Status(r) = "accepted", Status(r)' = a,
             a = "ok" => work[r] = "computed",
             handler' = [handler EXCEPT ![r] = "done"], response' = [response EXCEPT ![r] = x]
      PROVE  C!Next
    <2>1. statusNow' = [statusNow EXCEPT ![r] = a]
        BY <1>t, <1>4, OneStatus
    <2> QED
        BY <1>w, <1>s, <1>4, <2>1 DEF C!Next, C!Answer, statusNow
<1>5. CASE EnqueueRaises(r)
    <2>1. Status(r) = "accepted" /\ Status(r)' = "error"
        BY <1>t, <1>5 DEF EnqueueRaises, Status
    <2> QED
        BY <1>4, <1>5, <2>1 DEF EnqueueRaises, C!Answers
<1>6. CASE AnswerTimeout(r)
    <2>1. Status(r) = "accepted" /\ Status(r)' = "timeout"
        BY <1>t, <1>6 DEF AnswerTimeout, Status
    <2> QED
        BY <1>4, <1>6, <2>1 DEF AnswerTimeout, C!Answers
<1>7. CASE Answer(r)
    <2>1. /\ handler' = [handler EXCEPT ![r] = "done"]
          /\ response' = [response EXCEPT ![r] = StatusOf[future[r]]]
          /\ handler[r] = "waiting" /\ future[r] \in Resolution
        BY <1>7 DEF Answer
    <2>2. Status(r) = "accepted"
        BY <2>1 DEF Status
    <2>3. CASE future[r] = "result"
        <3>1. Status(r)' = "ok"
            BY <1>t, <2>1, <2>3 DEF StatusOf, Status
        <3> QED
            BY <1>4, <1>t, <2>1, <2>2, <2>3, <3>1 DEF C!Answers, Fate
    <2>4. CASE future[r] # "result"
        <3>1. Status(r)' = "error"
            BY <1>t, <2>1, <2>4 DEF StatusOf, Status
        <3> QED
            BY <1>4, <2>1, <2>2, <3>1 DEF C!Answers
    <2> QED
        BY <2>3, <2>4
<1> QED
    BY <1>1, <1>2, <1>3, <1>5, <1>6, <1>7 DEF HandlerStep

\* A step of a worker begins or ends the inference of its item, or is a stutter.
LEMMA WorkerImplements ==
    ASSUME PoolInv, NEW k \in Workers, WorkerStep(k)
    PROVE  C!Next \/ UNCHANGED <<statusNow, work>>
<1>t. /\ handler \in [Requests -> HandlerState]
      /\ item \in [Workers -> Requests \cup {NoRequest}]
      /\ TypeInv /\ Copies /\ Ledger
    BY DEF PoolInv, TypeInv, TypeOK
<1>1. handler' = handler /\ response' = response
    BY DEF WorkerStep, PollEmpty, vars, Pop, PopReplyLost, DropOrphan, RejectOpen,
           StartInference, InferenceSucceeds, InferenceFails, WorkerExits
<1>2. \A q \in Requests : Status(q)' = Status(q)
    BY <1>1, SameStatus
<1>3. statusNow' = statusNow
    BY <1>2 DEF statusNow
<1>4. CASE StartInference(k)
    <2>1. item[k] \in Requests /\ work[item[k]] = "none" /\ handler[item[k]] \notin {"idle", "adding"}
        BY <1>t, <1>4 DEF StartInference, TypeInv, Copies, Copy, Ledger, Fate
    <2>2. Status(item[k]) # "new" /\ statusNow[item[k]] = Status(item[k])
        BY <1>t, <2>1 DEF Status, statusNow
    <2>3. C!Begin(item[k])
        BY <1>3, <1>4, <2>1, <2>2 DEF StartInference, C!Begin, statusNow
    <2> QED
        BY <2>1, <2>3 DEF C!Next
<1>5. ASSUME NEW o \in {"computed", "failed", "aborted"}, pc[k] = "running",
             work' = [work EXCEPT ![item[k]] = o]
      PROVE  C!Next
    <2>1. item[k] \in Requests /\ work[item[k]] = "running"
        BY <1>t, <1>5 DEF TypeInv, Ledger, Fate
    <2>2. C!End(item[k], o)
        BY <1>3, <1>5, <2>1 DEF C!End, statusNow
    <2> QED
        BY <2>1, <2>2 DEF C!Next
<1>6. CASE work' = work
    BY <1>2, <1>6, Stutter
<1> QED
    BY <1>4, <1>5, <1>6
       DEF WorkerStep, PollEmpty, vars, Pop, PopReplyLost, DropOrphan, RejectOpen,
           InferenceSucceeds, InferenceFails, WorkerExits

\* A crash is an outage, every other step of an instance a stutter.
LEMMA InstanceImplements ==
    ASSUME PoolInv, NEW i \in Instances, InstanceStep(i)
    PROVE  C!Next \/ UNCHANGED <<statusNow, work>>
<1>t. /\ handler \in [Requests -> HandlerState]
      /\ response \in [Requests -> Response]
      /\ work \in [Requests -> {"none", "running", "computed", "failed", "aborted"}]
      /\ TypeInv /\ Ledger
    BY DEF PoolInv, TypeInv, TypeOK
<1>1. CASE Stop(i) \/ StopFinishes(i) \/ Start(i) \/ Tick(i)
    <2>1. handler' = handler /\ response' = response /\ work' = work
        BY <1>1 DEF Stop, StopFinishes, Start, Tick
    <2>2. \A q \in Requests : Status(q)' = Status(q)
        BY <2>1, SameStatus
    <2> QED
        BY <2>1, <2>2, Stutter
<1>2. CASE Crash(i)
    <2> DEFINE gone == {r \in Requests : Home[r] = i /\ handler[r] \in Awaiting}
               aborted == {item[k] : k \in {j \in Workers : Host[j] = i /\ pc[j] = "running"}}
    <2>1. /\ handler' = [r \in Requests |-> IF r \in gone THEN "done" ELSE handler[r]]
          /\ response' = [r \in Requests |-> IF r \in gone THEN "lost" ELSE response[r]]
          /\ work' = [r \in Requests |-> IF r \in aborted THEN "aborted" ELSE work[r]]
        BY <1>2 DEF Crash
    <2>2. \A r \in gone : statusNow[r] = "accepted"
        BY DEF statusNow, Status
    <2>3. aborted \subseteq Requests /\ \A r \in aborted : work[r] = "running"
        BY <1>t DEF TypeInv, TypeOK, Ledger, Fate
    <2>4. ASSUME NEW q \in Requests
          PROVE  Status(q)' = IF q \in gone THEN "lost" ELSE Status(q)
        <3>1. CASE q \in gone
            BY <2>1, <3>1 DEF Status
        <3>2. CASE q \notin gone
            <4>1. handler'[q] = handler[q] /\ response'[q] = response[q]
                BY <2>1, <3>2
            <4> QED
                BY <3>2, <4>1, SameStatus
        <3> QED
            BY <3>1, <3>2
    <2>5. statusNow' = [r \in Requests |-> IF r \in gone THEN "lost" ELSE statusNow[r]]
        BY <2>4 DEF statusNow
    <2>6. gone \in SUBSET Requests /\ aborted \in SUBSET Requests
        BY <2>3
    <2> HIDE DEF gone, aborted
    <2>7. C!Outage(gone, aborted)
        BY <2>1, <2>2, <2>3, <2>5 DEF C!Outage, statusNow
    <2> QED
        BY <2>6, <2>7 DEF C!Next
<1> QED
    BY <1>1, <1>2 DEF InstanceStep

\* No inference runs twice, no client is told "ok" without its own computed
\* result, and none is answered twice: the pool implements Completions.
THEOREM PoolImplementsCompletions ==
    ASSUME Resent = {}
    PROVE  Spec => KeepsPromise
<1>1. Init => C!Init
    BY DEF Init, C!Init, Status
<1>2. PoolInv /\ [Next]_vars => [C!Next]_C!cvars
    <2> SUFFICES ASSUME PoolInv, [Next]_vars PROVE C!Next \/ UNCHANGED <<statusNow, work>>
        BY DEF C!cvars, statusNow
    <2>1. CASE UNCHANGED vars
        <3>1. handler' = handler /\ response' = response /\ work' = work
            BY <2>1 DEF vars
        <3>2. \A q \in Requests : Status(q)' = Status(q)
            BY <3>1, SameStatus
        <3> QED
            BY <3>1, <3>2, Stutter
    <2> QED
        BY <2>1, HandlerImplements, WorkerImplements, InstanceImplements DEF Next
<1> QED
    BY <1>1, <1>2, PoolInvariant, PTL DEF Spec, KeepsPromise, C!Spec

(***************************************************************************)
(* What the promise amounts to for a client and for the model.             *)
(***************************************************************************)

\* A client that is told "ok" gets an inference that was computed for it.
OkIsComputed == \A r \in Requests : Status(r) = "ok" => work[r] = "computed"

\* An answer stands, whoever still works on the request.
AnswersStand == \A r \in Requests : Status(r) \in C!Answers => Status(r)' = Status(r)

\* An inference that began or ended does not begin again.
RunsOnce == \A r \in Requests : work[r] # "none" => work'[r] \in {work[r], "computed", "failed", "aborted"}

\* The three of them as a state and as a step of the promise.
StatusTypes ==
    /\ statusNow \in [Requests -> {"new", "accepted"} \cup C!Answers]
    /\ work \in [Requests -> {"none", "running", "computed", "failed", "aborted"}]

OkNow == \A r \in Requests : statusNow[r] = "ok" => work[r] = "computed"

StandsAndOnce ==
    \A r \in Requests :
        /\ statusNow[r] \in C!Answers => statusNow'[r] = statusNow[r]
        /\ work[r] # "none" => work'[r] \in {work[r], "computed", "failed", "aborted"}

\* A step of the promise on one request.
LEMMA PromiseOfOne ==
    ASSUME StatusTypes, OkNow, NEW q \in Requests,
           NEW s, NEW w,
           statusNow' = [statusNow EXCEPT ![q] = s], work' = [work EXCEPT ![q] = w],
           s \in {"new", "accepted"} \cup C!Answers,
           w \in {"none", "running", "computed", "failed", "aborted"},
           s = "ok" => w = "computed",
           statusNow[q] \in C!Answers => s = statusNow[q],
           work[q] # "none" => w \in {work[q], "computed", "failed", "aborted"}
    PROVE  StatusTypes' /\ OkNow' /\ StandsAndOnce
<1>1. StatusTypes'
    BY DEF StatusTypes
<1>2. ASSUME NEW r \in Requests
      PROVE  /\ statusNow'[r] = IF r = q THEN s ELSE statusNow[r]
             /\ work'[r] = IF r = q THEN w ELSE work[r]
    BY DEF StatusTypes
<1>3. OkNow'
    BY <1>2 DEF OkNow
<1>4. StandsAndOnce
    BY <1>2 DEF StandsAndOnce
<1> QED
    BY <1>1, <1>3, <1>4

\* A step of the promise keeps what was said and what was computed.
LEMMA PromiseStep ==
    ASSUME StatusTypes, OkNow, [C!Next]_C!cvars
    PROVE  StatusTypes' /\ OkNow' /\ StandsAndOnce
<1> DEFINE Kept == StatusTypes' /\ OkNow' /\ StandsAndOnce
<1>t. \A r \in Requests : /\ statusNow = [statusNow EXCEPT ![r] = statusNow[r]]
                          /\ work = [work EXCEPT ![r] = work[r]]
                          /\ statusNow[r] \in {"new", "accepted"} \cup C!Answers
                          /\ work[r] \in {"none", "running", "computed", "failed", "aborted"}
                          /\ statusNow[r] = "ok" => work[r] = "computed"
    BY DEF StatusTypes, OkNow
<1>1. ASSUME NEW q \in Requests, C!Accept(q) PROVE Kept
    <2>1. statusNow[q] = "new" /\ statusNow' = [statusNow EXCEPT ![q] = "accepted"] /\ work' = work
        BY <1>1 DEF C!Accept, statusNow
    <2> QED
        BY <1>t, <2>1, PromiseOfOne DEF C!Answers
<1>2. ASSUME NEW q \in Requests, C!Refuse(q) PROVE Kept
    <2>1. statusNow[q] = "new" /\ statusNow' = [statusNow EXCEPT ![q] = "error"] /\ work' = work
        BY <1>2 DEF C!Refuse, statusNow
    <2> QED
        BY <1>t, <2>1, PromiseOfOne DEF C!Answers
<1>3. ASSUME NEW q \in Requests, C!Begin(q) PROVE Kept
    <2>1. work[q] = "none" /\ work' = [work EXCEPT ![q] = "running"] /\ statusNow' = statusNow
        BY <1>3 DEF C!Begin, statusNow
    <2> QED
        BY <1>t, <2>1, PromiseOfOne
<1>4. ASSUME NEW q \in Requests, NEW o \in {"computed", "failed", "aborted"}, C!End(q, o) PROVE Kept
    <2>1. work[q] = "running" /\ work' = [work EXCEPT ![q] = o] /\ statusNow' = statusNow
        BY <1>4 DEF C!End, statusNow
    <2> QED
        BY <1>t, <2>1, PromiseOfOne
<1>5. ASSUME NEW q \in Requests, NEW a \in C!Answers, C!Answer(q, a) PROVE Kept
    <2>1. /\ statusNow[q] = "accepted" /\ (a = "ok" => work[q] = "computed")
          /\ statusNow' = [statusNow EXCEPT ![q] = a] /\ work' = work
        BY <1>5 DEF C!Answer, statusNow
    <2> QED
        BY <1>t, <2>1, PromiseOfOne DEF C!Answers
<1>6. ASSUME NEW clients \in SUBSET Requests, NEW inferences \in SUBSET Requests,
             C!Outage(clients, inferences)
      PROVE  Kept
    <2>1. /\ \A r \in clients : statusNow[r] = "accepted"
          /\ \A r \in inferences : work[r] = "running"
          /\ statusNow' = [r \in Requests |-> IF r \in clients THEN "lost" ELSE statusNow[r]]
          /\ work' = [r \in Requests |-> IF r \in inferences THEN "aborted" ELSE work[r]]
        BY <1>6 DEF C!Outage, statusNow
    <2>2. StatusTypes'
        BY <1>t, <2>1 DEF StatusTypes, C!Answers
    <2>3. OkNow'
        BY <1>t, <2>1 DEF OkNow
    <2>4. StandsAndOnce
        BY <1>t, <2>1 DEF StandsAndOnce, C!Answers
    <2> QED
        BY <2>2, <2>3, <2>4
<1>7. ASSUME UNCHANGED C!cvars PROVE Kept
    <2>1. statusNow' = statusNow /\ work' = work
        BY <1>7 DEF C!cvars, statusNow
    <2> QED
        BY <2>1 DEF StatusTypes, OkNow, StandsAndOnce
<1> HIDE DEF Kept
<1>8. Kept
    <2>1. CASE \E clients, inferences \in SUBSET Requests : C!Outage(clients, inferences)
        BY <1>6, <2>1
    <2>2. CASE \E q \in Requests : \/ C!Accept(q) \/ C!Refuse(q) \/ C!Begin(q)
                                   \/ \E o \in {"computed", "failed", "aborted"} : C!End(q, o)
                                   \/ \E a \in C!Answers : C!Answer(q, a)
        BY <1>1, <1>2, <1>3, <1>4, <1>5, <2>2
    <2> QED
        BY <1>7, <2>1, <2>2, Zenon DEF C!Next
<1> QED
    BY <1>8 DEF Kept

\* Through timeouts, failing workers, crashes and restarts: "ok"
\* means computed for this request, the first answer stands, and the model runs a
\* prompt once.
THEOREM WhatClientsAreTold ==
    ASSUME Resent = {}
    PROVE  Spec => /\ []OkIsComputed
                   /\ [][AnswersStand /\ RunsOnce]_<<statusNow, work>>
<1> DEFINE Said == StatusTypes /\ OkNow
<1>1. C!Init => Said
    BY DEF C!Init, StatusTypes, OkNow, statusNow
<1>2. Said /\ [C!Next]_C!cvars => Said'
    BY PromiseStep
<1>3. Said => OkIsComputed
    BY DEF OkNow, OkIsComputed, statusNow
<1>4. Said /\ [C!Next]_C!cvars => [AnswersStand /\ RunsOnce]_<<statusNow, work>>
    <2> SUFFICES ASSUME Said, [C!Next]_C!cvars PROVE AnswersStand /\ RunsOnce
        OBVIOUS
    <2>1. StandsAndOnce
        BY PromiseStep
    <2> QED
        BY <2>1 DEF StandsAndOnce, AnswersStand, RunsOnce, statusNow
<1> HIDE DEF Said
<1> QED
    BY <1>1, <1>2, <1>3, <1>4, PoolImplementsCompletions, PTL DEF KeepsPromise, C!Spec

(***************************************************************************)
(* A single instance forgets nobody.                                       *)
(***************************************************************************)

Placed(r) ==
    handler[r] \in {"added", "readded", "waiting"} /\ future[r] = "pending" =>
        r \in queue \/ (\E k \in Workers : item[k] = r) \/ up[Home[r]] = "stopping"

\* A request stays placed while no step of its handler puts it on its way and
\* nothing takes it from where it is.
LEMMA StaysPlaced ==
    ASSUME NEW q, Placed(q),
           handler'[q] \in {"added", "readded", "waiting"} => handler[q] \in {"added", "readded", "waiting"},
           future'[q] = "pending" => future[q] = "pending",
           q \in queue => q \in queue',
           \A k \in Workers : item[k] = q => item'[k] = q,
           up[Home[q]] = "stopping" => up'[Home[q]] = "stopping"
    PROVE  Placed(q)'
BY DEF Placed

\* With one instance and no lost commands every step keeps all requests placed:
\* what a worker drops it cannot own, and what it owns it answers.
LEMMA NextPlaced ==
    ASSUME \A i, j \in Instances : i = j, RedisFaults = FALSE,
           TypeInv, Registry, [Next]_vars, \A q \in Requests : Placed(q)
    PROVE  \A q \in Requests : Placed(q)'
<1> SUFFICES ASSUME NEW q \in Requests PROVE Placed(q)'
    OBVIOUS
<1>t. /\ handler \in [Requests -> HandlerState]
      /\ future \in [Requests -> FutureState]
      /\ item \in [Workers -> Requests \cup {NoRequest}]
      /\ queue \subseteq Requests
      /\ up \in [Instances -> {"up", "stopping", "down"}]
      /\ NoRequest \notin Requests
      /\ Home[q] \in Instances /\ \A k \in Workers : Host[k] \in Instances
      /\ Placed(q) /\ Entry(q)
    BY WorkerPoolAssumption DEF TypeInv, TypeOK, Registry
<1>1. ASSUME NEW r \in Requests, HandlerStep(r) PROVE Placed(q)'
    <2>1. item' = item /\ up' = up
        BY <1>1 DEF HandlerStep, Submit, Zadd, ZaddAgain, Enqueued, EnqueueRaises, Refuse,
                    Timeout, AnswerTimeout, Answer
    <2>2. CASE Zadd(r) \/ ZaddAgain(r)
        BY <1>t, <2>1, <2>2 DEF Zadd, ZaddAgain, Placed
    <2>3. CASE Submit(r)
        BY <1>t, <2>1, <2>3 DEF Submit, Placed
    <2>4. CASE Enqueued(r) \/ EnqueueRaises(r) \/ Refuse(r)
               \/ Timeout(r) \/ AnswerTimeout(r) \/ Answer(r)
        <3>1. /\ queue' = queue
              /\ handler'[q] \in {"added", "readded", "waiting"}
                    => handler[q] \in {"added", "readded", "waiting"}
              /\ future'[q] = "pending" => future[q] = "pending"
            BY <1>t, <2>4 DEF Enqueued, EnqueueRaises, Refuse, Timeout, AnswerTimeout,
                              Answer, CancelRequest
        <3> QED
            BY <1>t, <2>1, <3>1, StaysPlaced
    <2> QED
        BY <1>1, <2>2, <2>3, <2>4 DEF HandlerStep
<1>2. ASSUME NEW k \in Workers, WorkerStep(k) PROVE Placed(q)'
    <2>1. handler' = handler /\ up' = up
        BY <1>2 DEF WorkerStep, PollEmpty, vars, Pop, PopReplyLost, DropOrphan, RejectOpen,
                    StartInference, InferenceSucceeds, InferenceFails, WorkerExits
    <2>2. CASE PollEmpty(k) \/ StartInference(k)
        BY <1>t, <2>1, <2>2, StaysPlaced DEF PollEmpty, vars, StartInference
    <2>3. CASE Pop(k)
        <3>1. PICK r \in queue : queue' = queue \ {r} /\ item' = [item EXCEPT ![k] = r]
            BY <2>3 DEF Pop, Lowest
        <3>2. item[k] = NoRequest /\ future' = future
            BY <2>3 DEF Pop, TypeInv
        <3> QED
            BY <1>t, <2>1, <3>1, <3>2 DEF Placed
    <2>4. CASE PopReplyLost(k)
        BY <1>2, <2>4 DEF PopReplyLost
    <2>5. CASE WorkerExits(k)
        <3>1. up[Home[q]] = "stopping"
            BY <1>t, <2>5, <1>2 DEF WorkerExits
        <3> QED
            BY <2>1, <3>1 DEF Placed
    <2>6. ASSUME UNCHANGED queue, item' = [item EXCEPT ![k] = NoRequest],
                 future'[q] = "pending" => future[q] = "pending",
                 item[k] = q /\ handler[q] \in Awaiting => future'[q] # "pending"
          PROVE  Placed(q)'
        <3>1. CASE item[k] = q /\ handler[q] \in Awaiting
            BY <2>6, <3>1 DEF Placed
        <3>2. CASE item[k] = q /\ handler[q] \notin Awaiting
            BY <2>1, <3>2 DEF Placed
        <3>3. CASE item[k] # q
            <4>1. \A j \in Workers : item[j] = q => item'[j] = q
                BY <1>t, <2>6, <3>3
            <4> QED
                BY <1>t, <2>1, <2>6, <4>1, StaysPlaced
        <3> QED
            BY <3>1, <3>2, <3>3
    <2>7. ASSUME item[k] = q, handler[q] \in Awaiting, future[q] = "pending" PROVE Owns(k, q)
        BY <1>t, <1>2, <2>7 DEF Entry, Owns
    <2>8. CASE DropOrphan(k)
        BY <2>6, <2>7, <2>8 DEF DropOrphan, Poll
    <2>9. CASE RejectOpen(k) \/ InferenceSucceeds(k) \/ InferenceFails(k)
        <3>1. PICK how \in Resolution : Resolve(k, item[k], how)
            BY <2>9 DEF RejectOpen, InferenceSucceeds, InferenceFails
        <3>2. /\ future'[q] = "pending" => future[q] = "pending"
              /\ item[k] = q /\ handler[q] \in Awaiting => future'[q] # "pending"
            BY <1>t, <2>7, <3>1 DEF Resolve
        <3>3. UNCHANGED queue /\ item' = [item EXCEPT ![k] = NoRequest]
            BY <2>9 DEF RejectOpen, InferenceSucceeds, InferenceFails, Poll
        <3> QED
            BY <2>6, <3>2, <3>3
    <2> QED
        BY <1>2, <2>2, <2>3, <2>4, <2>5, <2>8, <2>9 DEF WorkerStep
<1>3. ASSUME NEW i \in Instances, InstanceStep(i) PROVE Placed(q)'
    <2>1. CASE Stop(i) \/ Tick(i)
        <3>1. /\ handler' = handler /\ future' = future /\ queue' = queue /\ item' = item
              /\ up[Home[q]] = "stopping" => up'[Home[q]] = "stopping"
            BY <1>t, <2>1 DEF Stop, Tick
        <3> QED
            BY <1>t, <3>1, StaysPlaced
    <2>2. CASE StopFinishes(i)
        <3>1. handler' = handler /\ (handler[q] \in Awaiting => future'[q] # "pending")
            BY <1>t, <1>3, <2>2 DEF StopFinishes, Entry
        <3> QED
            BY <3>1 DEF Placed
    <2>3. CASE Crash(i) \/ Start(i)
        <3>1. handler'[q] \notin Awaiting
            BY <1>t, <1>3, <2>3 DEF Crash, Start
        <3> QED
            BY <3>1 DEF Placed
    <2> QED
        BY <1>3, <2>1, <2>2, <2>3 DEF InstanceStep
<1>4. CASE UNCHANGED vars
    BY <1>4, <1>t, StaysPlaced DEF vars
<1> QED
    BY <1>1, <1>2, <1>3, <1>4 DEF Next

\* With one instance and no lost Redis command, a client that waits has its
\* request in the queue or with a worker, or the instance is stopping, also when
\* the ZADD is repeated.
THEOREM OneInstanceForgetsNobody ==
    ASSUME \A i, j \in Instances : i = j, RedisFaults = FALSE
    PROVE  Spec => []NotForgotten
<1> DEFINE AllPlaced == \A q \in Requests : Placed(q)
<1>1. Init => AllPlaced
    BY DEF Init, Placed
<1>2. TypeInv /\ Registry /\ AllPlaced /\ [Next]_vars => AllPlaced'
    BY NextPlaced
<1>3. TypeInv /\ AllPlaced => NotForgotten
    BY WorkerPoolAssumption DEF TypeInv, TypeOK, Placed, NotForgotten
<1> QED
    BY <1>1, <1>2, <1>3, RegistryInvariant, PTL DEF Spec
=============================================================================
