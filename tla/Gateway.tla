------------------------------- MODULE Gateway -------------------------------
(***************************************************************************)
(* What a request goes through before its route: the load shedder          *)
(* (middleware/load_shedder.py), then the rate limiter                     *)
(* (middleware/rate_limit.py, queue/rate_limiter.py), then the routes that *)
(* matter here: a completion enters the priority queue, /health asks Redis *)
(* and the breaker, /ready asks the lifecycle and the model managers.  All *)
(* of it talks to one Redis, which may stop and come back without its      *)
(* script cache, with the data of its last snapshot or with none.          *)
(*                                                                         *)
(* An action is the code between two awaits.  A handler that has answered, *)
(* or put its request into the queue, is free for the next request: what   *)
(* becomes of a queued one is WorkerPool's matter.                         *)
(***************************************************************************)
EXTENDS TokenBucket, FiniteSets

CONSTANTS
    Handlers,       \* requests in front of their route at the same time
    MaxDepth,       \* max_queue_depth
    MaxTime,        \* bound of the clock
    MaxSaved,       \* bound of the depth in a snapshot
    Outages,        \* whether Redis stops and restarts
    LostReplies     \* whether the reply of a script may be lost

ASSUME GatewayAssumption ==
    /\ IsFiniteSet(Handlers) /\ Handlers # {}
    /\ MaxDepth \in Nat
    /\ MaxTime \in Nat
    /\ MaxSaved \in Nat
    /\ {Outages, LostReplies} \subseteq BOOLEAN

VARIABLES
    pc,         \* where a handler is
    kind,       \* the route it serves
    stamp,      \* the time.time() it sends to the script
    answer,     \* the last answer of a handler
    sha,        \* whether _script_sha is set
    script,     \* whether Redis has the script
    redis,      \* whether Redis is reachable
    bucket,     \* the token bucket; the requests of one API key share it
    depth,      \* ZCARD of the queue
    saved,      \* the last snapshot of Redis: its data, and their history
    shutting,   \* _shutting_down of the lifecycle manager
    clock,
    granted,    \* history: tokens taken since the bucket was created,
    birth,      \* the stamp it was created with,
    promise     \* and the earliest time a refused client was told to come back

handlerVars == <<pc, kind, stamp, answer>>
limiterVars == <<bucket, granted, birth, promise>>
vars == <<handlerVars, limiterVars, sha, script, redis, depth, saved, shutting, clock>>

Kind == {"work", "health", "ready"}
\* Past the load shedder, not yet answered or queued.
Admitted == {"limiting", "loading", "consuming", "routing", "counting"}
Answer == {"none", "queued", "200", "429", "500", "503"}
Never == MaxTime + 1
NoData == [bucket |-> NoBucket, granted |-> 0, birth |-> 0, depth |-> 0]

TypeOK ==
    /\ pc \in [Handlers -> {"idle", "shedding"} \cup Admitted]
    /\ kind \in [Handlers -> Kind \cup {"none"}]
    /\ stamp \in [Handlers -> 0 .. MaxTime]
    /\ answer \in [Handlers -> Answer]
    /\ {sha, script, redis, shutting} \subseteq BOOLEAN
    /\ bucket \in Buckets
    /\ depth \in Nat
    /\ saved \in [bucket : Buckets, granted : Nat, birth : 0 .. MaxTime, depth : Nat]
    /\ clock \in 0 .. MaxTime
    /\ granted \in Nat
    /\ birth \in 0 .. MaxTime
    /\ promise \in Nat

Init ==
    /\ pc = [h \in Handlers |-> "idle"]
    /\ kind = [h \in Handlers |-> "none"]
    /\ stamp = [h \in Handlers |-> 0]
    /\ answer = [h \in Handlers |-> "none"]
    /\ sha = FALSE
    /\ script = FALSE
    /\ redis = TRUE
    /\ bucket = NoBucket
    /\ depth = 0
    /\ saved = NoData
    /\ shutting = FALSE
    /\ clock = 0
    /\ granted = 0
    /\ birth = 0
    /\ promise = Never

-----------------------------------------------------------------------------
(***************************************************************************)
(* The handler is done with a request.                                     *)
(***************************************************************************)
Respond(h, a) ==
    /\ pc' = [pc EXCEPT ![h] = "idle"]
    /\ kind' = [kind EXCEPT ![h] = "none"]
    /\ stamp' = [stamp EXCEPT ![h] = 0]
    /\ answer' = [answer EXCEPT ![h] = a]

Goto(h, place) ==
    /\ pc' = [pc EXCEPT ![h] = place]
    /\ stamp' = [stamp EXCEPT ![h] = 0]
    /\ UNCHANGED <<kind, answer>>

\* EVALSHA, with the time of its sending.
SendScript(h) ==
    /\ pc' = [pc EXCEPT ![h] = "consuming"]
    /\ stamp' = [stamp EXCEPT ![h] = clock]
    /\ UNCHANGED <<kind, answer>>

\* /health is the one modelled route that bypasses the load shedder.
Receive(h, k) ==
    /\ pc[h] = "idle"
    /\ pc' = [pc EXCEPT ![h] = IF k = "health" THEN "limiting" ELSE "shedding"]
    /\ kind' = [kind EXCEPT ![h] = k]
    /\ answer' = [answer EXCEPT ![h] = "none"]
    /\ UNCHANGED <<stamp, limiterVars, sha, script, redis, depth, saved, shutting, clock>>

-----------------------------------------------------------------------------
(***************************************************************************)
(* LoadShedderMiddleware.dispatch: the reply of ZCARD.                     *)
(***************************************************************************)

\* A slip: one request too deep.
ShedTooDeep(h) ==
    /\ pc[h] = "shedding" /\ redis
    /\ IF depth > MaxDepth THEN Respond(h, "503") ELSE Goto(h, "limiting")
    /\ UNCHANGED <<limiterVars, sha, script, redis, depth, saved, shutting, clock>>

Shed(h) ==
    /\ pc[h] = "shedding" /\ redis
    /\ IF depth >= MaxDepth THEN Respond(h, "503") ELSE Goto(h, "limiting")
    /\ UNCHANGED <<limiterVars, sha, script, redis, depth, saved, shutting, clock>>

\* Unlike the limiter, the shedder does not catch: the error handler answers.
ShedRaises(h) ==
    /\ pc[h] = "shedding" /\ ~redis
    /\ Respond(h, "500")
    /\ UNCHANGED <<limiterVars, sha, script, redis, depth, saved, shutting, clock>>

-----------------------------------------------------------------------------
(***************************************************************************)
(* RateLimitMiddleware.dispatch and try_consume.                           *)
(***************************************************************************)

\* _ensure_script_loaded looks for the cached hash only; with it, time.time() is
\* read and EVALSHA sent.
Begin(h) ==
    /\ pc[h] = "limiting"
    /\ IF sha THEN SendScript(h) ELSE Goto(h, "loading")
    /\ UNCHANGED <<limiterVars, sha, script, redis, depth, saved, shutting, clock>>

\* SCRIPT LOAD.
Load(h) ==
    /\ pc[h] = "loading" /\ redis
    /\ SendScript(h)
    /\ sha' = TRUE
    /\ script' = TRUE
    /\ UNCHANGED <<limiterVars, redis, depth, saved, shutting, clock>>

\* The script runs for h.
RunScript(h) ==
    /\ bucket' = Consumed(bucket, stamp[h], clock)
    /\ birth' = IF bucket = NoBucket THEN stamp[h] ELSE birth
    /\ granted' = IF Allowed(bucket, stamp[h]) THEN granted + 1 ELSE granted

Grant(h) ==
    /\ pc[h] = "consuming" /\ redis /\ script
    /\ Allowed(bucket, stamp[h])
    /\ RunScript(h)
    /\ promise' = Never
    /\ Goto(h, "routing")
    /\ UNCHANGED <<sha, script, redis, depth, saved, shutting, clock>>

\* 429 with the Retry-After header.
Deny(h) ==
    /\ pc[h] = "consuming" /\ redis /\ script
    /\ ~Allowed(bucket, stamp[h])
    /\ RunScript(h)
    /\ LET due == clock + RetryAfter(bucket'.tokens)
       IN  promise' = IF due < promise THEN due ELSE promise
    /\ Respond(h, "429")
    /\ UNCHANGED <<sha, script, redis, depth, saved, shutting, clock>>

\* The script ran, its reply is lost: the Redis library sends it again, with the
\* same stamp, or gives up, and then the limiter fails open.
ReplyLost(h) ==
    /\ LostReplies
    /\ pc[h] = "consuming" /\ redis /\ script
    /\ RunScript(h)
    /\ promise' = IF Allowed(bucket, stamp[h]) THEN Never ELSE promise
    /\ \/ Goto(h, "routing")
       \/ UNCHANGED handlerVars
    /\ UNCHANGED <<sha, script, redis, depth, saved, shutting, clock>>

\* Any exception lets the request pass: Redis is not reachable, or it has no
\* script of that hash.
FailOpen(h) ==
    /\ \/ pc[h] \in {"loading", "consuming"} /\ ~redis
       \/ pc[h] = "consuming" /\ ~script
    /\ Goto(h, "routing")
    /\ UNCHANGED <<limiterVars, sha, script, redis, depth, saved, shutting, clock>>

-----------------------------------------------------------------------------
(***************************************************************************)
(* The routes.                                                             *)
(***************************************************************************)

\* create_completion: the ZADD is applied.
Enqueue(h) ==
    /\ pc[h] = "routing" /\ kind[h] = "work" /\ redis
    /\ Respond(h, "queued")
    /\ depth' = depth + 1
    /\ UNCHANGED <<limiterVars, sha, script, redis, saved, shutting, clock>>

\* create_completion without Redis, or refused for another reason.
Refuse(h) ==
    /\ pc[h] = "routing" /\ kind[h] = "work"
    /\ \/ ~redis /\ Respond(h, "500")
       \/ Respond(h, "503")
    /\ UNCHANGED <<limiterVars, sha, script, redis, depth, saved, shutting, clock>>

\* health_check of the client: PING, whose failure is caught and makes a
\* "degraded" of a "healthy", both of status 200.
Ping(h) ==
    /\ pc[h] = "routing" /\ kind[h] = "health"
    /\ Goto(h, "counting")
    /\ UNCHANGED <<limiterVars, sha, script, redis, depth, saved, shutting, clock>>

\* queue_depth: ZCARD, whose failure is not caught.
Health(h) ==
    /\ pc[h] = "counting"
    /\ IF redis
       THEN \E cbState \in {"CLOSED", "OPEN", "HALF_OPEN"}, isLoaded \in BOOLEAN :
               Respond(h, IF cbState = "OPEN" \/ ~isLoaded THEN "503" ELSE "200")
       ELSE Respond(h, "500")
    /\ UNCHANGED <<limiterVars, sha, script, redis, depth, saved, shutting, clock>>

Ready(h) ==
    /\ pc[h] = "routing" /\ kind[h] = "ready"
    /\ \E isLoaded \in BOOLEAN :
          Respond(h, IF shutting \/ ~isLoaded THEN "503" ELSE "200")
    /\ UNCHANGED <<limiterVars, sha, script, redis, depth, saved, shutting, clock>>

-----------------------------------------------------------------------------
(***************************************************************************)
(* The environment.                                                        *)
(***************************************************************************)

\* The bucket is gone, and with it its history.
NoMoreBucket ==
    /\ bucket' = NoBucket
    /\ granted' = 0
    /\ birth' = 0

\* A worker takes a request from the queue.
Dequeue ==
    /\ redis /\ depth > 0
    /\ depth' = depth - 1
    /\ UNCHANGED <<handlerVars, limiterVars, sha, script, redis, saved, shutting, clock>>

\* Redis writes a snapshot: from time to time, and when it is told to stop.
Save ==
    /\ Outages /\ redis /\ depth <= MaxSaved
    /\ saved' = [bucket |-> bucket, granted |-> granted, birth |-> birth, depth |-> depth]
    /\ UNCHANGED <<handlerVars, limiterVars, sha, script, redis, depth, shutting, clock>>

RedisStops ==
    /\ Outages /\ redis
    /\ redis' = FALSE
    /\ UNCHANGED <<handlerVars, limiterVars, sha, script, depth, saved, shutting, clock>>

\* Scripts are never persisted.  The data are those of the last snapshot, without a
\* key that has expired since, or there is none.
RedisStarts ==
    /\ ~redis
    /\ redis' = TRUE
    /\ script' = FALSE
    /\ saved' \in {saved, NoData}
    /\ depth' = saved'.depth
    /\ IF clock >= saved'.bucket.expires THEN NoMoreBucket
       ELSE /\ bucket' = saved'.bucket
            /\ granted' = saved'.granted
            /\ birth' = saved'.birth
    /\ UNCHANGED <<handlerVars, promise, sha, shutting, clock>>

\* _handle_signal.
Signal ==
    /\ ~shutting
    /\ shutting' = TRUE
    /\ UNCHANGED <<handlerVars, limiterVars, sha, script, redis, depth, saved, clock>>

\* A second passes; Redis drops a bucket nobody has used for its TTL.
Tick ==
    /\ clock < MaxTime
    /\ clock' = clock + 1
    /\ IF clock' >= bucket.expires THEN NoMoreBucket
       ELSE UNCHANGED <<bucket, granted, birth>>
    /\ UNCHANGED <<handlerVars, promise, sha, script, redis, depth, saved, shutting>>

-----------------------------------------------------------------------------
Middleware(h) ==
    \/ Shed(h) \/ ShedRaises(h)
    \/ Begin(h) \/ Load(h) \/ Grant(h) \/ Deny(h) \/ FailOpen(h)

Route(h) == Enqueue(h) \/ Refuse(h) \/ Ping(h) \/ Health(h) \/ Ready(h)

Environment == Dequeue \/ Save \/ RedisStops \/ RedisStarts \/ Signal \/ Tick

Next ==
    \/ \E h \in Handlers :
          \/ \E k \in Kind : Receive(h, k)
          \/ Middleware(h) \/ ReplyLost(h) \/ Route(h)
    \/ Environment

Spec == Init /\ [][Next]_vars

-----------------------------------------------------------------------------
(***************************************************************************)
(* Properties.                                                             *)
(***************************************************************************)

Passed == {h \in Handlers : kind[h] = "work" /\ pc[h] \in Admitted}

\* The depth is read before the limiter and before the ZADD: the queue exceeds
\* max_queue_depth by what is on its way at the same time and no further, also
\* when the limiter fails open and when Redis comes back.  Only a snapshot that was
\* deeper puts back what the workers took since.
DepthBounded ==
    LET limit == IF saved.depth >= MaxDepth THEN saved.depth + 1 ELSE MaxDepth
    IN  depth + Cardinality(Passed) < limit + Cardinality(Handlers)

\* A bucket never gives more tokens than its size and what was refilled since it
\* was created: neither with scripts that run in another order than their stamps,
\* nor with scripts that run twice.
GrantsWithinBudget == granted * Unit <= Full + Rate * (clock - birth)

\* A refused client that waits as long as it was told finds a token, unless
\* somebody else was given one since: stale stamps, other refused clients and an
\* expired bucket do not take it away.
RetryAfterSuffices ==
    clock >= promise => Refilled(bucket, clock) >= Unit

\* Redis drops a bucket only when it would be full again: a key that expires
\* gives nobody a token that waiting would not have given.
ExpiryGivesNothing ==
    [][bucket # NoBucket /\ bucket' = NoBucket /\ clock' > clock
          => Refilled(bucket, clock') = Full]_vars

\* queue/rate_limiter.py:190: the limiter fails open if Redis is unavailable.
FailsOpenOnlyWithoutRedis ==
    [][\A h \in Handlers : FailOpen(h) => ~redis]_vars
=============================================================================
