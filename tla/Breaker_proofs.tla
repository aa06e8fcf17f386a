---------------------------- MODULE Breaker_proofs ----------------------------
(***************************************************************************)
(* What the operators of Breaker preserve, for every threshold, slot limit *)
(* and recovery time.  Cited by the proofs about the components that own a *)
(* breaker.                                                                *)
(***************************************************************************)
EXTENDS Breaker, TLAPS

USE DEF CircuitState

(***************************************************************************)
(* The operators of Breaker map breakers to breakers, and keep the state   *)
(* CLOSED in step with the failure count.                                  *)
(***************************************************************************)

\* What both parts of a breaker record promise together: the count below the
\* threshold exactly in CLOSED, slots only in HALF_OPEN.
BreakerInv(b) ==
    /\ b \in Breakers
    /\ b.state = "CLOSED" <=> b.failureCount < FailureThreshold
    /\ b.state # "HALF_OPEN" => b.halfOpenCalls = 0

\* A new or reset breaker (__init__, reset) is a good one.
LEMMA NewBreakerGood == BreakerInv(NewBreaker)
BY BreakerAssumption DEF BreakerInv, Breakers, NewBreaker

\* allow_request keeps a good breaker good.
LEMMA AllowGood ==
    ASSUME NEW b, BreakerInv(b)
    PROVE  BreakerInv(AfterAllowRequest(b))
<1> DEFINE h == EnterHalfOpen(b)
<1>1. ASSUME ObservedState(b) = "HALF_OPEN"
      PROVE  h \in Breakers /\ h.state = "HALF_OPEN" /\ h.failureCount = b.failureCount
             /\ b.failureCount >= FailureThreshold
    BY <1>1, BreakerAssumption DEF BreakerInv, Breakers, ObservedState, EnterHalfOpen
<1>2. CASE ObservedState(b) # "HALF_OPEN"
    BY <1>2 DEF AfterAllowRequest
<1>3. CASE ObservedState(b) = "HALF_OPEN" /\ Allows(b)
    <2>1. AfterAllowRequest(b) = [h EXCEPT !.halfOpenCalls = h.halfOpenCalls + 1]
        BY <1>3 DEF AfterAllowRequest
    <2>2. h.halfOpenCalls < HalfOpenMaxCalls
        BY <1>3 DEF Allows
    <2> HIDE DEF h
    <2> QED
        BY <1>1, <1>3, <2>1, <2>2, BreakerAssumption DEF BreakerInv, Breakers
<1>4. CASE ObservedState(b) = "HALF_OPEN" /\ ~Allows(b)
    <2>1. AfterAllowRequest(b) = h
        BY <1>4 DEF AfterAllowRequest
    <2> HIDE DEF h
    <2> QED
        BY <1>1, <1>4, <2>1, BreakerAssumption DEF BreakerInv, Breakers
<1> QED
    BY <1>2, <1>3, <1>4

\* record_success keeps a good breaker good.
LEMMA SuccessGood ==
    ASSUME NEW b, BreakerInv(b)
    PROVE  BreakerInv(AfterSuccess(b))
BY BreakerAssumption DEF BreakerInv, Breakers, AfterSuccess

\* record_failure keeps a good breaker good, in every state it may meet.
LEMMA FailureGood ==
    ASSUME NEW b, BreakerInv(b)
    PROVE  BreakerInv(AfterFailure(b))
BY BreakerAssumption DEF BreakerInv, Breakers, AfterFailure

\* The passage of time keeps a good breaker good.
LEMMA TickGood ==
    ASSUME NEW b, BreakerInv(b)
    PROVE  BreakerInv(AfterTick(b))
BY BreakerAssumption DEF BreakerInv, Breakers, AfterTick
=============================================================================
