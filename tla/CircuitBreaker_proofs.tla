------------------------- MODULE CircuitBreaker_proofs -------------------------
(***************************************************************************)
(* Proofs about CircuitBreaker, for every set of callers, threshold, slot  *)
(* limit and recovery time.                                                *)
(***************************************************************************)
EXTENDS CircuitBreaker, Breaker_proofs, FiniteSetTheorems

USE DEF CircuitState, CallState

(***************************************************************************)
(* The inductive invariant: a good breaker, whose slots are exactly the    *)
(* calls that hold one.  Outside HALF_OPEN there must be no probe at all,  *)
(* or the period that starts next would count from the wrong number.       *)
(***************************************************************************)
Inv ==
    /\ TypeOK
    /\ BreakerInv(breaker)
    /\ breaker.halfOpenCalls = Cardinality(InState("probe"))
    /\ breaker.state # "HALF_OPEN" => InState("probe") = {}
    /\ breaker.state = "HALF_OPEN" => breaker.halfOpenCalls > 0

\* Any set of callers in one state is finite, so its size is a number.
LEMMA InStateFinite ==
    ASSUME NEW s
    PROVE  IsFiniteSet(InState(s)) /\ Cardinality(InState(s)) \in Nat
BY CallersAssumption, FS_Subset, FS_CardinalityType DEF InState

\* The breaker starts CLOSED, with no calls.
LEMMA InitInv == Init => Inv
<1> SUFFICES ASSUME Init PROVE Inv
    OBVIOUS
<1>1. InState("probe") = {}
    BY DEF Init, InState
<1>2. Cardinality(InState("probe")) = 0
    BY <1>1, FS_EmptySet
<1> QED
    BY <1>1, <1>2, NewBreakerGood DEF Init, Inv, TypeOK, BreakerInv, NewBreaker

\* Every report, of a probe or of an earlier call, ends the half-open period it
\* lands in, so no slot survives it.
LEMMA ReportInv ==
    ASSUME Inv, NEW c \in Callers, NEW b, BreakerInv(b), b.state # "HALF_OPEN",
           Report(c, b)
    PROVE  Inv'
<1>1. call' = Relabel([call EXCEPT ![c] = "idle"], b) /\ breaker' = b
      /\ UNCHANGED healthy
    BY DEF Report
<1>2. call' \in [Callers -> CallState]
    BY <1>1 DEF Inv, TypeOK, Relabel
<1>3. InState("probe")' = {}
    BY <1>1 DEF InState, Relabel, Inv, TypeOK
<1>4. Cardinality(InState("probe")') = 0
    BY <1>3, FS_EmptySet
<1> QED
    BY <1>1, <1>2, <1>3, <1>4 DEF Inv, TypeOK, BreakerInv, InState

\* An admitted probe takes exactly one slot; any other answer changes nothing.
LEMMA AllowInv ==
    ASSUME Inv, NEW c \in Callers, AllowRequest(c)
    PROVE  Inv'
<1> DEFINE probes == InState("probe")
<1>1. /\ call[c] = "idle" /\ c \notin probes
      /\ breaker' = AfterAllowRequest(breaker)
      /\ UNCHANGED healthy
    BY DEF AllowRequest, InState
<1>2. BreakerInv(breaker')
    BY <1>1, AllowGood DEF Inv
<1>3. call' \in [Callers -> CallState]
    BY DEF AllowRequest, Inv, TypeOK
<1>4. IsFiniteSet(probes) /\ Cardinality(probes) \in Nat
    BY InStateFinite
<1>5. CASE Allows(breaker) /\ breaker'.state = "HALF_OPEN"
    <2>1. InState("probe")' = probes \cup {c}
        BY <1>5, <1>1 DEF AllowRequest, InState, Inv, TypeOK
    <2>2. Cardinality(InState("probe")') = Cardinality(probes) + 1
        BY <2>1, <1>1, <1>4, FS_AddElement
    <2>3. breaker'.halfOpenCalls = breaker.halfOpenCalls + 1
        BY <1>5, <1>1, BreakerAssumption
           DEF AfterAllowRequest, Allows, ObservedState, EnterHalfOpen, Inv,
               BreakerInv, Breakers
    <2> QED
        BY <1>1, <1>2, <1>3, <1>5, <2>2, <2>3, <1>4 DEF Inv, TypeOK, BreakerInv, Breakers
<1>6. CASE ~(Allows(breaker) /\ breaker'.state = "HALF_OPEN")
    <2>1. InState("probe")' = probes
        BY <1>6, <1>1 DEF AllowRequest, InState, Inv, TypeOK
    <2>2. breaker' = breaker
        BY <1>6, <1>1, BreakerAssumption
           DEF AfterAllowRequest, Allows, ObservedState, EnterHalfOpen, Inv,
               BreakerInv, Breakers
    <2> QED
        BY <1>1, <1>2, <1>3, <2>1, <2>2 DEF Inv, TypeOK, BreakerInv
<1> QED
    BY <1>5, <1>6

\* Every step of a caller, of time and of reset() keeps the invariant.
LEMMA NextInv == Inv /\ [Next]_vars => Inv'
<1> SUFFICES ASSUME Inv, [Next]_vars PROVE Inv'
    OBVIOUS
<1>1. ASSUME NEW c \in Callers, AllowRequest(c) PROVE Inv'
    BY <1>1, AllowInv
<1>2. ASSUME NEW c \in Callers, RecordSuccess(c) PROVE Inv'
    <2>1. BreakerInv(AfterSuccess(breaker))
        BY SuccessGood DEF Inv
    <2>2. AfterSuccess(breaker).state # "HALF_OPEN"
        BY DEF AfterSuccess, Inv, BreakerInv, Breakers
    <2> QED
        BY <1>2, <2>1, <2>2, ReportInv DEF RecordSuccess
<1>3. ASSUME NEW c \in Callers, RecordFailure(c) PROVE Inv'
    <2>1. BreakerInv(AfterFailure(breaker))
        BY FailureGood DEF Inv
    <2>2. AfterFailure(breaker).state # "HALF_OPEN"
        BY DEF AfterFailure, Inv, BreakerInv, Breakers
    <2> QED
        BY <1>3, <2>1, <2>2, ReportInv DEF RecordFailure
<1>4. CASE Reset
    <2>1. /\ breaker' = NewBreaker
          /\ call' = Relabel(call, NewBreaker)
          /\ UNCHANGED healthy
        BY <1>4 DEF Reset
    <2>2. call' \in [Callers -> CallState]
        BY <2>1 DEF Relabel, Inv, TypeOK
    <2>3. InState("probe")' = {}
        BY <2>1 DEF InState, Relabel, NewBreaker
    <2>4. Cardinality(InState("probe")') = 0
        BY <2>3, FS_EmptySet
    <2> QED
        BY <2>1, <2>2, <2>3, <2>4, NewBreakerGood
           DEF Inv, TypeOK, BreakerInv, NewBreaker
<1>5. CASE Tick
    <2>1. /\ breaker' = AfterTick(breaker)
          /\ UNCHANGED <<call, healthy>>
          /\ InState("probe")' = InState("probe")
        BY <1>5 DEF Tick, InState
    <2>2. BreakerInv(breaker')
        BY <2>1, TickGood DEF Inv
    <2>3. /\ breaker'.state = breaker.state
          /\ breaker'.halfOpenCalls = breaker.halfOpenCalls
        BY <2>1 DEF AfterTick, Inv, BreakerInv, Breakers
    <2> QED
        BY <2>1, <2>2, <2>3 DEF Inv, TypeOK, BreakerInv
<1>6. CASE HealthChanges
    BY <1>6 DEF HealthChanges, Inv, TypeOK, BreakerInv, InState
<1>7. CASE UNCHANGED vars
    BY <1>7 DEF vars, Inv, TypeOK, BreakerInv, InState
<1> QED
    BY <1>1, <1>2, <1>3, <1>4, <1>5, <1>6, <1>7 DEF Next

\* Inv holds in every reachable state.
THEOREM Invariance == Spec => []Inv
BY InitInv, NextInv, PTL DEF Spec

\* The breaker, the callers and the environment keep their types.
THEOREM TypeCorrect == Spec => []TypeOK
<1>1. Inv => TypeOK
    BY DEF Inv
<1> QED
    BY <1>1, Invariance, PTL

\* CLOSED exactly below failure_threshold, whatever the order of late reports.
THEOREM ClosedIffBelowThreshold == Spec => []ClosedBelowThreshold
<1>1. Inv => ClosedBelowThreshold
    BY DEF Inv, BreakerInv, ClosedBelowThreshold
<1> QED
    BY <1>1, Invariance, PTL

\* _half_open_calls is the number of running calls that hold a slot of the
\* present half-open period.
THEOREM SlotsCountProbes == Spec => []SlotsAreRunningProbes
<1>1. Inv => SlotsAreRunningProbes
    BY DEF Inv, SlotsAreRunningProbes
<1> QED
    BY <1>1, Invariance, PTL

\* A half-open circuit always has a probe running that will end the period.
THEOREM NoOrphanedHalfOpen == Spec => []HalfOpenHasProbe
<1>1. Inv => HalfOpenHasProbe
    BY FS_EmptySet DEF Inv, HalfOpenHasProbe, BreakerInv, Breakers
<1> QED
    BY <1>1, Invariance, PTL
=============================================================================
