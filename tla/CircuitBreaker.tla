---------------------------- MODULE CircuitBreaker ----------------------------
(***************************************************************************)
(* A circuit breaker shared by concurrent callers that follow the protocol *)
(* of its class documentation (circuit_breaker.py:60-68): ask              *)
(* allow_request, run the inference, report the outcome.  The inference is *)
(* an await, so between the question and the report any number of calls of *)
(* other callers, and of time, may pass: a call may report into a circuit  *)
(* whose state is no longer the one it was admitted in.                    *)
(***************************************************************************)
EXTENDS Breaker, FiniteSets

CONSTANTS
    Callers,       \* tasks that call through the breaker (the workers)
    MaxFailures    \* bound of the model: failureCount never passes it

ASSUME CallersAssumption == IsFiniteSet(Callers) /\ MaxFailures \in Nat

VARIABLES
    breaker,       \* the CircuitBreaker object
    call,          \* what each caller is doing
    healthy        \* whether the model behind the breaker works (environment)

vars == <<breaker, call, healthy>>

\* "normal" was admitted by a CLOSED circuit, "probe" holds a slot of the
\* present half-open period, "stale" holds a slot of a period that is over.
\* The three labels are history: the code keeps none of them.
CallState == {"idle", "normal", "probe", "stale"}

TypeOK ==
    /\ breaker \in Breakers
    /\ call \in [Callers -> CallState]
    /\ healthy \in BOOLEAN

Init ==
    /\ breaker = NewBreaker
    /\ call = [c \in Callers |-> "idle"]
    /\ healthy = TRUE

InState(s) == {c \in Callers : call[c] = s}

\* The slots of a half-open period are void once the period is over.
Relabel(f, b) ==
    [c \in Callers |-> IF f[c] = "probe" /\ b.state # "HALF_OPEN"
                       THEN "stale" ELSE f[c]]

\* allow_request; a denied caller fails fast and is idle again.
AllowRequest(c) ==
    /\ call[c] = "idle"
    /\ breaker' = AfterAllowRequest(breaker)
    /\ call' = [call EXCEPT ![c] =
                    IF ~Allows(breaker) THEN "idle"
                    ELSE IF breaker'.state = "HALF_OPEN" THEN "probe" ELSE "normal"]
    /\ UNCHANGED healthy

Report(c, b) ==
    /\ call[c] # "idle"
    /\ breaker' = b
    /\ call' = Relabel([call EXCEPT ![c] = "idle"], b)
    /\ UNCHANGED healthy

RecordSuccess(c) == Report(c, AfterSuccess(breaker))

RecordFailure(c) ==
    /\ ~healthy
    /\ breaker.failureCount < MaxFailures
    /\ Report(c, AfterFailure(breaker))

\* reset(), the administrative entry.
Reset ==
    /\ breaker' = NewBreaker
    /\ call' = Relabel(call, NewBreaker)
    /\ UNCHANGED healthy

Tick ==
    /\ breaker.elapsed < RecoveryTimeout
    /\ breaker' = AfterTick(breaker)
    /\ UNCHANGED <<call, healthy>>

\* The model behind the breaker fails or recovers.
HealthChanges ==
    /\ healthy' = ~healthy
    /\ UNCHANGED <<breaker, call>>

Next ==
    \/ \E c \in Callers : AllowRequest(c) \/ RecordSuccess(c) \/ RecordFailure(c)
    \/ Reset
    \/ Tick
    \/ HealthChanges

Spec == Init /\ [][Next]_vars

\* Time passes, requests keep coming and every inference ends.
Fairness ==
    /\ WF_vars(Tick)
    /\ \A c \in Callers : /\ WF_vars(AllowRequest(c))
                          /\ WF_vars(RecordSuccess(c) \/ RecordFailure(c))

FairSpec == Spec /\ Fairness

-----------------------------------------------------------------------------
(***************************************************************************)
(* Safety.                                                                 *)
(***************************************************************************)

\* The circuit is CLOSED exactly when fewer than failure_threshold failures
\* have been counted: no order of late reports leaves a tripped count behind
\* a CLOSED circuit or an OPEN circuit without the count that tripped it
\* (record_success and record_failure, which keep state and count apart).
ClosedBelowThreshold ==
    breaker.state = "CLOSED" <=> breaker.failureCount < FailureThreshold

\* _half_open_calls counts the calls of the present half-open period that are
\* still running, however many late reports of earlier calls arrive: no slot
\* leaks into the next period and none is given twice.
SlotsAreRunningProbes ==
    breaker.halfOpenCalls = Cardinality(InState("probe"))

\* A HALF_OPEN circuit has a probe running whose report will end the period:
\* the breaker cannot be left denying everything with nobody to close it
\* (allow_request is the only step into HALF_OPEN and takes a slot with it).
HalfOpenHasProbe ==
    breaker.state = "HALF_OPEN" => InState("probe") # {}

-----------------------------------------------------------------------------
(***************************************************************************)
(* Liveness.                                                               *)
(***************************************************************************)

\* Once the model works for good, the circuit closes and stays closed: no
\* late failure, lost slot or unfinished probe can hold it open (the recovery
\* cycle OPEN -> HALF_OPEN -> CLOSED without any background timer).
ClosesAfterRecovery ==
    <>[]healthy => <>[](breaker.state = "CLOSED")

\* A half-open period always ends, whether or not the model works.
HalfOpenEnds ==
    breaker.state = "HALF_OPEN" ~> breaker.state # "HALF_OPEN"

-----------------------------------------------------------------------------
(***************************************************************************)
(* What the documentation says and concurrent callers refute.              *)
(***************************************************************************)

\* circuit_breaker.py:118, "Allows up to half_open_max_calls concurrent
\* probes": probes of an earlier period may still be running.
ConcurrentProbesBounded ==
    Cardinality(InState("probe") \cup InState("stale")) <= HalfOpenMaxCalls

=============================================================================
