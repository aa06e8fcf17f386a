------------------------------- MODULE Breaker -------------------------------
(***************************************************************************)
(* The circuit breaker of core/circuit_breaker.py as pure operators on a   *)
(* record.  None of its methods suspends: the asyncio.Lock is only ever    *)
(* held between two points with no await, so each call is one atomic step  *)
(* and a component that owns a breaker applies these operators inside its  *)
(* own actions.                                                            *)
(*                                                                         *)
(* "elapsed" is the time since _last_failure_time in units of the model,   *)
(* counted up to RecoveryTimeout: the code only compares the two.          *)
(***************************************************************************)
EXTENDS Naturals

CONSTANTS
    FailureThreshold,   \* failure_threshold
    HalfOpenMaxCalls,   \* half_open_max_calls
    RecoveryTimeout     \* recovery_timeout_s

ASSUME BreakerAssumption ==
    /\ FailureThreshold \in Nat \ {0}
    /\ HalfOpenMaxCalls \in Nat \ {0}
    /\ RecoveryTimeout \in Nat

CircuitState == {"CLOSED", "OPEN", "HALF_OPEN"}

Breakers == [state         : CircuitState,
             failureCount  : Nat,
             halfOpenCalls : 0 .. HalfOpenMaxCalls,
             elapsed       : 0 .. RecoveryTimeout]

\* __init__ and reset(): _last_failure_time = 0.0, far in the past of the
\* monotonic clock.
NewBreaker == [state |-> "CLOSED", failureCount |-> 0, halfOpenCalls |-> 0,
               elapsed |-> RecoveryTimeout]

\* The state property: an OPEN circuit whose recovery time is over already
\* reports HALF_OPEN, without a transition.
ObservedState(b) ==
    IF b.state = "OPEN" /\ b.elapsed >= RecoveryTimeout
    THEN "HALF_OPEN" ELSE b.state

\* OPEN -> HALF_OPEN inside allow_request.
EnterHalfOpen(b) ==
    IF b.state = "OPEN"
    THEN [state |-> "HALF_OPEN", failureCount |-> b.failureCount,
          halfOpenCalls |-> 0, elapsed |-> b.elapsed]
    ELSE b

\* A slip: one slot too many.
AllowsOneMore(b) ==
    \/ ObservedState(b) = "CLOSED"
    \/ /\ ObservedState(b) = "HALF_OPEN"
       /\ EnterHalfOpen(b).halfOpenCalls <= HalfOpenMaxCalls

\* What allow_request answers ...
Allows(b) ==
    \/ ObservedState(b) = "CLOSED"
    \/ /\ ObservedState(b) = "HALF_OPEN"
       /\ EnterHalfOpen(b).halfOpenCalls < HalfOpenMaxCalls

\* ... and the breaker it leaves behind.
AfterAllowRequest(b) ==
    IF ObservedState(b) # "HALF_OPEN" THEN b
    ELSE IF Allows(b)
         THEN [EnterHalfOpen(b) EXCEPT !.halfOpenCalls = @ + 1]
         ELSE EnterHalfOpen(b)

-----------------------------------------------------------------------------
\* Plausible slips in the two reports, to show what the properties notice:
\* a success that keeps the state or the slots, a failure that
\* trips one late, a failed probe that does not reopen the circuit.
SuccessKeepsState(b) == [b EXCEPT !.failureCount = 0, !.halfOpenCalls = 0]

SuccessKeepsSlots(b) == [b EXCEPT !.state = "CLOSED", !.failureCount = 0]

FailureTripsLate(b) ==
    [state         |-> IF b.state = "HALF_OPEN" \/ b.failureCount >= FailureThreshold
                       THEN "OPEN" ELSE b.state,
     failureCount  |-> b.failureCount + 1,
     halfOpenCalls |-> IF b.state = "HALF_OPEN" THEN 0 ELSE b.halfOpenCalls,
     elapsed       |-> 0]

FailureKeepsHalfOpen(b) ==
    [b EXCEPT !.state = IF b.failureCount + 1 >= FailureThreshold /\ @ = "CLOSED"
                        THEN "OPEN" ELSE @,
              !.failureCount = @ + 1, !.elapsed = 0]

-----------------------------------------------------------------------------
\* record_success: whatever the state was, the circuit is CLOSED afterwards.
AfterSuccess(b) ==
    [state |-> "CLOSED", failureCount |-> 0, halfOpenCalls |-> 0,
     elapsed |-> b.elapsed]

\* record_failure: the failure restarts the recovery time in every state.
AfterFailure(b) ==
    [state         |-> IF \/ b.state = "HALF_OPEN"
                          \/ b.failureCount + 1 >= FailureThreshold
                       THEN "OPEN" ELSE b.state,
     failureCount  |-> b.failureCount + 1,
     halfOpenCalls |-> IF b.state = "HALF_OPEN" THEN 0 ELSE b.halfOpenCalls,
     elapsed       |-> 0]

\* One unit of time.monotonic().
AfterTick(b) ==
    [b EXCEPT !.elapsed = IF @ < RecoveryTimeout THEN @ + 1 ELSE @]
=============================================================================
