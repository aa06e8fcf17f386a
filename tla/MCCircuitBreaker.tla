---------------------------- MODULE MCCircuitBreaker ----------------------------
(***************************************************************************)
(* Instances of CircuitBreaker for TLC: three callers, so that a probe, a  *)
(* call admitted before the circuit opened and a waiting caller coexist.   *)
(***************************************************************************)
EXTENDS CircuitBreaker

CONSTANTS c1, c2, c3

MCCallers == {c1, c2, c3}
=============================================================================
