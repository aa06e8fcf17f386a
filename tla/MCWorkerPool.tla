----------------------------- MODULE MCWorkerPool -----------------------------
(***************************************************************************)
(* Instances of WorkerPool for TLC: one instance of the service, and two   *)
(* that share the queue.                                                   *)
(***************************************************************************)
EXTENDS WorkerPool, TLC

CONSTANTS r1, r2, r3, k1, k2, a, b

OneHome == [r \in Requests |-> a]
OneHost == [k \in Workers |-> a]
TwoHomes == [r \in Requests |-> IF r = r2 THEN b ELSE a]
TwoHosts == [k \in Workers |-> IF k = k2 THEN b ELSE a]
=============================================================================
