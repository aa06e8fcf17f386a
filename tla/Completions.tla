------------------------------ MODULE Completions ------------------------------
(***************************************************************************)
(* What POST /v1/completions promises the clients of the platform,         *)
(* whatever queue, workers and breaker are behind it:                      *)
(*   - a prompt is run through the model at most once, and only after its  *)
(*     request was accepted;                                               *)
(*   - a client is told "ok" only when its own inference was computed;     *)
(*   - no accepted request gets a second answer.                           *)
(* An inference may outlive its answer: the client that timed out is gone, *)
(* the computation is not.                                                 *)
(***************************************************************************)
CONSTANT Requests

VARIABLES
    status,     \* what the client of a request knows
    work        \* what happened to its inference

cvars == <<status, work>>

Answers == {"ok", "error", "timeout", "lost"}

TypeOK ==
    /\ status \in [Requests -> {"new", "accepted"} \cup Answers]
    /\ work \in [Requests -> {"none", "running", "computed", "failed", "aborted"}]

Init ==
    /\ status = [r \in Requests |-> "new"]
    /\ work = [r \in Requests |-> "none"]

Accept(r) ==
    /\ status[r] = "new"
    /\ status' = [status EXCEPT ![r] = "accepted"]
    /\ UNCHANGED work

Refuse(r) ==
    /\ status[r] = "new"
    /\ status' = [status EXCEPT ![r] = "error"]
    /\ UNCHANGED work

Begin(r) ==
    /\ status[r] # "new" /\ work[r] = "none"
    /\ work' = [work EXCEPT ![r] = "running"]
    /\ UNCHANGED status

End(r, outcome) ==
    /\ work[r] = "running"
    /\ work' = [work EXCEPT ![r] = outcome]
    /\ UNCHANGED status

Answer(r, a) ==
    /\ status[r] = "accepted"
    /\ a = "ok" => work[r] = "computed"
    /\ status' = [status EXCEPT ![r] = a]
    /\ UNCHANGED work

\* A process goes away: the clients of its requests lose their connections
\* and its inferences never finish.
Outage(clients, inferences) ==
    /\ \A r \in clients : status[r] = "accepted"
    /\ \A r \in inferences : work[r] = "running"
    /\ status' = [r \in Requests |-> IF r \in clients THEN "lost" ELSE status[r]]
    /\ work' = [r \in Requests |-> IF r \in inferences THEN "aborted" ELSE work[r]]

Next ==
    \/ \E r \in Requests :
          \/ Accept(r) \/ Refuse(r) \/ Begin(r)
          \/ \E o \in {"computed", "failed", "aborted"} : End(r, o)
          \/ \E a \in Answers : Answer(r, a)
    \/ \E clients, inferences \in SUBSET Requests : Outage(clients, inferences)

Spec == Init /\ [][Next]_cvars
=============================================================================
