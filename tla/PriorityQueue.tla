----------------------------- MODULE PriorityQueue -----------------------------
(***************************************************************************)
(* The order of queue/priority_queue.py: a Redis sorted set whose score    *)
(* packs the priority tier and the time of arrival into one number, and    *)
(* from which ZPOPMIN takes a member of lowest score.                      *)
(***************************************************************************)
EXTENDS Integers

CONSTANTS
    Multiplier,   \* _PRIORITY_MULTIPLIER, 1e10 in the code
    MaxStamp      \* latest timestamp; the code relies on 1e10 s being far away

ASSUME PriorityQueueAssumption ==
    /\ MaxStamp \in Nat
    /\ Multiplier \in Nat
    /\ Multiplier > MaxStamp

Priority == 1 .. 3      \* CRITICAL, STANDARD, BATCH
Stamps == 0 .. MaxStamp

\* A slip: the latest arrival of a tier first.
ScoreLatestFirst(priority, timestamp) == priority * Multiplier - timestamp

ComputeScore(priority, timestamp) == priority * Multiplier + timestamp

\* The order the class documentation promises: the tier first, then the arrival.
Before(p, s, q, t) == p < q \/ (p = q /\ s < t)

\* What ZPOPMIN may return: a member of lowest score.  Two members of equal
\* score are ordered by their text, which begins with a random request id.
Lowest(members, score) ==
    {m \in members : \A n \in members : score[m] <= score[n]}
=============================================================================
