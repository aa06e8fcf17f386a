-------------------------- MODULE RejectionSampling --------------------------
(***************************************************************************)
(* speculative/sampler.py for one position: a token drafted from the       *)
(* distribution q is kept or replaced so that what comes out has the       *)
(* distribution p of the target.  A distribution gives every token an      *)
(* integer weight; all of them have the same sum.                          *)
(***************************************************************************)
EXTENDS Integers, FiniteSets, FiniteSetsExt

CONSTANT Vocab      \* tokens

\* q(x) * min(1, p(x) / q(x)).
Kept(q, p, x) == IF q[x] < p[x] THEN q[x] ELSE p[x]

\* r < acceptance_ratio is possible; a token the draft has no weight for is kept.
MayAccept(q, p, x) == q[x] = 0 \/ Kept(q, p, x) > 0

MayReject(q, p, x) == q[x] > Kept(q, p, x)

Total(w) == MapThenSumSet(LAMBDA x : w[x], Vocab)

\* A slip: a rejected token is replaced by a sample of the target.
ResidualOfTarget(q, p) == p

\* clamp(p - q, min=0).
Residual(q, p) == [x \in Vocab |-> IF p[x] > q[x] THEN p[x] - q[x] ELSE 0]

\* What a rejected token is replaced from.
Resample(q, p) == IF Total(Residual(q, p)) > 0 THEN Residual(q, p) ELSE p

\* How often x comes out: the share kept, and its part of the share rejected.
\* Both are over the sum of q, times the sum of the weights resampled from.
OutputWeight(q, p, x) ==
    Kept(q, p, x) * Total(Resample(q, p))
    + (Total(q) - Total([y \in Vocab |-> Kept(q, p, y)])) * Resample(q, p)[x]

\* The reference: sampled from the target directly, in the same unit.
TargetWeight(q, p, x) == p[x] * Total(Resample(q, p))
=============================================================================
