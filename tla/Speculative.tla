----------------------------- MODULE Speculative -----------------------------
(***************************************************************************)
(* generate of speculative/orchestrator.py: the draft model proposes K     *)
(* tokens (draft_runner.py), one pass of the target model gives the        *)
(* distributions to judge them by (verifier.py), the sampler keeps a       *)
(* prefix of them and adds a token of its own, and the loop collects until *)
(* an end of sequence, the limit or too low an acceptance rate.            *)
(*                                                                         *)
(* The two models are functions from the last token of the context to a    *)
(* distribution; a longer context is not told apart.                       *)
(***************************************************************************)
EXTENDS RejectionSampling, Sequences

CONSTANTS
    Eos,         \* eos_token_id; no token of Vocab if there is none
    Prompt,      \* last token of input_ids
    Models,      \* pairs of a draft and a target model
    K,           \* num_draft_tokens
    MaxNew,      \* max_new_tokens
    Fallback,    \* values of fallback_on_low_acceptance
    MinRate      \* min_acceptance_rate, as a pair of numerator and denominator

Contexts == Vocab \cup {Prompt}

ASSUME SpeculativeAssumption ==
    /\ IsFiniteSet(Vocab)
    /\ K \in Nat \ {0}
    /\ MaxNew \in Nat \ {0}
    /\ Fallback \subseteq BOOLEAN
    /\ MinRate \in Nat \X (Nat \ {0})
    /\ \A m \in Models : \A c \in Contexts :
          /\ m.draft[c] \in [Vocab -> Nat]
          /\ m.target[c] \in [Vocab -> Nat]
          /\ Total(m.draft[c]) = Total(m.target[c])
          /\ Total(m.target[c]) > 0

VARIABLES
    model,       \* the two models
    fallback,    \* fallback_on_low_acceptance
    pc,
    generated,   \* without what the step under way has not collected
    drafted,     \* draft_tokens of the step
    kept,        \* how many of them are accepted
    extra,       \* its bonus or resampled token, in a sequence
    steps,       \* total_steps
    accepted     \* total_accepted; total_drafted is K for every step

config == <<model, fallback>>
stepVars == <<drafted, kept, extra>>
vars == <<config, pc, generated, stepVars, steps, accepted>>

TypeOK ==
    /\ model \in Models
    /\ fallback \in Fallback
    /\ pc \in {"drafting", "sampling", "collecting", "done"}
    /\ generated \in Seq(Vocab)
    /\ drafted \in Seq(Vocab)
    /\ kept \in 0 .. K
    /\ extra \in Seq(Vocab) /\ Len(extra) <= 1
    /\ steps \in Nat
    /\ accepted \in 0 .. K * steps

Init ==
    /\ model \in Models
    /\ fallback \in Fallback
    /\ pc = "drafting"
    /\ generated = <<>>
    /\ drafted = <<>>
    /\ kept = 0
    /\ extra = <<>>
    /\ steps = 0
    /\ accepted = 0

\* The token before position i of the step: current_ids is the prompt and what
\* was generated, the drafted tokens follow.
Before(i) ==
    IF i > 1 THEN drafted[i - 1]
    ELSE IF generated = <<>> THEN Prompt
    ELSE generated[Len(generated)]

\* speculate: one token after the other, each sampled after its predecessor.
Speculate ==
    /\ pc = "drafting"
    /\ Len(drafted) < K
    /\ \E x \in Vocab :
          /\ model.draft[Before(Len(drafted) + 1)][x] > 0
          /\ drafted' = Append(drafted, x)
    /\ UNCHANGED <<config, pc, generated, kept, extra, steps, accepted>>

\* draft_probs[i].
DraftAt(i) == model.draft[Before(i)]

\* A slip: the slice of the logits starts one position late.
TargetOneLate(i) == model.target[IF i <= Len(drafted) THEN drafted[i] ELSE Before(i)]

\* target_probs[i]: the logits at the position before the i-th drafted token.
TargetAt(i) == model.target[Before(i)]

Verify ==
    /\ pc = "drafting"
    /\ Len(drafted) = K
    /\ pc' = "sampling"
    /\ steps' = steps + 1
    /\ UNCHANGED <<config, generated, stepVars, accepted>>

Accept ==
    /\ pc = "sampling" /\ kept < K
    /\ MayAccept(DraftAt(kept + 1), TargetAt(kept + 1), drafted[kept + 1])
    /\ kept' = kept + 1
    /\ UNCHANGED <<config, pc, generated, drafted, extra, steps, accepted>>

\* The sampler returns with x at position kept + 1.
Sampled(x) ==
    /\ extra' = <<x>>
    /\ accepted' = accepted + kept
    /\ pc' = "collecting"
    /\ UNCHANGED <<config, generated, drafted, kept, steps>>

Reject ==
    /\ pc = "sampling" /\ kept < K
    /\ LET q == DraftAt(kept + 1)
           p == TargetAt(kept + 1)
       IN  /\ MayReject(q, p, drafted[kept + 1])
           /\ \E x \in Vocab : Resample(q, p)[x] > 0 /\ Sampled(x)

\* All K are kept: a bonus token of the target.
Bonus ==
    /\ pc = "sampling" /\ kept = K
    /\ \E x \in Vocab : TargetAt(K + 1)[x] > 0 /\ Sampled(x)

NewTokens == SubSeq(drafted, 1, kept) \o extra

NextStep ==
    /\ drafted' = <<>>
    /\ kept' = 0
    /\ extra' = <<>>

UpToEos(s) ==
    LET first == CHOOSE i \in DOMAIN s : s[i] = Eos /\ \A j \in 1 .. i - 1 : s[j] # Eos
    IN  SubSeq(s, 1, first)

\* The tokens up to an end of sequence are returned, max_new_tokens or not.
CollectEos ==
    /\ pc = "collecting"
    /\ Eos \in {NewTokens[i] : i \in DOMAIN NewTokens}
    /\ generated' = generated \o UpToEos(NewTokens)
    /\ pc' = "done"
    /\ NextStep
    /\ UNCHANGED <<config, steps, accepted>>

\* metrics.acceptance_rate < min_acceptance_rate.
RateTooLow ==
    /\ fallback
    /\ steps >= 3
    /\ accepted * MinRate[2] < MinRate[1] * K * steps

\* A slip: a token of the sampler's own is only added when all were accepted.
CollectKept ==
    /\ pc = "collecting"
    /\ Eos \notin {NewTokens[i] : i \in DOMAIN NewTokens}
    /\ LET all == generated \o (IF kept = K THEN NewTokens ELSE SubSeq(drafted, 1, kept)) IN
           IF Len(all) >= MaxNew
           THEN /\ generated' = SubSeq(all, 1, MaxNew)
                /\ pc' = "done"
           ELSE /\ generated' = all
                /\ pc' = IF RateTooLow THEN "done" ELSE "drafting"
    /\ NextStep
    /\ UNCHANGED <<config, steps, accepted>>

\* A slip: what exceeds the limit is not cut off.
CollectUntruncated ==
    /\ pc = "collecting"
    /\ Eos \notin {NewTokens[i] : i \in DOMAIN NewTokens}
    /\ generated' = generated \o NewTokens
    /\ pc' = IF Len(generated') >= MaxNew \/ RateTooLow THEN "done" ELSE "drafting"
    /\ NextStep
    /\ UNCHANGED <<config, steps, accepted>>

\* Otherwise what exceeds the limit is cut off; below the limit a low acceptance
\* rate ends the loop, too.
Collect ==
    /\ pc = "collecting"
    /\ Eos \notin {NewTokens[i] : i \in DOMAIN NewTokens}
    /\ LET all == generated \o NewTokens IN
           IF Len(all) >= MaxNew
           THEN /\ generated' = SubSeq(all, 1, MaxNew)
                /\ pc' = "done"
           ELSE /\ generated' = all
                /\ pc' = IF RateTooLow THEN "done" ELSE "drafting"
    /\ NextStep
    /\ UNCHANGED <<config, steps, accepted>>

Next ==
    \/ Speculate \/ Verify
    \/ Accept \/ Reject \/ Bonus
    \/ CollectEos \/ Collect

Spec == Init /\ [][Next]_vars

-----------------------------------------------------------------------------
(***************************************************************************)
(* Properties.                                                             *)
(***************************************************************************)

\* The target could have generated the text by itself: every token is possible
\* after its predecessor, also the ones that follow a rejected token, a bonus or a
\* cut.  A slip in the alignment of the three distributions breaks it.
TargetSupport ==
    \A i \in DOMAIN generated :
        model.target[IF i = 1 THEN Prompt ELSE generated[i - 1]][generated[i]] > 0

\* The sampler's docstring, "identical to sampling directly from the target", in
\* every context the loop can be in.
Exact ==
    pc = "sampling" =>
        \A i \in 1 .. K : \A x \in Vocab :
            OutputWeight(DraftAt(i), TargetAt(i), x) = TargetWeight(DraftAt(i), TargetAt(i), x)

Ended == generated # <<>> /\ generated[Len(generated)] = Eos

\* A text stops at its first end of sequence, which no step runs over; one that has
\* none is never longer than the limit, and, unless it may fall back, ends there and
\* not earlier.
EndsForAReason ==
    /\ \A i \in DOMAIN generated : generated[i] = Eos => i = Len(generated) /\ pc = "done"
    /\ ~Ended => Len(generated) <= MaxNew
    /\ pc = "done" /\ ~Ended /\ ~fallback => Len(generated) = MaxNew

\* What generate documents: "max_new_tokens: Maximum tokens to generate".  The returns
\* at an end of sequence skip the truncation.
WithinLimit == Len(generated) <= MaxNew

\* The loop bounds the tokens, not the steps, and yet ends, as every step adds a token,
\* also one in which everything is rejected: however bad the draft is, the target runs
\* at most max_new_tokens times, no more often than without a draft.
PassesBounded == steps <= MaxNew
=============================================================================
