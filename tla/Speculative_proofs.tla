-------------------------- MODULE Speculative_proofs --------------------------
(***************************************************************************)
(* Proofs about Speculative, for every vocabulary, every pair of models    *)
(* and every number of drafted and of new tokens.                          *)
(***************************************************************************)
EXTENDS Speculative, SequenceTheorems, FiniteSetTheorems, WellFoundedInduction, TLAPS

(***************************************************************************)
(* The inductive invariant.  In a step, the target may say every token     *)
(* that was kept and the one the sampler adds, each after its predecessor; *)
(* between steps that is so of the text, which is below the limit and has  *)
(* no end of sequence.                                                     *)
(***************************************************************************)
Phases ==
    /\ pc = "drafting" => Len(drafted) <= K /\ kept = 0 /\ extra = <<>>
    /\ pc \in {"sampling", "collecting"} => Len(drafted) = K
    /\ pc = "sampling" => extra = <<>> /\ accepted + K <= K * steps
    /\ pc = "collecting" => Len(extra) = 1

DraftSupport ==
    pc \in {"drafting", "sampling"} =>
        \A i \in 1 .. Len(drafted) : DraftAt(i)[drafted[i]] > 0

KeptSupport ==
    pc \in {"sampling", "collecting"} => \A i \in 1 .. kept : TargetAt(i)[drafted[i]] > 0

ExtraSupport == pc = "collecting" => TargetAt(kept + 1)[extra[1]] > 0

Unfinished ==
    pc # "done" => /\ Len(generated) < MaxNew
                   /\ \A i \in 1 .. Len(generated) : generated[i] # Eos

\* EndsForAReason with the acceptance rate for the permission to look at it, and with
\* what an end of sequence exceeds the limit by.
EndsInTime ==
    /\ \A i \in DOMAIN generated : generated[i] = Eos => i = Len(generated) /\ pc = "done"
    /\ Len(generated) > MaxNew => Ended /\ Len(generated) <= MaxNew + K
    /\ pc = "done" /\ ~Ended => Len(generated) = MaxNew \/ RateTooLow

Inv ==
    /\ TypeOK /\ Phases
    /\ DraftSupport /\ KeptSupport /\ ExtraSupport
    /\ Unfinished /\ TargetSupport /\ EndsInTime

\* The distributions of a step.
LEMMA Distributions ==
    ASSUME TypeOK, NEW i \in Nat \ {0}, i <= Len(drafted) + 1
    PROVE  /\ DraftAt(i) \in [Vocab -> Nat] /\ TargetAt(i) \in [Vocab -> Nat]
           /\ Total(DraftAt(i)) = Total(TargetAt(i))
<1>1. Before(i) \in Contexts
    <2>1. CASE i > 1
        <3>1. i - 1 \in 1 .. Len(drafted)
            BY <2>1 DEF TypeOK
        <3>2. drafted[i - 1] \in Vocab
            BY <3>1, ElementOfSeq DEF TypeOK
        <3> QED
            BY <2>1, <3>2 DEF Before, Contexts
    <2>2. CASE ~(i > 1) /\ generated # <<>>
        <3>1. Len(generated) \in 1 .. Len(generated)
            BY <2>2, EmptySeq DEF TypeOK
        <3>2. generated[Len(generated)] \in Vocab
            BY <3>1, ElementOfSeq DEF TypeOK
        <3> QED
            BY <2>2, <3>2 DEF Before, Contexts
    <2>3. CASE ~(i > 1) /\ generated = <<>>
        BY <2>3 DEF Before, Contexts
    <2> QED
        BY <2>1, <2>2, <2>3
<1> QED
    BY <1>1, SpeculativeAssumption DEF DraftAt, TargetAt, TypeOK

\* A token that is kept, having been drafted, is one the target may say.
LEMMA AcceptSupport ==
    ASSUME NEW q \in [Vocab -> Nat], NEW p \in [Vocab -> Nat], NEW x \in Vocab,
           q[x] > 0, MayAccept(q, p, x)
    PROVE  p[x] > 0
BY DEF MayAccept, Kept

\* A token that replaces a rejected one is one the target may say.
LEMMA ResampleSupport ==
    ASSUME NEW q \in [Vocab -> Nat], NEW p \in [Vocab -> Nat], NEW x \in Vocab,
           Resample(q, p)[x] > 0
    PROVE  p[x] > 0
<1>1. CASE Resample(q, p) = p
    BY <1>1
<1>2. CASE Resample(q, p) = Residual(q, p)
    BY <1>2 DEF Residual
<1> QED
    BY <1>1, <1>2 DEF Resample

\* The models are given and nothing is generated.
LEMMA InitInv == Init => Inv
<1> SUFFICES ASSUME Init PROVE Inv
    OBVIOUS
<1>1. K \in Nat \ {0} /\ MaxNew \in Nat \ {0} /\ K * 0 = 0
    BY SpeculativeAssumption, SMT
<1>2. TypeOK
    BY <1>1 DEF Init, TypeOK
<1>3. Phases /\ DraftSupport /\ KeptSupport /\ ExtraSupport /\ Unfinished
    BY <1>1 DEF Init, Phases, DraftSupport, KeptSupport, ExtraSupport, Unfinished
<1>4. TargetSupport /\ EndsInTime
    BY <1>1 DEF Init, TargetSupport, EndsInTime, Ended
<1> QED
    BY <1>2, <1>3, <1>4 DEF Inv

\* A step that adds nothing to the text keeps what is said of it.
LEMMA SameText ==
    ASSUME Inv, UNCHANGED <<config, generated>>, pc # "done", pc' # "done"
    PROVE  Unfinished' /\ TargetSupport' /\ EndsInTime'
<1>1. Len(generated) < MaxNew /\ Len(generated) \in Nat /\ MaxNew \in Nat
    BY SpeculativeAssumption DEF Inv, Unfinished, TypeOK
<1> QED
    BY <1>1 DEF Inv, Unfinished, TargetSupport, EndsInTime, Ended, config, TypeOK

\* The positions of a step are judged in the same contexts while the draft stays.
LEMMA SameContexts ==
    ASSUME UNCHANGED <<config, generated, drafted>>
    PROVE  \A i : DraftAt(i)' = DraftAt(i) /\ TargetAt(i)' = TargetAt(i)
BY DEF DraftAt, TargetAt, Before, config

\* A drafted token has weight in the draft.
LEMMA SpeculateInv ==
    ASSUME Inv, Speculate
    PROVE  Inv'
<1>1. PICK x \in Vocab : /\ model.draft[Before(Len(drafted) + 1)][x] > 0
                         /\ drafted' = Append(drafted, x)
    BY DEF Speculate
<1>2. /\ pc = "drafting" /\ Len(drafted) < K
      /\ UNCHANGED <<config, pc, generated, kept, extra, steps, accepted>>
      /\ drafted \in Seq(Vocab) /\ Len(drafted) \in Nat /\ K \in Nat \ {0}
    BY SpeculativeAssumption DEF Speculate, Inv, TypeOK
<1>3. /\ drafted' \in Seq(Vocab)
      /\ Len(drafted') = Len(drafted) + 1
      /\ \A i \in 1 .. Len(drafted) : drafted'[i] = drafted[i]
      /\ drafted'[Len(drafted) + 1] = x
    BY <1>1, <1>2, AppendProperties
<1>4. TypeOK' /\ Phases'
    BY <1>2, <1>3 DEF Inv, TypeOK, Phases, config
<1>5. DraftSupport'
    <2> SUFFICES ASSUME NEW i \in 1 .. Len(drafted') PROVE DraftAt(i)'[drafted'[i]] > 0
        BY DEF DraftSupport
    <2>1. Before(i)' = Before(i)
        <3>1. CASE i > 1
            <4>1. i - 1 \in 1 .. Len(drafted)
                BY <1>2, <1>3, <3>1
            <4> QED
                BY <1>3, <3>1, <4>1 DEF Before
        <3>2. CASE ~(i > 1)
            BY <1>2, <3>2 DEF Before
        <3> QED
            BY <3>1, <3>2
    <2>2. DraftAt(i)' = DraftAt(i)
        BY <1>2, <2>1 DEF DraftAt, config
    <2>3. CASE i \in 1 .. Len(drafted)
        BY <1>2, <1>3, <2>2, <2>3 DEF Inv, DraftSupport
    <2>4. CASE i = Len(drafted) + 1
        BY <1>1, <1>3, <2>2, <2>4 DEF DraftAt
    <2> QED
        BY <1>2, <1>3, <2>3, <2>4
<1>6. KeptSupport' /\ ExtraSupport'
    BY <1>2 DEF KeptSupport, ExtraSupport
<1>7. Unfinished' /\ TargetSupport' /\ EndsInTime'
    BY <1>2, SameText
<1> QED
    BY <1>4, <1>5, <1>6, <1>7 DEF Inv

\* The target judges a whole draft.
LEMMA VerifyInv ==
    ASSUME Inv, Verify
    PROVE  Inv'
<1>1. /\ pc = "drafting" /\ pc' = "sampling" /\ Len(drafted) = K /\ steps' = steps + 1
      /\ UNCHANGED <<config, generated, drafted, kept, extra, accepted>>
    BY DEF Verify, stepVars
<1>2. /\ K \in Nat \ {0} /\ steps \in Nat /\ accepted \in 0 .. K * steps /\ kept = 0
      /\ extra = <<>>
    BY <1>1, SpeculativeAssumption DEF Inv, TypeOK, Phases
<1>3. K * (steps + 1) = K * steps + K /\ K * steps \in Nat
    BY <1>2, SMT
<1>4. TypeOK' /\ Phases'
    BY <1>1, <1>2, <1>3 DEF Inv, TypeOK, Phases, config
<1>5. \A i : DraftAt(i)' = DraftAt(i) /\ TargetAt(i)' = TargetAt(i)
    BY <1>1, SameContexts
<1>6. DraftSupport' /\ KeptSupport' /\ ExtraSupport'
    BY <1>1, <1>2, <1>5 DEF Inv, DraftSupport, KeptSupport, ExtraSupport
<1>7. Unfinished' /\ TargetSupport' /\ EndsInTime'
    BY <1>1, SameText
<1> QED
    BY <1>4, <1>6, <1>7 DEF Inv

\* One more token is kept.
LEMMA AcceptInv ==
    ASSUME Inv, Accept
    PROVE  Inv'
<1>1. /\ pc = "sampling" /\ kept < K /\ kept' = kept + 1
      /\ MayAccept(DraftAt(kept + 1), TargetAt(kept + 1), drafted[kept + 1])
      /\ UNCHANGED <<config, pc, generated, drafted, extra, steps, accepted>>
      /\ kept \in 0 .. K /\ Len(drafted) = K /\ K \in Nat \ {0}
    BY SpeculativeAssumption DEF Accept, Inv, TypeOK, Phases
<1>2. PICK k \in Nat \ {0} : k = kept + 1
    BY <1>1
<1>3. k \in 1 .. Len(drafted) /\ k <= Len(drafted) + 1
    BY <1>1, <1>2
<1>4. DraftAt(k) \in [Vocab -> Nat] /\ TargetAt(k) \in [Vocab -> Nat] /\ drafted[k] \in Vocab
    BY <1>3, Distributions, ElementOfSeq DEF Inv, TypeOK
<1>5. TargetAt(k)[drafted[k]] > 0
    <2>1. DraftAt(k)[drafted[k]] > 0
        BY <1>1, <1>3 DEF Inv, DraftSupport
    <2> QED
        BY <1>1, <1>2, <1>4, <2>1, AcceptSupport
<1>6. TypeOK' /\ Phases'
    BY <1>1 DEF Inv, TypeOK, Phases, config
<1>7. \A i : DraftAt(i)' = DraftAt(i) /\ TargetAt(i)' = TargetAt(i)
    BY <1>1, SameContexts
<1>8. DraftSupport' /\ ExtraSupport'
    BY <1>1, <1>7 DEF Inv, DraftSupport, ExtraSupport
<1>9. KeptSupport'
    BY <1>1, <1>2, <1>5, <1>7 DEF Inv, KeptSupport
<1>10. Unfinished' /\ TargetSupport' /\ EndsInTime'
    BY <1>1, SameText
<1> QED
    BY <1>6, <1>8, <1>9, <1>10 DEF Inv

\* The sampler adds a token of its own.
LEMMA SampledInv ==
    ASSUME Inv, Reject \/ Bonus
    PROVE  Inv'
<1>1. /\ pc = "sampling" /\ kept \in 0 .. K /\ Len(drafted) = K /\ K \in Nat \ {0}
      /\ steps \in Nat /\ accepted \in 0 .. K * steps /\ accepted + K <= K * steps
    BY SpeculativeAssumption DEF Reject, Bonus, Inv, TypeOK, Phases
<1>2. PICK k \in Nat \ {0} : k = kept + 1
    BY <1>1
<1>3. k <= Len(drafted) + 1
    BY <1>1, <1>2
<1>4. DraftAt(k) \in [Vocab -> Nat] /\ TargetAt(k) \in [Vocab -> Nat]
    BY <1>3, Distributions DEF Inv
<1>5. PICK x \in Vocab : Sampled(x) /\ TargetAt(k)[x] > 0
    <2>1. CASE Reject
        <3>1. PICK x \in Vocab : Resample(DraftAt(k), TargetAt(k))[x] > 0 /\ Sampled(x)
            BY <1>2, <2>1 DEF Reject
        <3> QED
            BY <1>4, <3>1, ResampleSupport
    <2>2. CASE Bonus
        BY <1>2, <2>2 DEF Bonus
    <2> QED
        BY <2>1, <2>2
<1>6. /\ extra' = <<x>> /\ accepted' = accepted + kept /\ pc' = "collecting"
      /\ UNCHANGED <<config, generated, drafted, kept, steps>>
    BY <1>5 DEF Sampled
<1>7. K * steps \in Nat
    BY <1>1, SMT
<1>8. accepted' \in 0 .. K * steps
    BY <1>1, <1>6, <1>7
<1>9. extra' \in Seq(Vocab) /\ Len(extra') = 1 /\ extra'[1] = x
    BY <1>5, <1>6
<1>10. TypeOK' /\ Phases'
    BY <1>1, <1>6, <1>8, <1>9 DEF Inv, TypeOK, Phases, config
<1>11. \A i : DraftAt(i)' = DraftAt(i) /\ TargetAt(i)' = TargetAt(i)
    BY <1>6, SameContexts
<1>12. DraftSupport' /\ KeptSupport'
    BY <1>1, <1>6, <1>11 DEF Inv, DraftSupport, KeptSupport
<1>13. ExtraSupport'
    <2>1. TargetAt(k)'[extra'[1]] > 0
        BY <1>5, <1>9, <1>11
    <2>2. kept' + 1 = k
        BY <1>2, <1>6
    <2> QED
        BY <2>1, <2>2 DEF ExtraSupport
<1>14. Unfinished' /\ TargetSupport' /\ EndsInTime'
    BY <1>1, <1>6, SameText
<1> QED
    BY <1>10, <1>12, <1>13, <1>14 DEF Inv

-----------------------------------------------------------------------------
(***************************************************************************)
(* Collecting: some of the new tokens, from the first on, are appended to  *)
(* the text.                                                               *)
(***************************************************************************)
Appends(n) ==
    /\ Len(generated') = Len(generated) + n
    /\ \A i \in 1 .. Len(generated) : generated'[i] = generated[i]
    /\ \A j \in 1 .. n : generated'[Len(generated) + j] = NewTokens[j]

\* The text u is s followed by the n tokens of t.
Joined(u, s, t, n) ==
    /\ u \in Seq(Vocab)
    /\ Len(u) = Len(s) + n
    /\ \A i \in 1 .. Len(s) + n : u[i] = IF i <= Len(s) THEN s[i] ELSE t[i - Len(s)]

\* The elements of two texts, one after the other.
LEMMA Concatenated ==
    ASSUME NEW s \in Seq(Vocab), NEW t \in Seq(Vocab), NEW n \in Nat, Len(t) = n
    PROVE  Joined(s \o t, s, t, n)
BY ConcatProperties DEF Joined

\* The new tokens are those kept and the sampler's own.
LEMMA NewTokensOfStep ==
    ASSUME Inv, pc = "collecting"
    PROVE  /\ kept \in Nat /\ kept <= K /\ K \in Nat \ {0}
           /\ NewTokens \in Seq(Vocab) /\ Len(NewTokens) = kept + 1
           /\ \A j \in 1 .. kept : NewTokens[j] = drafted[j]
           /\ NewTokens[kept + 1] = extra[1]
<1>1. /\ kept \in 0 .. K /\ K \in Nat \ {0} /\ Len(drafted) = K /\ drafted \in Seq(Vocab)
      /\ extra \in Seq(Vocab) /\ Len(extra) = 1
    BY SpeculativeAssumption DEF Inv, TypeOK, Phases
<1>2. \A i \in 1 .. kept : drafted[i] \in Vocab
    BY <1>1, ElementOfSeq
<1>3. /\ SubSeq(drafted, 1, kept) \in Seq(Vocab)
      /\ Len(SubSeq(drafted, 1, kept)) = kept
      /\ \A i \in 1 .. kept : SubSeq(drafted, 1, kept)[i] = drafted[i]
    <2>1. /\ SubSeq(drafted, 1, kept) \in Seq(Vocab)
          /\ Len(SubSeq(drafted, 1, kept)) = IF 1 <= kept THEN kept - 1 + 1 ELSE 0
          /\ \A i \in 1 .. kept - 1 + 1 : SubSeq(drafted, 1, kept)[i] = drafted[1 + i - 1]
        BY <1>1, <1>2, SubSeqProperties
    <2> QED
        BY <1>1, <2>1
<1>4. /\ NewTokens \in Seq(Vocab)
      /\ Len(NewTokens) = kept + 1
      /\ \A i \in 1 .. kept + 1 :
             NewTokens[i] = IF i <= kept THEN SubSeq(drafted, 1, kept)[i] ELSE extra[i - kept]
    <2> DEFINE front == SubSeq(drafted, 1, kept)
    <2>1. front \in Seq(Vocab) /\ Len(front) = kept /\ NewTokens = front \o extra
        BY <1>3 DEF NewTokens
    <2> HIDE DEF front
    <2>2. /\ front \o extra \in Seq(Vocab)
          /\ Len(front \o extra) = Len(front) + 1
          /\ \A i \in 1 .. Len(front) + 1 :
                 (front \o extra)[i] = IF i <= Len(front) THEN front[i] ELSE extra[i - Len(front)]
        <3>1. 1 \in Nat
            OBVIOUS
        <3>2. Joined(front \o extra, front, extra, 1)
            BY <1>1, <2>1, <3>1, Concatenated, Zenon
        <3> QED
            BY <3>2 DEF Joined
    <2> QED
        BY <1>1, <2>1, <2>2 DEF front
<1>5. \A j \in 1 .. kept : NewTokens[j] = drafted[j]
    BY <1>1, <1>3, <1>4
<1>6. NewTokens[kept + 1] = extra[1]
    <2>1. (kept + 1) - kept = 1 /\ kept + 1 \in 1 .. kept + 1 /\ ~(kept + 1 <= kept)
        BY <1>1
    <2> QED
        BY <1>4, <2>1
<1> QED
    BY <1>1, <1>4, <1>5, <1>6

\* Each new token may follow its predecessor.
LEMMA NewTokensSupport ==
    ASSUME Inv, pc = "collecting", NEW j \in 1 .. kept + 1
    PROVE  model.target[IF j > 1 THEN NewTokens[j - 1] ELSE Before(1)][NewTokens[j]] > 0
<1>1. /\ kept \in Nat
      /\ \A i \in 1 .. kept : NewTokens[i] = drafted[i]
      /\ NewTokens[kept + 1] = extra[1]
    BY NewTokensOfStep
<1>2. TargetAt(j)[NewTokens[j]] > 0
    <2>1. CASE j <= kept
        BY <1>1, <2>1 DEF Inv, KeptSupport
    <2>2. CASE ~(j <= kept)
        <3>1. j = kept + 1
            BY <1>1, <2>2
        <3> QED
            BY <1>1, <3>1 DEF Inv, ExtraSupport
    <2> QED
        BY <2>1, <2>2
<1>3. Before(j) = IF j > 1 THEN NewTokens[j - 1] ELSE Before(1)
    <2>1. CASE j > 1
        <3>1. j - 1 \in 1 .. kept
            BY <1>1, <2>1
        <3> QED
            BY <1>1, <2>1, <3>1 DEF Before
    <2>2. CASE ~(j > 1)
        BY <1>1, <2>2
    <2> QED
        BY <2>1, <2>2
<1> QED
    BY <1>2, <1>3 DEF TargetAt

\* A text that grows so is one the target could have generated.
LEMMA AppendsSupport ==
    ASSUME Inv, pc = "collecting", NEW n \in 1 .. kept + 1, Appends(n), UNCHANGED model
    PROVE  \A i \in 1 .. Len(generated') :
               model.target[IF i = 1 THEN Prompt ELSE generated'[i - 1]][generated'[i]] > 0
<1> SUFFICES ASSUME NEW i \in 1 .. Len(generated')
             PROVE  model.target[IF i = 1 THEN Prompt ELSE generated'[i - 1]][generated'[i]] > 0
    OBVIOUS
<1>1. /\ kept \in Nat /\ n \in Nat /\ Len(generated) \in Nat
      /\ generated \in Seq(Vocab)
    BY NewTokensOfStep DEF Inv, TypeOK
<1>2. PICK l \in Nat : l = Len(generated)
    BY <1>1
<1>3. CASE i <= l
    <2>1. i \in 1 .. Len(generated) /\ (i = 1 \/ i - 1 \in 1 .. Len(generated))
        BY <1>1, <1>2, <1>3
    <2>2. model.target[IF i = 1 THEN Prompt ELSE generated[i - 1]][generated[i]] > 0
        BY <1>1, <2>1 DEF Inv, TargetSupport
    <2> QED
        BY <2>1, <2>2 DEF Appends
<1>4. CASE ~(i <= l)
    <2>1. PICK j \in Nat : i = l + j
        BY <1>1, <1>2, <1>4
    <2>2. j \in 1 .. n /\ j \in 1 .. kept + 1
        BY <1>1, <1>2, <1>4, <2>1 DEF Appends
    <2>3. generated'[i] = NewTokens[j]
        BY <1>2, <2>1, <2>2 DEF Appends
    <2>4. (IF i = 1 THEN Prompt ELSE generated'[i - 1]) = IF j > 1 THEN NewTokens[j - 1] ELSE Before(1)
        <3>1. CASE j > 1
            <4>1. j - 1 \in 1 .. n /\ i - 1 = l + (j - 1) /\ i # 1
                BY <1>1, <2>1, <2>2, <3>1
            <4> QED
                BY <1>2, <3>1, <4>1 DEF Appends
        <3>2. CASE ~(j > 1) /\ l > 0
            <4>1. i - 1 = l /\ i # 1 /\ l \in 1 .. Len(generated)
                BY <1>1, <1>2, <2>1, <2>2, <3>2
            <4>2. generated # <<>>
                BY <1>2, <3>2
            <4> QED
                BY <1>2, <3>2, <4>1, <4>2 DEF Appends, Before
        <3>3. CASE ~(j > 1) /\ ~(l > 0)
            <4>1. i = 1 /\ generated = <<>>
                BY <1>1, <1>2, <2>1, <2>2, <3>3, EmptySeq
            <4> QED
                BY <3>3, <4>1 DEF Before
        <3> QED
            BY <3>1, <3>2, <3>3
    <2> QED
        BY <2>2, <2>3, <2>4, NewTokensSupport
<1> QED
    BY <1>3, <1>4

\* The first end of sequence, where there is one.
LEMMA FirstEos ==
    ASSUME NEW s \in Seq(Vocab), Eos \in {s[i] : i \in DOMAIN s}
    PROVE  \E first \in 1 .. Len(s) :
               /\ UpToEos(s) = SubSeq(s, 1, first)
               /\ s[first] = Eos
               /\ \A j \in 1 .. first - 1 : s[j] # Eos
<1> DEFINE At == {i \in 1 .. Len(s) : s[i] = Eos}
           First(i) == s[i] = Eos /\ \A j \in 1 .. i - 1 : s[j] # Eos
<1>1. At \subseteq Nat /\ At # {} /\ DOMAIN s = 1 .. Len(s) /\ Len(s) \in Nat
    BY LenProperties
<1>2. PICK x \in At : \A y \in At : ~(<<y, x>> \in OpToRel(<, Nat))
    BY <1>1, NatLessThanWellFounded, WFMin
<1>3. \A y \in At : ~(y < x)
    <2> SUFFICES ASSUME NEW y \in At, y < x PROVE FALSE
        OBVIOUS
    <2>1. <<y, x>> \in Nat \X Nat
        BY <1>1, <1>2
    <2>2. <<y, x>> \in OpToRel(<, Nat)
        BY <2>1 DEF OpToRel
    <2> QED
        BY <1>2, <2>2
<1>4. First(x)
    <2>1. x \in 1 .. Len(s) /\ s[x] = Eos
        BY <1>2
    <2>2. ASSUME NEW j \in 1 .. x - 1 PROVE s[j] # Eos
        <3>1. j \in 1 .. Len(s) /\ j < x
            BY <1>1, <2>1
        <3> QED
            BY <1>3, <3>1
    <2> QED
        BY <2>1, <2>2
<1>5. \E i \in DOMAIN s : First(i)
    BY <1>1, <1>2, <1>4
<1> DEFINE f == CHOOSE i \in DOMAIN s : First(i)
<1>6. f \in DOMAIN s /\ First(f)
    BY <1>5
<1>7. UpToEos(s) = SubSeq(s, 1, f)
    BY DEF UpToEos
<1> HIDE DEF f
<1> QED
    BY <1>1, <1>6, <1>7

\* A text with an end of sequence takes the new tokens up to it.
LEMMA CollectEosAppends ==
    ASSUME Inv, CollectEos
    PROVE  \E n \in 1 .. kept + 1 :
               /\ Appends(n) /\ generated' \in Seq(Vocab)
               /\ NewTokens[n] = Eos
               /\ \A j \in 1 .. n - 1 : NewTokens[j] # Eos
<1>1. /\ pc = "collecting"
      /\ Eos \in {NewTokens[i] : i \in DOMAIN NewTokens}
      /\ generated' = generated \o UpToEos(NewTokens)
    BY DEF CollectEos
<1>2. /\ kept \in Nat /\ NewTokens \in Seq(Vocab) /\ Len(NewTokens) = kept + 1
      /\ generated \in Seq(Vocab) /\ Len(generated) \in Nat
    BY <1>1, NewTokensOfStep DEF Inv, TypeOK
<1> DEFINE s == NewTokens
<1>3. PICK n \in 1 .. Len(s) : /\ UpToEos(s) = SubSeq(s, 1, n)
                               /\ s[n] = Eos
                               /\ \A j \in 1 .. n - 1 : s[j] # Eos
    BY <1>1, <1>2, FirstEos
<1> DEFINE new == SubSeq(s, 1, n)
<1>4. new \in Seq(Vocab) /\ Len(new) = n /\ \A i \in 1 .. n : new[i] = s[i]
    <2>1. n \in Nat \ {0} /\ \A i \in 1 .. n : i \in 1 .. Len(s)
        BY <1>2, <1>3
    <2>2. \A i \in 1 .. n : s[i] \in Vocab
        BY <1>2, <2>1, ElementOfSeq
    <2>3. /\ new \in Seq(Vocab)
          /\ Len(new) = IF 1 <= n THEN n - 1 + 1 ELSE 0
          /\ \A i \in 1 .. n - 1 + 1 : new[i] = s[1 + i - 1]
        BY <2>1, <2>2, SubSeqProperties
    <2> QED
        BY <2>1, <2>3
<1>5. n \in Nat \ {0} /\ generated' = generated \o new
    BY <1>1, <1>2, <1>3
<1> HIDE DEF new
<1>6. /\ generated' \in Seq(Vocab) /\ Len(generated') = Len(generated) + n
      /\ \A i \in 1 .. Len(generated) + n :
             generated'[i] = IF i <= Len(generated) THEN generated[i] ELSE new[i - Len(generated)]
    <2>1. n \in Nat /\ Len(new) = n /\ new \in Seq(Vocab)
        BY <1>4, <1>5
    <2>2. Joined(generated', generated, new, n)
        BY <1>2, <1>5, <2>1, Concatenated, Zenon
    <2> QED
        BY <2>2 DEF Joined
<1>7. Appends(n)
    <2>1. \A i \in 1 .. Len(generated) : generated'[i] = generated[i]
        BY <1>2, <1>5, <1>6
    <2>2. ASSUME NEW j \in 1 .. n PROVE generated'[Len(generated) + j] = s[j]
        <3>1. /\ Len(generated) + j \in 1 .. Len(generated) + n
              /\ ~(Len(generated) + j <= Len(generated))
              /\ (Len(generated) + j) - Len(generated) = j
            BY <1>2, <1>5
        <3> QED
            BY <1>4, <1>6, <3>1
    <2> QED
        BY <1>6, <2>1, <2>2 DEF Appends
<1> QED
    BY <1>2, <1>3, <1>6, <1>7

\* Otherwise it takes all of them, or as many as the limit admits.
LEMMA CollectAppends ==
    ASSUME Inv, Collect
    PROVE  \E n \in 1 .. kept + 1 :
               /\ Appends(n) /\ generated' \in Seq(Vocab)
               /\ \/ Len(generated') = MaxNew /\ pc' = "done"
                  \/ Len(generated') < MaxNew /\ pc' = IF RateTooLow THEN "done" ELSE "drafting"
<1> DEFINE all == generated \o NewTokens
<1>1. /\ pc = "collecting"
      /\ IF Len(all) >= MaxNew
         THEN generated' = SubSeq(all, 1, MaxNew) /\ pc' = "done"
         ELSE generated' = all /\ pc' = IF RateTooLow THEN "done" ELSE "drafting"
    BY DEF Collect
<1>2. /\ kept \in Nat /\ NewTokens \in Seq(Vocab) /\ Len(NewTokens) = kept + 1
      /\ generated \in Seq(Vocab) /\ Len(generated) \in Nat
      /\ MaxNew \in Nat \ {0} /\ Len(generated) < MaxNew
    BY <1>1, NewTokensOfStep, SpeculativeAssumption DEF Inv, TypeOK, Unfinished
<1>3. /\ all \in Seq(Vocab) /\ Len(all) = Len(generated) + (kept + 1)
      /\ \A i \in 1 .. Len(generated) + (kept + 1) :
             all[i] = IF i <= Len(generated) THEN generated[i] ELSE NewTokens[i - Len(generated)]
    <2>1. kept + 1 \in Nat
        BY <1>2
    <2>2. Joined(all, generated, NewTokens, kept + 1)
        BY <1>2, <2>1, Concatenated, Zenon
    <2> QED
        BY <2>2 DEF Joined
<1> HIDE DEF all
<1>4. \A i \in 1 .. Len(generated) : all[i] = generated[i]
    BY <1>2, <1>3
<1>5. ASSUME NEW j \in 1 .. kept + 1 PROVE all[Len(generated) + j] = NewTokens[j]
    <2>1. /\ Len(generated) + j \in 1 .. Len(generated) + (kept + 1)
          /\ ~(Len(generated) + j <= Len(generated))
          /\ (Len(generated) + j) - Len(generated) = j
        BY <1>2
    <2> QED
        BY <1>3, <2>1
<1>6. CASE Len(all) >= MaxNew
    <2>1. generated' = SubSeq(all, 1, MaxNew) /\ pc' = "done"
        BY <1>1, <1>6
    <2>2. /\ generated' \in Seq(Vocab) /\ Len(generated') = MaxNew
          /\ \A i \in 1 .. MaxNew : generated'[i] = all[i]
        <3>1. \A i \in 1 .. MaxNew : i \in 1 .. Len(all)
            BY <1>2, <1>3, <1>6
        <3>2. \A i \in 1 .. MaxNew : all[i] \in Vocab
            BY <1>3, <3>1, ElementOfSeq
        <3>3. /\ SubSeq(all, 1, MaxNew) \in Seq(Vocab)
              /\ Len(SubSeq(all, 1, MaxNew)) = IF 1 <= MaxNew THEN MaxNew - 1 + 1 ELSE 0
              /\ \A i \in 1 .. MaxNew - 1 + 1 : SubSeq(all, 1, MaxNew)[i] = all[1 + i - 1]
            BY <1>2, <3>2, SubSeqProperties
        <3> QED
            BY <1>2, <2>1, <3>3
    <2>3. PICK n \in 1 .. kept + 1 : MaxNew = Len(generated) + n
        <3>1. MaxNew - Len(generated) \in 1 .. kept + 1
              /\ MaxNew = Len(generated) + (MaxNew - Len(generated))
            BY <1>2, <1>3, <1>6
        <3> QED
            BY <3>1
    <2>4. Appends(n)
        <3>1. \A i \in 1 .. Len(generated) : generated'[i] = generated[i]
            BY <1>2, <1>4, <2>2
        <3>2. ASSUME NEW j \in 1 .. n PROVE generated'[Len(generated) + j] = NewTokens[j]
            <4>1. Len(generated) + j \in 1 .. MaxNew /\ j \in 1 .. kept + 1
                BY <1>2, <2>3
            <4> QED
                BY <1>5, <2>2, <4>1
        <3> QED
            BY <2>2, <2>3, <3>1, <3>2 DEF Appends
    <2> QED
        BY <2>1, <2>2, <2>4
<1>7. CASE ~(Len(all) >= MaxNew)
    <2>1. generated' = all /\ pc' = IF RateTooLow THEN "done" ELSE "drafting"
        BY <1>1, <1>7
    <2>2. kept + 1 \in 1 .. kept + 1 /\ Len(all) < MaxNew
        BY <1>2, <1>3, <1>7
    <2>3. Appends(kept + 1)
        BY <1>3, <1>4, <1>5, <2>1 DEF Appends
    <2> QED
        BY <1>3, <2>1, <2>2, <2>3
<1> QED
    BY <1>6, <1>7

\* The text as it is collected.
LEMMA CollectInv ==
    ASSUME Inv, CollectEos \/ Collect
    PROVE  Inv'
<1>1. /\ pc = "collecting"
      /\ drafted' = <<>> /\ kept' = 0 /\ extra' = <<>>
      /\ UNCHANGED <<config, steps, accepted>>
      /\ pc' \in {"drafting", "done"}
    BY DEF CollectEos, Collect, NextStep
<1>2. /\ kept \in Nat /\ kept <= K /\ K \in Nat \ {0}
      /\ generated \in Seq(Vocab) /\ Len(generated) \in Nat
      /\ MaxNew \in Nat \ {0} /\ Len(generated) < MaxNew
      /\ \A i \in 1 .. Len(generated) : generated[i] # Eos
    BY <1>1, NewTokensOfStep, SpeculativeAssumption DEF Inv, TypeOK, Unfinished
<1>3. PICK n \in 1 .. kept + 1 :
          /\ Appends(n) /\ generated' \in Seq(Vocab)
          /\ \A j \in 1 .. n - 1 : NewTokens[j] # Eos
          /\ \/ NewTokens[n] = Eos /\ pc' = "done"
             \/ /\ NewTokens[n] # Eos
                /\ \/ Len(generated') = MaxNew /\ pc' = "done"
                   \/ /\ Len(generated') < MaxNew
                      /\ pc' = IF RateTooLow THEN "done" ELSE "drafting"
    <2>1. CASE CollectEos
        <3>1. pc' = "done"
            BY <2>1 DEF CollectEos
        <3> QED
            BY <2>1, <3>1, CollectEosAppends
    <2>2. CASE Collect
        <3>1. \A j \in 1 .. kept + 1 : NewTokens[j] # Eos
            <4>1. Eos \notin {NewTokens[i] : i \in DOMAIN NewTokens}
                BY <2>2 DEF Collect
            <4>2. DOMAIN NewTokens = 1 .. kept + 1
                BY <1>1, <1>2, NewTokensOfStep, LenProperties
            <4> QED
                BY <4>1, <4>2
        <3>2. \A n \in 1 .. kept + 1 : \A j \in 1 .. n - 1 : j \in 1 .. kept + 1
            BY <1>2
        <3> QED
            BY <2>2, <3>1, <3>2, CollectAppends
    <2> QED
        BY <1>1, <2>1, <2>2 DEF CollectEos, Collect
<1>4. PICK l \in Nat : l = Len(generated)
    BY <1>2
<1>5. /\ n \in Nat \ {0} /\ n <= K + 1 /\ Len(generated') = l + n
      /\ \A i \in 1 .. l : generated'[i] # Eos
      /\ \A j \in 1 .. n : generated'[l + j] = NewTokens[j]
    <2>1. Appends(n) /\ n \in 1 .. kept + 1
        BY <1>3
    <2>2. n \in Nat \ {0} /\ n <= K + 1
        BY <1>2, <2>1
    <2>3. /\ Len(generated') = l + n
          /\ \A i \in 1 .. l : generated'[i] = generated[i]
          /\ \A j \in 1 .. n : generated'[l + j] = NewTokens[j]
        BY <1>4, <2>1 DEF Appends
    <2>4. \A i \in 1 .. l : generated'[i] # Eos
        <3>1. \A i \in 1 .. l : generated[i] # Eos
            BY <1>2, <1>4
        <3> QED
            BY <2>3, <3>1
    <2> QED
        BY <2>2, <2>3, <2>4
<1>6. TypeOK' /\ Phases'
    <2>1. <<>> \in Seq(Vocab) /\ Len(<<>>) = 0
        OBVIOUS
    <2> QED
        BY <1>1, <1>2, <1>3, <2>1 DEF Inv, TypeOK, Phases, config
<1>7. DraftSupport' /\ KeptSupport' /\ ExtraSupport'
    <2>1. 1 .. Len(drafted') = {} /\ 1 .. kept' = {}
        BY <1>1
    <2> QED
        BY <1>1, <2>1 DEF DraftSupport, KeptSupport, ExtraSupport
<1>8. TargetSupport'
    <2>1. UNCHANGED model /\ DOMAIN generated' = 1 .. Len(generated')
        BY <1>1, <1>3, LenProperties DEF config
    <2> QED
        BY <1>1, <1>3, <2>1, AppendsSupport DEF TargetSupport
<1>9. \A i \in 1 .. Len(generated') : generated'[i] = Eos => i = l + n /\ NewTokens[n] = Eos
    <2> SUFFICES ASSUME NEW i \in 1 .. Len(generated'), generated'[i] = Eos
                 PROVE  i = l + n /\ NewTokens[n] = Eos
        OBVIOUS
    <2>1. ~(i <= l)
        BY <1>5
    <2>2. PICK j \in 1 .. n : i = l + j
        <3>1. i - l \in 1 .. n /\ i = l + (i - l)
            BY <1>4, <1>5, <2>1
        <3> QED
            BY <3>1
    <2>3. NewTokens[j] = Eos
        BY <1>5, <2>2
    <2>4. j = n
        BY <1>3, <1>5, <2>2, <2>3
    <2> QED
        BY <2>2, <2>3, <2>4
<1>10. Unfinished'
    BY <1>3, <1>9 DEF Unfinished
<1>11. EndsInTime'
    <2>1. /\ generated' # <<>> /\ DOMAIN generated' = 1 .. Len(generated')
          /\ generated'[Len(generated')] = NewTokens[n]
        BY <1>3, <1>5, LenProperties
    <2>2. RateTooLow' = RateTooLow
        BY <1>1 DEF RateTooLow, config
    <2>3. \A i \in DOMAIN generated' : generated'[i] = Eos => i = Len(generated') /\ pc' = "done"
        BY <1>3, <1>5, <1>9, <2>1
    <2>4. Len(generated') > MaxNew => NewTokens[n] = Eos /\ Len(generated') <= MaxNew + K
        BY <1>2, <1>3, <1>4, <1>5
    <2>5. pc' = "done" /\ NewTokens[n] # Eos => Len(generated') = MaxNew \/ RateTooLow'
        BY <1>3, <2>2
    <2> QED
        BY <2>1, <2>3, <2>4, <2>5 DEF EndsInTime, Ended
<1> QED
    BY <1>6, <1>7, <1>8, <1>10, <1>11 DEF Inv

\* Every step preserves the invariant.
LEMMA NextInv == Inv /\ [Next]_vars => Inv'
<1> SUFFICES ASSUME Inv, [Next]_vars PROVE Inv'
    OBVIOUS
<1>1. CASE Next
    BY <1>1, SpeculateInv, VerifyInv, AcceptInv, SampledInv, CollectInv DEF Next
<1>2. CASE UNCHANGED vars
    <2>1. /\ UNCHANGED <<config, generated, drafted>>
          /\ UNCHANGED <<model, fallback, pc, generated, drafted, kept, extra, steps, accepted>>
        BY <1>2 DEF vars, config, stepVars
    <2>2. \A i : DraftAt(i)' = DraftAt(i) /\ TargetAt(i)' = TargetAt(i)
        BY <2>1, SameContexts
    <2>3. DraftSupport' /\ KeptSupport' /\ ExtraSupport'
        BY <2>1, <2>2 DEF Inv, DraftSupport, KeptSupport, ExtraSupport
    <2>4. TypeOK' /\ Phases' /\ Unfinished' /\ TargetSupport'
        BY <2>1 DEF Inv, TypeOK, Phases, Unfinished, TargetSupport
    <2>5. EndsInTime'
        BY <2>1 DEF Inv, EndsInTime, Ended, RateTooLow
    <2> QED
        BY <2>3, <2>4, <2>5 DEF Inv
<1> QED
    BY <1>1, <1>2

-----------------------------------------------------------------------------
\* The steps of the loop stay aligned, in every reachable state.
THEOREM InvHolds == Spec => []Inv
<1>1. Init => Inv
    BY InitInv
<1>2. Inv /\ [Next]_vars => Inv'
    BY NextInv
<1> QED
    BY <1>1, <1>2, PTL DEF Spec

\* However the draft is, the text is one the target could have generated by itself.
THEOREM TextOfTarget == Spec => []TargetSupport
<1>1. Inv => TargetSupport
    BY DEF Inv
<1> QED
    BY <1>1, InvHolds, PTL

\* A text stops at its first end of sequence; one that has none is not longer than the
\* limit, and ends there unless it may fall back.
THEOREM EndHasReason == Spec => []EndsForAReason
<1>1. Inv => EndsForAReason
    <2> SUFFICES ASSUME Inv PROVE EndsForAReason
        OBVIOUS
    <2>1. EndsInTime /\ Len(generated) \in Nat /\ MaxNew \in Nat
        BY LenProperties, SpeculativeAssumption DEF Inv, TypeOK
    <2>2. ~Ended => Len(generated) <= MaxNew
        BY <2>1 DEF EndsInTime
    <2> QED
        BY <2>1, <2>2 DEF EndsInTime, EndsForAReason, RateTooLow
<1> QED
    BY <1>1, InvHolds, PTL

\* The documented limit is exceeded, by an end of sequence only, by K tokens at most.
THEOREM ExcessBounded ==
    Spec => [](Len(generated) > MaxNew => Ended /\ Len(generated) <= MaxNew + K)
<1>1. Inv => (Len(generated) > MaxNew => Ended /\ Len(generated) <= MaxNew + K)
    BY DEF Inv, EndsInTime
<1> QED
    BY <1>1, InvHolds, PTL

EveryStepAdds == [][pc = "collecting" => Len(generated') > Len(generated)]_vars

\* Every step of the loop adds a token, also one in which everything is rejected.
THEOREM LoopAdvances == Spec => EveryStepAdds
<1>1. Inv /\ [Next]_vars => [pc = "collecting" => Len(generated') > Len(generated)]_vars
    <2> SUFFICES ASSUME Inv, Next, pc = "collecting"
                 PROVE  Len(generated') > Len(generated)
        OBVIOUS
    <2>1. CollectEos \/ Collect
        BY DEF Next, Speculate, Verify, Accept, Reject, Bonus
    <2>2. PICK n \in 1 .. kept + 1 : Appends(n)
        BY <2>1, CollectEosAppends, CollectAppends
    <2>3. kept \in Nat /\ Len(generated) \in Nat
        BY DEF Inv, TypeOK
    <2> QED
        BY <2>2, <2>3 DEF Appends
<1> QED
    BY <1>1, InvHolds, PTL DEF Spec, EveryStepAdds

\* The steps are no more than the tokens, but for the one under way.
Passes ==
    /\ pc = "drafting" => steps <= Len(generated)
    /\ pc \in {"sampling", "collecting"} => steps <= Len(generated) + 1
    /\ steps <= MaxNew

\* A pass is paid for by a token before the next one starts.
LEMMA PassesStep ==
    ASSUME Inv, Passes, [Next]_vars
    PROVE  Passes'
<1>1. steps \in Nat /\ Len(generated) \in Nat /\ MaxNew \in Nat \ {0}
    BY SpeculativeAssumption DEF Inv, TypeOK
<1>2. CASE Verify
    <2>1. /\ pc = "drafting" /\ pc' = "sampling" /\ steps' = steps + 1
          /\ generated' = generated
        BY <1>2 DEF Verify
    <2>2. Len(generated) < MaxNew
        BY <2>1 DEF Inv, Unfinished
    <2> QED
        BY <1>1, <2>1, <2>2 DEF Passes
<1>3. CASE Collect \/ CollectEos
    <2>1. pc = "collecting" /\ steps' = steps /\ pc' \in {"drafting", "done"}
        BY <1>3 DEF Collect, CollectEos
    <2>2. PICK n \in 1 .. kept + 1 : Appends(n)
        BY <1>3, CollectEosAppends, CollectAppends
    <2>3. Len(generated') \in Nat /\ Len(generated') >= Len(generated) + 1
        <3>1. kept \in Nat
            BY DEF Inv, TypeOK
        <3> QED
            BY <1>1, <2>2, <3>1 DEF Appends
    <2> QED
        BY <1>1, <2>1, <2>3 DEF Passes
<1>4. CASE Speculate \/ Accept
    BY <1>4 DEF Speculate, Accept, Passes
<1>5. CASE Reject \/ Bonus
    <2>1. /\ pc = "sampling" /\ pc' = "collecting"
          /\ steps' = steps /\ generated' = generated
        BY <1>5 DEF Reject, Bonus, Sampled
    <2> QED
        BY <2>1 DEF Passes
<1>6. CASE UNCHANGED vars
    BY <1>6 DEF Passes, vars, stepVars
<1> QED
    BY <1>2, <1>3, <1>4, <1>5, <1>6 DEF Next

\* However bad the draft is, the target runs at most once per token of the limit:
\* the loop ends without a bound of its own.
THEOREM NoMorePasses == Spec => []PassesBounded
<1>1. Init => Passes
    BY SpeculativeAssumption DEF Init, Passes
<1>2. Inv /\ Passes /\ [Next]_vars => Passes'
    BY PassesStep
<1>3. Passes => PassesBounded
    BY DEF Passes, PassesBounded
<1> QED
    BY <1>1, <1>2, <1>3, InvHolds, PTL DEF Spec

\* Type correctness of the loop; no more is accepted than was drafted.
THEOREM TypeCorrect == Spec => []TypeOK
<1>1. Inv => TypeOK
    BY DEF Inv
<1> QED
    BY <1>1, InvHolds, PTL

-----------------------------------------------------------------------------
(***************************************************************************)
(* The sampler.  Total is a sum over a recursive function: that there is   *)
(* such a function, and what it computes, is proved by induction over the  *)
(* subsets of Vocab, which follows from the order of the numbers being     *)
(* well-founded.  A set takes the place of the predicate that is shown.    *)
(***************************************************************************)

\* Induction over the numbers, over a set of them that holds what is to be shown.
LEMMA NumberInduction ==
    ASSUME NEW G, 0 \in G, \A n \in Nat : n \in G => n + 1 \in G
    PROVE  Nat \subseteq G
<1> DEFINE Bad == Nat \ G
<1>1. SUFFICES ASSUME Bad # {} PROVE FALSE
    OBVIOUS
<1>2. PICK n \in Bad : \A m \in Bad : ~(<<m, n>> \in OpToRel(<, Nat))
    <2>1. Bad \subseteq Nat
        OBVIOUS
    <2> HIDE DEF Bad
    <2> QED
        BY <1>1, <2>1, WFMin, NatLessThanWellFounded
<1>3. n \in Nat /\ n # 0 /\ n \notin G
    OBVIOUS
<1>4. n - 1 \in Nat /\ n - 1 < n /\ (n - 1) + 1 = n
    BY <1>3
<1>5. <<n - 1, n>> \in OpToRel(<, Nat)
    BY <1>3, <1>4 DEF OpToRel
<1>6. n - 1 \notin Bad
    BY <1>2, <1>5
<1>7. n - 1 \in G
    BY <1>4, <1>6
<1> QED
    BY <1>3, <1>4, <1>7

Pick(s) == CHOOSE x \in s : TRUE

\* The element a sum takes out of a set first.
LEMMA PickIn == \A s : s # {} => Pick(s) \in s
BY DEF Pick

\* Induction over the subsets of Vocab, in the order in which sums take elements.
LEMMA SubsetInduction ==
    ASSUME IsFiniteSet(Vocab), NEW G, {} \in G,
           \A s \in SUBSET Vocab : s # {} /\ s \ {Pick(s)} \in G => s \in G
    PROVE  SUBSET Vocab \subseteq G
<1> DEFINE N == {n \in Nat : \A s \in SUBSET Vocab : Cardinality(s) = n => s \in G}
<1>1. \A s \in SUBSET Vocab : IsFiniteSet(s) /\ Cardinality(s) \in Nat
    BY FS_Subset, FS_CardinalityType
<1>2. 0 \in N
    BY <1>1, FS_EmptySet
<1>3. ASSUME NEW n \in Nat, n \in N
      PROVE  n + 1 \in N
    <2>1. SUFFICES ASSUME NEW s \in SUBSET Vocab, Cardinality(s) = n + 1
                   PROVE  s \in G
        BY <1>3
    <2>2. IsFiniteSet(s) /\ s # {}
        BY <1>1, <2>1, FS_EmptySet
    <2>3. Pick(s) \in s
        BY <2>2, PickIn
    <2> DEFINE x == Pick(s)
    <2> HIDE DEF x
    <2>4. Cardinality(s \ {x}) = n
        <3>1. x \in s
            BY <2>3 DEF x
        <3>2. Cardinality(s \ {x}) = Cardinality(s) - 1
            BY <2>2, <3>1, FS_RemoveElement
        <3> QED
            BY <2>1, <3>2
    <2>5. s \ {Pick(s)} \in G
        BY <1>3, <2>4 DEF x
    <2> QED
        BY <2>2, <2>5
<1> HIDE DEF N
<1>4. Nat \subseteq N
    BY <1>2, <1>3, NumberInduction
<1> QED
    BY <1>1, <1>4 DEF N

\* The function behind Total.
Adds(g, w, D) == g = [s \in D |-> IF s = {} THEN 0 ELSE w[Pick(s)] + g[s \ {Pick(s)}]]

Sums(w) == CHOOSE g : Adds(g, w, SUBSET Vocab)

\* Total is what it has for the whole vocabulary.
LEMMA TotalIsSum == \A w : Total(w) = Sums(w)[Vocab]
BY DEF Total, MapThenSumSet, MapThenFoldSet, Sums, Adds, Pick

\* There is such a function, for every finite vocabulary.
LEMMA SumsDefined ==
    ASSUME IsFiniteSet(Vocab), NEW w
    PROVE  Adds(Sums(w), w, SUBSET Vocab)
<1> DEFINE D(n) == {s \in SUBSET Vocab : Cardinality(s) <= n}
           N == {n \in Nat : \E g : Adds(g, w, D(n))}
<1>1. \A s \in SUBSET Vocab : IsFiniteSet(s) /\ Cardinality(s) \in Nat
    BY FS_Subset, FS_CardinalityType
<1>2. 0 \in N
    <2> DEFINE g == [s \in D(0) |-> 0]
    <2>1. \A s \in D(0) : s = {}
        BY <1>1, FS_EmptySet
    <2>2. Adds(g, w, D(0))
        BY <2>1 DEF Adds
    <2> QED
        BY <2>2
<1>3. ASSUME NEW n \in Nat, n \in N
      PROVE  n + 1 \in N
    <2>1. PICK g : Adds(g, w, D(n))
        BY <1>3
    <2> DEFINE h == [s \in D(n + 1) |-> IF s = {} THEN 0 ELSE w[Pick(s)] + g[s \ {Pick(s)}]]
    <2>2. \A s \in D(n) : g[s] = IF s = {} THEN 0 ELSE w[Pick(s)] + g[s \ {Pick(s)}]
        BY <2>1, Zenon DEF Adds
    <2>3. D(n) \subseteq D(n + 1)
        BY <1>1
    <2>4. \A s \in D(n) : h[s] = g[s]
        BY <2>2, <2>3
    <2>5. \A s \in D(n + 1) : s # {} => s \ {Pick(s)} \in D(n)
        BY <1>1, PickIn, FS_RemoveElement
    <2>6. \A s \in D(n + 1) : s # {} => h[s \ {Pick(s)}] = g[s \ {Pick(s)}]
        BY <2>4, <2>5
    <2>7. Adds(h, w, D(n + 1))
        BY <2>6 DEF Adds
    <2>8. \E f : Adds(f, w, D(n + 1))
        BY <2>7
    <2> HIDE DEF D
    <2> QED
        BY <2>8
<1> HIDE DEF N
<1>4. Nat \subseteq N
    BY <1>2, <1>3, NumberInduction
<1>5. \E g : Adds(g, w, D(Cardinality(Vocab)))
    BY <1>1, <1>4 DEF N
<1>6. D(Cardinality(Vocab)) = SUBSET Vocab
    BY FS_Subset
<1>7. \E g : Adds(g, w, SUBSET Vocab)
    BY <1>5, <1>6
<1> QED
    BY <1>7 DEF Sums

\* A sum takes its elements one by one.
LEMMA SumStep ==
    ASSUME IsFiniteSet(Vocab), NEW w, NEW s \in SUBSET Vocab
    PROVE  Sums(w)[s] = IF s = {} THEN 0 ELSE w[Pick(s)] + Sums(w)[s \ {Pick(s)}]
<1> DEFINE g == Sums(w)
<1>1. g = [t \in SUBSET Vocab |-> IF t = {} THEN 0 ELSE w[Pick(t)] + g[t \ {Pick(t)}]]
    BY SumsDefined DEF Adds
<1> HIDE DEF g
<1>2. g[s] = IF s = {} THEN 0 ELSE w[Pick(s)] + g[s \ {Pick(s)}]
    BY <1>1, Zenon
<1> QED
    BY <1>2 DEF g

\* Totals of weights are natural numbers, and add up when the weights do.
LEMMA TotalsAdd ==
    ASSUME IsFiniteSet(Vocab),
           NEW a \in [Vocab -> Nat], NEW b \in [Vocab -> Nat], NEW c \in [Vocab -> Nat],
           \A x \in Vocab : c[x] = a[x] + b[x]
    PROVE  Total(a) \in Nat /\ Total(b) \in Nat /\ Total(c) = Total(a) + Total(b)
<1> DEFINE G == {s \in SUBSET Vocab : /\ Sums(a)[s] \in Nat /\ Sums(b)[s] \in Nat
                                      /\ Sums(c)[s] = Sums(a)[s] + Sums(b)[s]}
<1>0. \A w : Sums(w)[{}] = 0
    BY SumStep, Zenon
<1>1. {} \in G
    BY <1>0
<1>2. ASSUME NEW s \in SUBSET Vocab, s # {}, s \ {Pick(s)} \in G
      PROVE  s \in G
    <2>1. Pick(s) \in Vocab
        BY <1>2, PickIn
    <2>2. /\ Sums(a)[s] = a[Pick(s)] + Sums(a)[s \ {Pick(s)}]
          /\ Sums(b)[s] = b[Pick(s)] + Sums(b)[s \ {Pick(s)}]
          /\ Sums(c)[s] = c[Pick(s)] + Sums(c)[s \ {Pick(s)}]
        BY <1>2, SumStep
    <2>3. /\ a[Pick(s)] \in Nat /\ b[Pick(s)] \in Nat
          /\ c[Pick(s)] = a[Pick(s)] + b[Pick(s)]
        BY <2>1
    <2> QED
        BY <1>2, <2>2, <2>3
<1> HIDE DEF G
<1>3. Vocab \in G
    BY <1>1, <1>2, SubsetInduction
<1> QED
    BY <1>3, TotalIsSum DEF G

\* Weights without a total are all zero.
LEMMA NoTotal ==
    ASSUME IsFiniteSet(Vocab), NEW a \in [Vocab -> Nat], Total(a) = 0
    PROVE  \A x \in Vocab : a[x] = 0
<1> DEFINE G == {s \in SUBSET Vocab : /\ Sums(a)[s] \in Nat
                                      /\ Sums(a)[s] = 0 => \A x \in s : a[x] = 0}
<1>0. \A w : Sums(w)[{}] = 0
    BY SumStep, Zenon
<1>1. {} \in G
    BY <1>0
<1>2. ASSUME NEW s \in SUBSET Vocab, s # {}, s \ {Pick(s)} \in G
      PROVE  s \in G
    <2>1. Pick(s) \in Vocab
        BY <1>2, PickIn
    <2>2. Sums(a)[s] = a[Pick(s)] + Sums(a)[s \ {Pick(s)}]
        BY <1>2, SumStep
    <2>3. a[Pick(s)] \in Nat
        BY <2>1
    <2> QED
        BY <1>2, <2>2, <2>3
<1> HIDE DEF G
<1>3. Vocab \in G
    BY <1>1, <1>2, SubsetInduction
<1> QED
    BY <1>3, TotalIsSum DEF G

\* What is kept and what is resampled have together the distribution of the target,
\* for every vocabulary and every two distributions with the same sum.
LEMMA SamplerExact ==
    ASSUME IsFiniteSet(Vocab), NEW q \in [Vocab -> Nat], NEW p \in [Vocab -> Nat],
           Total(q) = Total(p), NEW x \in Vocab
    PROVE  OutputWeight(q, p, x) = TargetWeight(q, p, x)
<1> DEFINE k == [y \in Vocab |-> Kept(q, p, y)]
           r == Residual(q, p)
<1>1. k \in [Vocab -> Nat] /\ r \in [Vocab -> Nat]
    BY DEF Kept, Residual
<1>2. \A y \in Vocab : p[y] = k[y] + r[y]
    BY DEF Kept, Residual
<1>3. Total(k) \in Nat /\ Total(r) \in Nat /\ Total(p) = Total(k) + Total(r)
    BY <1>1, <1>2, TotalsAdd
<1>4. Kept(q, p, x) = k[x] /\ k[x] \in Nat /\ r[x] \in Nat /\ p[x] = k[x] + r[x]
    BY <1>1, <1>2
<1>5. Total(q) - Total(k) = Total(r)
    BY <1>3
<1> HIDE DEF k, r
<1>6. CASE Total(r) > 0
    <2>1. Resample(q, p) = r
        BY <1>6 DEF Resample, r
    <2>2. k[x] * Total(r) + Total(r) * r[x] = p[x] * Total(r)
        BY <1>3, <1>4, SMT
    <2> QED
        BY <1>4, <1>5, <2>1, <2>2 DEF OutputWeight, TargetWeight, k
<1>7. CASE Total(r) = 0
    <2>1. r[x] = 0
        BY <1>1, <1>7, NoTotal
    <2>2. Resample(q, p) = p
        BY <1>7 DEF Resample, r
    <2>3. k[x] = p[x]
        BY <1>4, <2>1
    <2>4. p[x] * Total(p) + 0 * p[x] = p[x] * Total(p)
        BY <1>3, SMT
    <2> QED
        BY <1>4, <1>5, <1>7, <2>2, <2>3, <2>4 DEF OutputWeight, TargetWeight, k
<1> QED
    BY <1>3, <1>6, <1>7

\* In every context the loop reaches, a token comes out with exactly the weight that
\* sampling from the target directly would give it.
THEOREM SamplerIsExact == Spec => []Exact
<1>1. Inv => Exact
    <2> SUFFICES ASSUME Inv, pc = "sampling", NEW i \in 1 .. K, NEW x \in Vocab
                 PROVE  OutputWeight(DraftAt(i), TargetAt(i), x) = TargetWeight(DraftAt(i), TargetAt(i), x)
        BY DEF Exact
    <2>1. Len(drafted) = K
        BY DEF Inv, Phases
    <2>2. TypeOK /\ i \in Nat \ {0} /\ i <= Len(drafted) + 1
        BY <2>1, SpeculativeAssumption DEF Inv
    <2>3. /\ DraftAt(i) \in [Vocab -> Nat] /\ TargetAt(i) \in [Vocab -> Nat]
          /\ Total(DraftAt(i)) = Total(TargetAt(i))
        BY <2>2, Distributions
    <2> QED
        BY <2>3, SpeculativeAssumption, SamplerExact
<1> QED
    BY <1>1, InvHolds, PTL
=============================================================================
