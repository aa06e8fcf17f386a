----------------------------- MODULE BatchForward -----------------------------
(***************************************************************************)
(* What the executor does with a batch: the padding of the prompts         *)
(* (_prepare_and_generate in core/batcher.py), one generation for all rows *)
(* at the highest temperature among them and without their seeds, and the  *)
(* splitting of its output (generate_batch in core/inference.py); and what *)
(* generate makes of a request by itself.                                  *)
(*                                                                         *)
(* Sampling is nondeterministic: after the tokens that its mask lets it    *)
(* see, the model says one of the continuations possible at the            *)
(* temperature, up to and with its end of sequence.                        *)
(***************************************************************************)
EXTENDS Integers, Sequences, FiniteSetsExt

CONSTANTS
    Requests,       \* requests, each submitted once
    Prompt,         \* the tokens of the prompt of each request
    MaxTokens,      \* its max_tokens
    Temperature,    \* its temperature, in whole steps
    Continuations,  \* what the model may say after a prompt at a temperature
    Pad             \* pad_token_id, also the end of sequence; not part of any text

Temperatures == {Temperature[r] : r \in Requests}

ASSUME ForwardAssumption ==
    /\ \A r \in Requests :
          /\ Prompt[r] \in Seq(Nat) /\ Prompt[r] # <<>>
          /\ Temperature[r] \in Nat
          /\ MaxTokens[r] \in Nat \ {0}
          /\ Prompt[r] \in DOMAIN Continuations
          /\ \A t \in Temperatures :
                Continuations[Prompt[r]][t] # {} /\ Continuations[Prompt[r]][t] \subseteq Seq(Nat)
    /\ Pad \in Nat

Width(b) == Max({Len(Prompt[b[i]]) : i \in DOMAIN b})

Padding(b, i) == Width(b) - Len(Prompt[b[i]])

InputIds(b) ==
    [i \in DOMAIN b |->
        [j \in 1 .. Padding(b, i) |-> Pad] \o Prompt[b[i]]]

AttentionMask(b) ==
    [i \in DOMAIN b |->
        [j \in 1 .. Width(b) |-> IF j <= Padding(b, i) THEN 0 ELSE 1]]

MaxNewTokens(b) == Max({MaxTokens[b[i]] : i \in DOMAIN b})

BatchTemperature(b) == Max({Temperature[b[i]] : i \in DOMAIN b})

\* The elements of s that keep marks, in their order.
Picked(s, keep) ==
    LET upTo[n \in 0 .. Len(s)] ==
            IF n = 0 THEN <<>>
            ELSE IF keep[n] THEN Append(upTo[n - 1], s[n])
            ELSE upTo[n - 1]
    IN  upTo[Len(s)]

\* What the model sees of a row.
Visible(row, mask) == Picked(row, [j \in DOMAIN row |-> mask[j] = 1])

\* What it may go on with.
Continued(row, mask, t) ==
    IF Visible(row, mask) \in DOMAIN Continuations
    THEN Continuations[Visible(row, mask)][t] ELSE {<<>>}

Draws(ids, masks, t) ==
    LET may(i) == Continued(ids[i], masks[i], t)
    IN  {said \in [DOMAIN ids -> UNION {may(i) : i \in DOMAIN ids}] :
            \A i \in DOMAIN ids : said[i] \in may(i)}

\* model.generate: every row gets equally many tokens, as many as the longest
\* needs, and one that has ended is filled up.
ModelGenerate(ids, said, n) ==
    LET steps == LET longest == Max({Len(said[i]) : i \in DOMAIN ids})
                 IN  IF n < longest THEN n ELSE longest
    IN  [i \in DOMAIN ids |->
            ids[i] \o [j \in 1 .. steps |-> IF j <= Len(said[i]) THEN said[i][j] ELSE Pad]]

\* The first n of some tokens.
Cut(tokens, n) == IF n < Len(tokens) THEN SubSeq(tokens, 1, n) ELSE tokens

\* decode with skip_special_tokens.
Text(tokens) == Picked(tokens, [j \in DOMAIN tokens |-> tokens[j] # Pad])

\* What both functions return of the tokens of a request.
Answer(tokens) == [text |-> Text(tokens), completion_tokens |-> Len(tokens)]

\* A slip: a row is split after its own prompt, not after the padded one.
SplitUnpadded(b, output) ==
    [i \in DOMAIN b |->
        Answer(Cut(SubSeq(output[i], Len(Prompt[b[i]]) + 1, Len(output[i])), MaxTokens[b[i]]))]

\* The rows after the padded prompt, each cut to the max_tokens of its request.
Split(b, output) ==
    [i \in DOMAIN b |->
        Answer(Cut(SubSeq(output[i], Width(b) + 1, Len(output[i])), MaxTokens[b[i]]))]

\* The lists of results that the batch may have.
GenerateBatch(b) ==
    LET ids == InputIds(b)
    IN  {Split(b, ModelGenerate(ids, said, MaxNewTokens(b))) :
            said \in Draws(ids, AttentionMask(b), BatchTemperature(b))}

\* generate: what the request may get by itself at temperature t.
GenerateAlone(r, t) ==
    {Answer(Cut(said, MaxTokens[r])) : said \in Continuations[Prompt[r]][t]}
=============================================================================
