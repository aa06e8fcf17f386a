--------------------------- MODULE MCBatchScheduler ---------------------------
(***************************************************************************)
(* Instances of BatchScheduler for TLC: more requests than fit in a batch, *)
(* so that batches fill, overflow into the next and are flushed partly     *)
(* full.  Prompts, limits and ends come in every order of length; r2 warms *)
(* every batch it is in, and two of the others may then get another text.  *)
(***************************************************************************)
EXTENDS BatchScheduler, TLC

CONSTANTS r1, r2, r3, r4

Prompts == r1 :> <<1>> @@ r2 :> <<2, 3, 4>> @@ r3 :> <<2, 3>> @@ r4 :> <<4>>
Limits == r1 :> 3 @@ r2 :> 1 @@ r3 :> 2 @@ r4 :> 2
Warmth == r1 :> 1 @@ r2 :> 2 @@ r3 :> 1 @@ r4 :> 1
Said ==
    <<1>> :> <<{<<5, 6, 7, 8, 0>>}, {<<5, 6, 7, 8, 0>>, <<6, 0>>}>>
        @@ <<2, 3, 4>> :> <<{<<3, 5, 0>>}, {<<3, 5, 0>>}>>
        @@ <<2, 3>> :> <<{<<7, 0>>}, {<<7, 0>>, <<4, 7, 0>>}>>
        @@ <<4>> :> <<{<<8, 9, 5, 0>>}, {<<8, 9, 5, 0>>}>>
=============================================================================
