---------------------------- MODULE MCSpeculative ----------------------------
(***************************************************************************)
(* An instance of Speculative for TLC: three tokens, two of which follow   *)
(* each other in the target, and three pairs of models: a draft that       *)
(* differs everywhere, one that is the target, and one that proposes what  *)
(* the target never says.                                                  *)
(***************************************************************************)
EXTENDS Speculative, TLC

CONSTANTS a, b, eos, bos

Weights(wa, wb, we) == a :> wa @@ b :> wb @@ eos :> we

\* After a only b or the end, after b mostly a.
Alternating ==
    bos :> Weights(2, 2, 0) @@ a :> Weights(0, 3, 1) @@ b :> Weights(3, 1, 0) @@ eos :> Weights(4, 0, 0)
Uniform == [c \in Contexts |-> Weights(1, 2, 1)]
Wrong ==
    bos :> Weights(0, 0, 4) @@ a :> Weights(4, 0, 0) @@ b :> Weights(1, 3, 0) @@ eos :> Weights(0, 4, 0)

ModelPairs == {[draft |-> d, target |-> Alternating] : d \in {Uniform, Alternating, Wrong}}

Percent30 == <<3, 10>>
=============================================================================
