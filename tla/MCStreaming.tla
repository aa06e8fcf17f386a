----------------------------- MODULE MCStreaming -----------------------------
(***************************************************************************)
(* An instance of Streaming for TLC: two streams and one executor thread,  *)
(* with a text held back in the middle of one and a text that looks like   *)
(* the error sentinel in the other.                                        *)
(***************************************************************************)
EXTENDS Streaming, TLC

CONSTANTS s1, s2

Generated == s1 :> <<"text", "empty", "text">> @@ s2 :> <<"text", "marker">>
=============================================================================
