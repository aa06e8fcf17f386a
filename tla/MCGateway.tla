------------------------------ MODULE MCGateway ------------------------------
(***************************************************************************)
(* Instances of Gateway for TLC.                                           *)
(***************************************************************************)
EXTENDS Gateway, TLC

CONSTANTS h1, h2

Symmetric == Permutations(Handlers)

\* The answers decide nothing.
WithoutAnswer ==
    <<pc, kind, stamp, limiterVars, sha, script, redis, depth, saved, shutting, clock>>
=============================================================================
