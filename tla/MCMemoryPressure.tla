--------------------------- MODULE MCMemoryPressure ---------------------------
(***************************************************************************)
(* An instance of MemoryPressure for TLC.  Any three of the least sizes    *)
(* fit, so that a fourth prefix exceeds the number of entries and not the  *)
(* memory; tiny's larger state makes room by evicting one or two of the    *)
(* others, also when it replaces its smaller one; medium's larger state    *)
(* never fits.                                                             *)
(***************************************************************************)
EXTENDS MemoryPressure

CONSTANTS tiny, small, little, medium, t1, t2

SizesOf == tiny :> {2, 9} @@ small :> {3} @@ little :> {4} @@ medium :> {6, 18}
=============================================================================
