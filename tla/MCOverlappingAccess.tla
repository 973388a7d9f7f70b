------------------------- MODULE MCOverlappingAccess -------------------------
(***************************************************************************)
(* Instances of OverlappingAccess.                                         *)
(***************************************************************************)
EXTENDS MCAccess, OverlappingAccess

CONSTANTS w1, w2
=============================================================================
