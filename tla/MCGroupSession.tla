--------------------------- MODULE MCGroupSession ---------------------------
(***************************************************************************)
(* Small groups for TLC.                                                   *)
(***************************************************************************)
EXTENDS GroupSession

CONSTANTS a, b, k
=============================================================================
