------------------------------- MODULE MCPins -------------------------------
(***************************************************************************)
(* Pins with two peers and two keys.                                       *)
(***************************************************************************)
EXTENDS Pins, TLC

Symmetric == Permutations(Nicks) \cup Permutations(Keys)
=============================================================================
