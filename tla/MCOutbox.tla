------------------------------ MODULE MCOutbox ------------------------------
(***************************************************************************)
(* Two names for TLC.                                                      *)
(***************************************************************************)
EXTENDS Outbox

CONSTANTS f, g
=============================================================================
