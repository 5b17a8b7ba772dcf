----------------------------- MODULE MCHubConns -----------------------------
(***************************************************************************)
(* Two connections for TLC: with a limit of 0 the second one meets it.     *)
(***************************************************************************)
EXTENDS HubConns

CONSTANTS c1, c2
=============================================================================
