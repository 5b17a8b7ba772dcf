----------------------------- MODULE MCSession -----------------------------
(***************************************************************************)
(* Small instances of Session.                                             *)
(***************************************************************************)
EXTENDS Session

CONSTANTS general, ops, p, q
=============================================================================
