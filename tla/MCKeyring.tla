----------------------------- MODULE MCKeyring ------------------------------
(***************************************************************************)
(* Two passphrases for TLC.                                                *)
(***************************************************************************)
EXTENDS Keyring

CONSTANTS p1, p2
=============================================================================
