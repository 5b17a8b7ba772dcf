------------------------------ MODULE MCVault ------------------------------
(***************************************************************************)
(* Small instances of Vault.                                               *)
(***************************************************************************)
EXTENDS Vault

CONSTANTS alice, bob

\* One outbox offers every version, or every version has its own uploader.
AllByAlice == [u \in Uploads |-> alice]
InTurn == [u \in Uploads |-> IF u % 2 = 1 THEN alice ELSE bob]
=============================================================================
