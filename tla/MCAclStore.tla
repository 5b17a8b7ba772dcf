----------------------------- MODULE MCAclStore -----------------------------
(***************************************************************************)
(* AclStore for TLC: the savers are alike, and so are the inodes.          *)
(***************************************************************************)
EXTENDS AclStore, TLC

Symmetric == Permutations(Inodes) \cup Permutations(Savers)
=============================================================================
