------------------------------- MODULE MCHub -------------------------------
(***************************************************************************)
(* Small instances of Hub for TLC.                                         *)
(***************************************************************************)
EXTENDS Hub, TLC

CONSTANTS k1, k2, n1, n2, i1, i2

\* Two people with a key, a nickname and an address each.
TwoPeople == {[key |-> k1, nick |-> n1, id |-> i1], [key |-> k2, nick |-> n2, id |-> i2]}

Symmetric == Permutations(Conns)
=============================================================================
