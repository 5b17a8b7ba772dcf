----------------------------- MODULE KeyWindow -----------------------------
(***************************************************************************)
(* What a receiving ratchet promises: each message key is handed out at    *)
(* most once, and never one more than Window steps past the front.         *)
(***************************************************************************)
EXTENDS Naturals

CONSTANT Window

VARIABLES used,   \* the steps whose key was handed out
          count,  \* how many keys were handed out
          front   \* one more than the highest of them

Init == used = {} /\ count = 0 /\ front = 0

Hand(n) ==
  /\ n \notin used
  /\ used' = used \cup {n} /\ count' = count + 1
  /\ front' = IF n >= front THEN n + 1 ELSE front

Next == \E n \in 0..(front + Window) : Hand(n)

Spec == Init /\ [][Next]_<<used, count, front>>
=============================================================================
