------------------------------ MODULE AclFile ------------------------------
(***************************************************************************)
(* What saveACL and loadACL promise.  A save replaces hub-acl.json in one  *)
(* step by lists that memory has held since the last save, and a restart   *)
(* goes on from the file.  Saves that meet spoil the file: it may hold     *)
(* anything until a save that met no other replaces it.                    *)
(***************************************************************************)
EXTENDS Naturals

VARIABLES mem,    \* the access lists in memory, as a version number
          file,   \* the version in hub-acl.json
          spoilt  \* two saves have met, and none has ended alone since

Init == mem = 0 /\ file = 0 /\ spoilt = FALSE

\* The lists change (/approve, /block, /op, a join): a version not yet seen.
Change == mem' \in Nat /\ mem' > mem /\ UNCHANGED <<file, spoilt>>

\* A save that met no other: whole lists, and none older than those it replaces.
Replace == /\ file' \in 0..mem /\ (spoilt \/ file' >= file)
           /\ spoilt' = FALSE /\ UNCHANGED mem

Meet == spoilt' = TRUE /\ UNCHANGED mem

\* A file that cannot be read is no file; only a spoilt one is.
Restart == mem' \in (IF spoilt THEN {0, file} ELSE {file}) /\ UNCHANGED <<file, spoilt>>

Next == Change \/ Replace \/ Meet \/ Restart

Spec == Init /\ [][Next]_<<mem, file, spoilt>>
=============================================================================
