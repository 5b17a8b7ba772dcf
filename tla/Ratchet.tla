------------------------------ MODULE Ratchet ------------------------------
(***************************************************************************)
(* The receiving half of a sender-key chain (internal/crypto/ratchet.go):  *)
(* GetMessageKey with its window of skipped keys.  The chain key after n   *)
(* applications of kdf is the number n, and so is the message key derived  *)
(* from it: kdf is one-way, so a key is known by its position.  The step   *)
(* numbers that arrive are arbitrary: the hub may lose, reorder or repeat  *)
(* messages.  Steps stay below 2^32 (an epoch has far fewer messages).     *)
(***************************************************************************)
EXTENDS Naturals

CONSTANTS Window,     \* 100 in the code
          MaxStep     \* bound: the highest step number that arrives

ASSUME WindowAssumption == Window \in Nat /\ MaxStep \in Nat

VARIABLES
  chainKey,      \* the position of r.chainKey
  step,          \* r.step
  skippedKeys,   \* r.skippedKeys: step -> key
  handed,        \* history: the steps whose key was returned
  returns,       \* history: how many keys were returned
  asked,         \* the last target step
  answer,        \* "key", or which error
  returned       \* the key returned last

ratchetVars == <<chainKey, step, skippedKeys, handed, returns, asked, answer, returned>>

Skipped == DOMAIN skippedKeys

\* The types of the state.  No step that can arrive is beyond MaxStep, so the
\* ratchet never stands further than one past it and never holds a later key.
RatchetTypeOK ==
  /\ chainKey \in Nat /\ step \in 0..(MaxStep + 1)
  /\ Skipped \subseteq 0..MaxStep
  /\ skippedKeys \in [Skipped -> Nat]
  /\ handed \subseteq 0..MaxStep /\ returns \in Nat
  /\ asked \in 0..MaxStep
  /\ answer \in {"none", "key", "past", "far"}
  /\ returned \in Nat

\* NewRatchet
RatchetInit ==
  /\ chainKey = 0 /\ step = 0
  /\ skippedKeys = [n \in {} |-> 0]
  /\ handed = {} /\ returns = 0 /\ asked = 0 /\ answer = "none" /\ returned = 0

Return(target, k) ==
  /\ asked' = target /\ answer' = "key" /\ returned' = k
  /\ handed' = handed \cup {target} /\ returns' = returns + 1

Fail(target, error) ==
  /\ asked' = target /\ answer' = error
  /\ UNCHANGED <<chainKey, step, skippedKeys, handed, returns, returned>>

\* The key of a skipped step is deleted as it is returned.
KeptKeys(target) == skippedKeys   \* mutant: the delete is forgotten
Dropped(target) == [n \in Skipped \ {target} |-> skippedKeys[n]]

TakeSkipped(target) ==
  /\ target \in Skipped
  /\ skippedKeys' = Dropped(target)
  /\ Return(target, skippedKeys[target])
  /\ UNCHANGED <<chainKey, step>>

TooOld(target) ==
  /\ target \notin Skipped /\ target < step
  /\ Fail(target, "past")

IsFar(target) == target > step + Window

TooFar(target) ==
  /\ target \notin Skipped /\ target >= step /\ IsFar(target)
  /\ Fail(target, "far")

KeyAfter(n) == chainKey + (n - step) + 1   \* mutant: one kdf too many

\* The message key that (n - step) more kdf steps lead to.
KeyAt(n) == chainKey + (n - step)

\* Where the loop leaves r.step; it stores the keys on the way, one kdf each.
OnePast(target) == target + 1   \* mutant: the loop runs while r.step <= targetStep
LoopEnd(target) == target

LoopTooShort(target) == step..(target - 2)   \* mutant: the last skipped key is lost
OnTheWay(target) == step..(LoopEnd(target) - 1)

\* One more kdf after the loop gives the key that is returned.
Advance(target) ==
  /\ target \notin Skipped /\ target >= step /\ ~IsFar(target)
  /\ skippedKeys' = [n \in Skipped \cup OnTheWay(target) |->
                       IF n \in Skipped THEN skippedKeys[n] ELSE KeyAt(n)]
  /\ chainKey' = chainKey + (LoopEnd(target) - step) + 1
  /\ step' = LoopEnd(target) + 1
  /\ Return(target, KeyAt(LoopEnd(target)))

GetMessageKey(target) ==
  TakeSkipped(target) \/ TooOld(target) \/ TooFar(target) \/ Advance(target)

RatchetNext == \E target \in 0..MaxStep : GetMessageKey(target)

RatchetSpec == RatchetInit /\ [][RatchetNext]_ratchetVars

-----------------------------------------------------------------------------
\* The key returned is the one the sender's Next used for that step.
RightKey == answer = "key" => returned = asked

\* No key is lost on the way: every step before the front was handed out or is
\* still held, so a late message is refused only when its key was used.
NoKeyLost == /\ 0..(step - 1) = handed \cup Skipped
             /\ handed \cap Skipped = {}

\* A receiver hands out keys the way KeyWindow says.
Promise == INSTANCE KeyWindow WITH used <- handed, count <- returns, front <- step
ImplementsKeyWindow == Promise!Spec
=============================================================================
