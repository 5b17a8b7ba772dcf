----------------------------- MODULE KeyProofs ------------------------------
(***************************************************************************)
(* Whom a client knows by which key: its own key on disk (Keyring), for    *)
(* any passphrases and any number of keys, processes and crashes, the keys *)
(* of its peers (Pins), for every set of peers and keys, and the keys of   *)
(* their messages (Ratchet), for every window and every order of steps.    *)
(***************************************************************************)
EXTENDS Keyring, Pins, Ratchet, FiniteSetTheorems, TLAPS

\* The key the next loadIdentityKeys returns, given the passphrase of habit.
Loads(k) == /\ k # 0
            /\ bare # 0 => bare = k
            /\ bare = 0 => wrapped = [by |-> habit, key |-> k] /\ habit # NoPhrase

\* No order of file operations hides an announced key.
AnnouncedLoads == \A k \in announced : Loads(k)

\* Where loadIdentityKeys is says what the two files hold.
PlaceOK ==
  /\ place # "off" => phrase = habit
  /\ place \in {"wrap", "wrapping", "remove"} => bare = key /\ key # 0 /\ phrase # NoPhrase
  /\ place = "remove" => wrapped = [by |-> phrase, key |-> key]
  /\ place \in {"keep", "keeping"} => announced = {} /\ bare = 0 /\ key # 0
  /\ place = "hello" => Loads(key)
  /\ place = "hello" /\ phrase # NoPhrase => bare = 0

KeyringInv == TypeOK /\ AnnouncedLoads /\ PlaceOK /\ WrappedAtRest

LEMMA KeyringInit == Init => KeyringInv
BY KeyringAssumption DEF Init, KeyringInv, TypeOK, AnnouncedLoads, PlaceOK, WrappedAtRest, None, KeyNumbers

\* What a crash, a careless user or a disk that refuses a write can leave: a
\* key that was generated, or none, in the files and in the process.  A new key
\* is one that no file and no hello has held.
KeysOK ==
  /\ TypeOK
  /\ bare <= generated /\ wrapped.key <= generated /\ key <= generated
  /\ \A k \in announced : k <= generated
  /\ place \in {"wrap", "wrapping", "remove", "keep", "keeping", "hello"} => key # 0

LEMMA KeysStep == ASSUME KeysOK, [Next]_vars PROVE KeysOK'
<1> USE KeyringAssumption DEF KeysOK, TypeOK, None, KeyNumbers, files, process
<1>1. ASSUME NEW p \in Phrases \cup {NoPhrase}, Start(p) PROVE KeysOK'
  BY <1>1 DEF Start
<1>2. CASE Stop BY <1>2 DEF Stop
<1>3. CASE Burn BY <1>3 DEF Burn
<1>4. CASE Connect \/ ReadBare BY <1>4 DEF Connect, ReadBare
<1>5. CASE OpenWrapped BY <1>5 DEF OpenWrapped, Truncates
<1>6. CASE FillWrapped BY <1>6 DEF FillWrapped
<1>7. CASE RemoveBare BY <1>7 DEF RemoveBare, Removed
<1>8. CASE ReadWrapped BY <1>8 DEF ReadWrapped, Opens
<1>9. CASE Generate BY <1>9 DEF Generate, Opens, FreshKey
<1>10. CASE OpenNew BY <1>10 DEF OpenNew, Truncates
<1>11. CASE FillNew BY <1>11 DEF FillNew, WriteNew
<1>12. CASE Hello BY <1>12 DEF Hello
<1>13. CASE UNCHANGED vars BY <1>13 DEF vars
<1>14. QED
  BY <1>1, <1>2, <1>3, <1>4, <1>5, <1>6, <1>7, <1>8, <1>9, <1>10, <1>11, <1>12, <1>13
  DEF Next

\* The files and the process keep their types whoever the user is and whatever
\* the disk refuses; in particular every key a hello carries is one
\* loadIdentityKeys generated, never the empty key.
THEOREM KeyringTyped == Spec => []TypeOK
<1>1. Init => KeysOK
  BY KeyringAssumption DEF Init, KeysOK, TypeOK, None, KeyNumbers
<1>2. QED BY <1>1, KeysStep, PTL DEF Spec, KeysOK

\* Every step preserves KeyringInv, for a user who keeps a passphrase and a disk that
\* takes what is written.
LEMMA KeyringStep ==
  ASSUME Careful = TRUE, WritesFail = FALSE, KeyringInv, [Next]_vars
  PROVE  KeyringInv'
<1> USE KeyringAssumption
    DEF KeyringInv, TypeOK, AnnouncedLoads, PlaceOK, WrappedAtRest, Loads, None, KeyNumbers, files, process
<1>1. ASSUME NEW p \in Phrases \cup {NoPhrase}, Start(p) PROVE KeyringInv'
  BY <1>1 DEF Start
<1>2. CASE Stop BY <1>2 DEF Stop
<1>3. CASE Burn BY <1>3 DEF Burn
<1>4. CASE Connect BY <1>4 DEF Connect
<1>5. CASE ReadBare BY <1>5 DEF ReadBare
<1>6. CASE OpenWrapped BY <1>6 DEF OpenWrapped, Truncates
<1>7. CASE FillWrapped BY <1>7 DEF FillWrapped
<1>8. CASE RemoveBare BY <1>8 DEF RemoveBare, Removed
<1>9. CASE ReadWrapped BY <1>9 DEF ReadWrapped, Opens
<1>10. CASE Generate BY <1>10 DEF Generate, Opens, FreshKey
<1>11. CASE OpenNew BY <1>11 DEF OpenNew, Truncates
<1>12. CASE FillNew BY <1>12 DEF FillNew, WriteNew
<1>13. CASE Hello BY <1>13 DEF Hello
<1>14. CASE UNCHANGED vars BY <1>14 DEF vars
<1>15. QED
  BY <1>1, <1>2, <1>3, <1>4, <1>5, <1>6, <1>7, <1>8, <1>9, <1>10, <1>11, <1>12, <1>13,
     <1>14 DEF Next

\* For a careful user and a disk that writes, every hello carries the same key,
\* whatever crashes and reconnects come between (loadIdentityKeys).
THEOREM UserIsOneIdentity ==
  ASSUME Careful = TRUE, WritesFail = FALSE
  PROVE  Spec => []OneIdentity
<1>1. Spec => []KeyringInv
  BY KeyringInit, KeyringStep, PTL DEF Spec
<1>2. KeyringInv => OneIdentity
  <2> SUFFICES ASSUME KeyringInv PROVE Cardinality(announced) <= 1
    BY DEF OneIdentity
  <2>1. CASE announced = {}
    BY <2>1, FS_EmptySet
  <2>2. ASSUME NEW k \in announced PROVE Cardinality(announced) <= 1
    <3>1. announced = {k}
      BY <2>2 DEF KeyringInv, AnnouncedLoads, Loads
    <3>2. Cardinality({k}) = 1
      BY FS_Singleton, Zenon
    <3>3. QED BY <3>1, <3>2
  <2>3. QED BY <2>1, <2>2
<1>3. QED BY <1>1, <1>2, PTL

\* Under the same conditions, a process that was given a passphrase leaves the
\* key it announced wrapped and no bare copy of it.
THEOREM KeyIsWrapped ==
  ASSUME Careful = TRUE, WritesFail = FALSE
  PROVE  Spec => []WrappedAtRest
<1>1. Spec => []KeyringInv
  BY KeyringInit, KeyringStep, PTL DEF Spec
<1>2. QED BY <1>1, PTL DEF KeyringInv

-----------------------------------------------------------------------------
(* The identity store. *)

\* The inductive invariant: UntrustedIsBlocked is not inductive, because it
\* does not say whose warning keeps the write pump from sending.
PinsInv == PinsTypeOK /\ Blocked /\ MismatchIsReal

\* The empty store satisfies the invariant.
LEMMA PinsInitially == PinsInit => PinsInv
BY NoKeyAssumption, NoNickAssumption
DEF PinsInit, PinsInv, PinsTypeOK, Blocked, MismatchIsReal, Untrusted, Nothing,
       NoEntry, KeyOrNone

\* What save does to the file and the count of failures.
LEMMA SaveTypes ==
  ASSUME PinsTypeOK, Identities' \in [Nicks -> KeyOrNone], save
  PROVE  saved' \in [Nicks -> KeyOrNone] /\ failures' \in Nat
BY DEF PinsTypeOK, save

\* Every step preserves the invariant.
LEMMA PinsStep == PinsInv /\ [PinsNext]_pinsVars => PinsInv'
<1> SUFFICES ASSUME PinsInv, [PinsNext]_pinsVars PROVE PinsInv'
  OBVIOUS
<1> USE NoKeyAssumption, NoNickAssumption DEF KeyOrNone, NoEntry, Untrusted, store
<1>1. ASSUME NEW n \in Nicks, NEW k \in Keys, ReadEntry(n, k) PROVE PinsInv'
  BY <1>1 DEF ReadEntry, PinsInv, PinsTypeOK, Blocked, MismatchIsReal
<1>2. CASE Check
  <2> DEFINE n == entry.nick  k == entry.key
  <2>0. n \in Nicks /\ k \in Keys
    BY <1>2 DEF Check, PinsInv, PinsTypeOK
  <2>1. CASE CheckNew(n, k)
    <3>1. Identities' = [Identities EXCEPT ![n] = k] /\ UNCHANGED mismatch
      BY <2>1 DEF CheckNew
    <3>2. Identities' \in [Nicks -> KeyOrNone]
      BY <2>0, <3>1 DEF PinsInv, PinsTypeOK
    <3>3. PinsTypeOK'
      BY <1>2, <2>1, <3>1, <3>2, SaveTypes DEF Check, CheckNew, PinsInv, PinsTypeOK
    <3>4. QED
      BY <1>2, <2>0, <2>1, <3>1, <3>3 DEF Check, CheckNew, PinsInv, PinsTypeOK, Blocked, MismatchIsReal
  <2>2. CASE CheckChanged(n, k)
    BY <1>2, <2>0, <2>2 DEF Check, CheckChanged, Noted, PinsInv, PinsTypeOK, Blocked, MismatchIsReal
  <2>3. CASE CheckKnown(n, k)
    BY <1>2, <2>0, <2>3 DEF Check, CheckKnown, PinsInv, PinsTypeOK, Blocked, MismatchIsReal
  <2>4. QED
    BY <1>2, <2>1, <2>2, <2>3 DEF Check
<1>3. CASE EncryptDm
  BY <1>3 DEF EncryptDm, PinsInv, PinsTypeOK, Blocked, MismatchIsReal
<1>4. CASE Restart
  BY <1>4 DEF Restart, Nothing, PinsInv, PinsTypeOK, Blocked, MismatchIsReal
<1>5. ASSUME NEW n \in Nicks, PassDm(n) PROVE PinsInv'
  BY <1>5 DEF PassDm, PinsInv, PinsTypeOK, Blocked, MismatchIsReal
<1>6. ASSUME NEW n \in Nicks, Trust(n) PROVE PinsInv'
  <2>1. /\ Identities' = [Identities EXCEPT ![n] = mismatch[n]]
        /\ mismatch' = [mismatch EXCEPT ![n] = NoKey]
    BY <1>6 DEF Trust, Trusted, Cleared
  <2>2. Identities' \in [Nicks -> KeyOrNone]
    BY <2>1 DEF PinsInv, PinsTypeOK
  <2>3. PinsTypeOK'
    BY <1>6, <2>1, <2>2, SaveTypes DEF Trust, PinsInv, PinsTypeOK
  <2>4. QED
    BY <1>6, <2>1, <2>3 DEF Trust, PinsInv, PinsTypeOK, Blocked, MismatchIsReal
<1>7. CASE UNCHANGED pinsVars
  BY <1>7 DEF pinsVars, PinsInv, PinsTypeOK, Blocked, MismatchIsReal
<1>8. QED
  BY <1>1, <1>2, <1>3, <1>4, <1>5, <1>6, <1>7 DEF PinsNext

\* The invariant holds throughout.
LEMMA PinsInvariant == PinsSpec => []PinsInv
BY PinsInitially, PinsStep, PTL DEF PinsSpec

\* Between two entries of a USER_LIST, a DM key whose identity is not the
\* pinned one blocks the write pump: no order of entries, /trust and restarts,
\* for any number of peers and keys, unblocks it early (identity_store.go).
THEOREM KeyChangeBlocks == PinsSpec => []UntrustedIsBlocked
<1>1. PinsInv => UntrustedIsBlocked
  BY NoNickAssumption DEF PinsInv, Blocked, UntrustedIsBlocked, HasMismatch, NoEntry
<1>2. QED
  BY <1>1, PinsInvariant, PTL

\* A warning is about a key that differs from the pinned one, so the blockade
\* always has a key change behind it (Check and Trust of identity_store.go).
THEOREM WarningsAreReal == PinsSpec => []MismatchIsReal
BY PinsInvariant, PTL DEF PinsInv

-----------------------------------------------------------------------------
(* The keys of its messages. *)

\* The chain key is the one of the current step, and so is every stored key.
KeysInStep == chainKey = step /\ \A n \in Skipped : skippedKeys[n] = n

\* The inductive invariant.
RatchetInv == RatchetTypeOK /\ KeysInStep /\ RightKey /\ NoKeyLost

\* A fresh ratchet satisfies the invariant.
LEMMA RatchetInitially == RatchetInit => RatchetInv
BY WindowAssumption
   DEF RatchetInit, RatchetInv, RatchetTypeOK, KeysInStep, RightKey, NoKeyLost, Skipped

\* Every answer of GetMessageKey preserves it.
LEMMA RatchetStep == ASSUME RatchetInv, [RatchetNext]_ratchetVars PROVE RatchetInv'
<1> USE DEF RatchetInv, RatchetTypeOK, KeysInStep, RightKey, NoKeyLost, Skipped
<1>1. ASSUME NEW t \in 0..MaxStep, TakeSkipped(t) PROVE RatchetInv'
  BY <1>1, WindowAssumption DEF TakeSkipped, Dropped, Return
<1>2. ASSUME NEW t \in 0..MaxStep, TooOld(t) \/ TooFar(t) PROVE RatchetInv'
  BY <1>2, WindowAssumption DEF TooOld, TooFar, Fail
<1>3. ASSUME NEW t \in 0..MaxStep, Advance(t) PROVE RatchetInv'
  <2>1. t \in Nat /\ t >= step /\ chainKey' = t + 1 /\ step' = t + 1
    BY <1>3, WindowAssumption DEF Advance, LoopEnd
  <2>2. Skipped' = Skipped \cup (step..(t - 1))
    BY <1>3 DEF Advance, OnTheWay, LoopEnd
  <2>3. \A n \in Skipped' : skippedKeys'[n] = n
    BY <1>3, <2>1, <2>2 DEF Advance, OnTheWay, LoopEnd, KeyAt
  <2>4. asked' = t /\ answer' = "key" /\ returned' = t /\ handed' = handed \cup {t}
        /\ returns' = returns + 1
    BY <1>3, <2>1 DEF Advance, Return, KeyAt, LoopEnd
  <2>5. skippedKeys' \in [Skipped' -> Nat]
    BY <1>3, <2>1, <2>2, <2>3 DEF Advance, OnTheWay, LoopEnd
  <2>6. NoKeyLost'
    BY <2>1, <2>2, <2>4
  <2> QED BY <2>1, <2>2, <2>3, <2>4, <2>5, <2>6, WindowAssumption
<1>4. CASE UNCHANGED ratchetVars
  BY <1>4 DEF ratchetVars
<1> QED BY <1>1, <1>2, <1>3, <1>4 DEF RatchetNext, GetMessageKey

\* The ratchet's state keeps its types, for every window and bound.
THEOREM RatchetTyped == RatchetSpec => []RatchetTypeOK
<1>1. RatchetSpec => []RatchetInv BY RatchetInitially, RatchetStep, PTL DEF RatchetSpec
<1> QED BY <1>1, PTL DEF RatchetInv

\* GetMessageKey returns the sender's key for the step it was asked for.
THEOREM KeysAreRight == RatchetSpec => []RightKey
<1>1. RatchetSpec => []RatchetInv BY RatchetInitially, RatchetStep, PTL DEF RatchetSpec
<1> QED BY <1>1, PTL DEF RatchetInv

\* Every step before the front was handed out or is still held, never both.
THEOREM KeysAreKept == RatchetSpec => []NoKeyLost
<1>1. RatchetSpec => []RatchetInv BY RatchetInitially, RatchetStep, PTL DEF RatchetSpec
<1> QED BY <1>1, PTL DEF RatchetInv

\* GetMessageKey hands out each key at most once and none beyond the window:
\* the ratchet implements KeyWindow.
THEOREM RatchetImplementsWindow == RatchetSpec => ImplementsKeyWindow
<1>1. RatchetInit => Promise!Init
  BY DEF RatchetInit, Promise!Init
<1>2. ASSUME RatchetInv, [RatchetNext]_ratchetVars
      PROVE  [Promise!Next]_<<handed, returns, step>>
  <2> USE DEF RatchetInv, RatchetTypeOK, NoKeyLost, Skipped
  <2>1. ASSUME NEW t \in 0..MaxStep, TakeSkipped(t) PROVE Promise!Next
    <3>1. t \in 0..(step + Window) /\ t < step /\ t \notin handed
      BY <1>2, <2>1, WindowAssumption DEF TakeSkipped
    <3>2. Promise!Hand(t) BY <1>2, <2>1, <3>1 DEF TakeSkipped, Return, Promise!Hand
    <3> QED BY <3>1, <3>2 DEF Promise!Next
  <2>2. ASSUME NEW t \in 0..MaxStep, TooOld(t) \/ TooFar(t)
        PROVE  UNCHANGED <<handed, returns, step>>
    BY <2>2 DEF TooOld, TooFar, Fail
  <2>3. ASSUME NEW t \in 0..MaxStep, Advance(t) PROVE Promise!Next
    <3>1. t \in 0..(step + Window) /\ t >= step /\ t \notin handed
      BY <1>2, <2>3, WindowAssumption DEF Advance, IsFar
    <3>2. Promise!Hand(t) BY <2>3, <3>1 DEF Advance, LoopEnd, Return, Promise!Hand
    <3> QED BY <3>1, <3>2 DEF Promise!Next
  <2>4. CASE UNCHANGED ratchetVars
    BY <2>4 DEF ratchetVars
  <2> QED BY <1>2, <2>1, <2>2, <2>3, <2>4 DEF RatchetNext, GetMessageKey
<1>3. RatchetSpec => []RatchetInv BY RatchetInitially, RatchetStep, PTL DEF RatchetSpec
<1> QED BY <1>1, <1>2, <1>3, PTL DEF RatchetSpec, ImplementsKeyWindow, Promise!Spec
=============================================================================
