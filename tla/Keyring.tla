------------------------------ MODULE Keyring -------------------------------
(***************************************************************************)
(* A client's own identity key on disk (loadIdentityKeys in                *)
(* internal/client/core.go, internal/crypto/wrap.go): identity_<nick>.key  *)
(* holds the bare key, identity_<nick>.key.wrap the key encrypted with a   *)
(* passphrase.  Every Connect, the first as well as a reconnect, loads the *)
(* key and signs the hub's challenge with it; the hub and the peers know   *)
(* the user by that key.                                                   *)
(*                                                                         *)
(* os.WriteFile truncates and then writes, and the process may stop        *)
(* between any two steps.  A wrapped key opens with its passphrase and no  *)
(* other.  A bare file with fewer than 64 bytes is as good as none.        *)
(***************************************************************************)
EXTENDS Naturals, FiniteSets

CONSTANTS
  Phrases,        \* passphrases the user may give
  NoPhrase,       \* CONNER_PASSPHRASE unset
  Careful,        \* whether a user who has given a passphrase keeps giving it
  WritesFail,     \* whether the disk may refuse a write
  MaxKeys         \* bound: key pairs generated

ASSUME KeyringAssumption ==
  /\ NoPhrase \notin Phrases
  /\ Careful \in BOOLEAN /\ WritesFail \in BOOLEAN /\ MaxKeys \in Nat

VARIABLES
  bare,       \* the bare key file: 0 when there is none or it is cut short
  wrapped,    \* the wrapped file: its phrase and key, key 0 when none or cut
  place,      \* where loadIdentityKeys is, "off" between two processes
  phrase,     \* the passphrase of this process
  habit,      \* the passphrase of the process before
  key,        \* the key loadIdentityKeys returns, 0 before it has one
  generated,  \* how many keys there have been
  announced   \* history: the keys sent in a hello since the last burn

files == <<bare, wrapped>>
process == <<phrase, habit>>
vars == <<files, place, process, key, generated, announced>>

KeyNumbers == 1..MaxKeys
None == [by |-> NoPhrase, key |-> 0]

\* The types of the state.
TypeOK ==
  /\ bare \in {0} \cup KeyNumbers
  /\ wrapped \in [by : Phrases \cup {NoPhrase}, key : {0} \cup KeyNumbers]
  /\ place \in {"off", "idle", "online", "bare", "wrap", "wrapping", "remove",
                "keep", "keeping", "hello"}
  /\ phrase \in Phrases \cup {NoPhrase} /\ habit \in Phrases \cup {NoPhrase}
  /\ key \in {0} \cup KeyNumbers
  /\ generated \in {0} \cup KeyNumbers
  /\ announced \subseteq KeyNumbers

Init ==
  /\ bare = 0 /\ wrapped = None
  /\ place = "off" /\ phrase = NoPhrase /\ habit = NoPhrase
  /\ key = 0 /\ generated = 0 /\ announced = {}

(***************************************************************************)
(* Processes.                                                              *)
(***************************************************************************)
\* --passphrase and CONNER_PASSPHRASE hold for the whole process.
Start(p) ==
  /\ place = "off"
  /\ Careful /\ habit # NoPhrase => p = habit
  /\ phrase' = p /\ habit' = p
  /\ place' = "idle"
  /\ UNCHANGED <<files, key, generated, announced>>

\* The process ends, is killed or crashes, in the middle of anything.
Stop ==
  /\ place # "off"
  /\ place' = "off" /\ phrase' = NoPhrase /\ key' = 0
  /\ UNCHANGED <<files, habit, generated, announced>>

\* /burn removes the profile and exits: who comes back is somebody else.  It is
\* taken between two connects, and as one step.
Burn ==
  /\ place = "online"
  /\ bare' = 0 /\ wrapped' = None
  /\ place' = "off" /\ phrase' = NoPhrase /\ habit' = NoPhrase
  /\ key' = 0 /\ announced' = {}
  /\ UNCHANGED generated

(***************************************************************************)
(* loadIdentityKeys.                                                       *)
(***************************************************************************)
Connect ==
  /\ place \in {"idle", "online"}
  /\ place' = "bare"
  /\ UNCHANGED <<files, process, key, generated, announced>>

\* A bare key is used, and moved into the wrapped file when there is a phrase.
ReadBare ==
  /\ place = "bare" /\ bare # 0
  /\ key' = bare
  /\ place' = IF phrase = NoPhrase THEN "hello" ELSE "wrap"
  /\ UNCHANGED <<files, process, generated, announced>>

\* WriteWrapped.  Its error is not looked at.
Truncates == wrapped' = None
OpenWrapped ==
  /\ place = "wrap"
  /\ \/ Truncates /\ place' = "wrapping"
     \/ WritesFail /\ place' = "remove" /\ UNCHANGED wrapped
  /\ UNCHANGED <<bare, process, key, generated, announced>>

FillWrapped ==
  /\ place = "wrapping"
  /\ \/ wrapped' = [by |-> phrase, key |-> key]
     \/ WritesFail /\ UNCHANGED wrapped
  /\ place' = "remove"
  /\ UNCHANGED <<bare, process, key, generated, announced>>

Kept == bare   \* mutant: the bare key stays
Removed == 0

RemoveBare ==
  /\ place = "remove"
  /\ bare' = Removed \/ (WritesFail /\ UNCHANGED bare)
  /\ place' = "hello"
  /\ UNCHANGED <<wrapped, process, key, generated, announced>>

\* ReadWrapped.
Opens == wrapped.key # 0 /\ phrase # NoPhrase /\ wrapped.by = phrase

ReadWrapped ==
  /\ place = "bare" /\ bare = 0 /\ Opens
  /\ key' = wrapped.key
  /\ place' = "hello"
  /\ UNCHANGED <<files, process, generated, announced>>

Stale == generated   \* mutant: the new key pair is not the one returned
FreshKey == generated + 1

\* Nothing there that opens: GenerateSigningKeyPair, whatever the reason.
Generate ==
  /\ place = "bare" /\ bare = 0 /\ ~Opens
  /\ generated < MaxKeys
  /\ generated' = generated + 1
  /\ key' = FreshKey
  /\ place' = "keep"
  /\ UNCHANGED <<files, process, announced>>

\* The new key is written before it is used: WriteWrapped with a phrase,
\* os.WriteFile without; again the error is not looked at.
OpenNew ==
  /\ place = "keep"
  /\ \/ /\ place' = "keeping"
        /\ IF phrase # NoPhrase THEN Truncates /\ UNCHANGED bare
           ELSE bare' = 0 /\ UNCHANGED wrapped
     \/ WritesFail /\ place' = "hello" /\ UNCHANGED files
  /\ UNCHANGED <<process, key, generated, announced>>

Unwritten == UNCHANGED files   \* mutant: the file is opened and not written
WriteNew == IF phrase # NoPhrase
            THEN wrapped' = [by |-> phrase, key |-> key] /\ UNCHANGED bare
            ELSE bare' = key /\ UNCHANGED wrapped

FillNew ==
  /\ place = "keeping"
  /\ WriteNew \/ (WritesFail /\ UNCHANGED files)
  /\ place' = "hello"
  /\ UNCHANGED <<process, key, generated, announced>>

\* The hello carries the key and a signature made with it; a later Connect of
\* the same process loads the key again.
Hello ==
  /\ place = "hello"
  /\ announced' = announced \cup {key}
  /\ place' = "online" /\ key' = 0
  /\ UNCHANGED <<files, process, generated>>

Next ==
  \/ \E p \in Phrases \cup {NoPhrase} : Start(p)
  \/ Stop \/ Burn \/ Connect \/ ReadBare \/ OpenWrapped \/ FillWrapped \/ RemoveBare
  \/ ReadWrapped \/ Generate \/ OpenNew \/ FillNew \/ Hello

Spec == Init /\ [][Next]_vars

-----------------------------------------------------------------------------
\* A user is one identity: every hello carries the key of the first, across
\* reconnects, crashes in the middle of a write, and the move of the bare key
\* under a passphrase.  It takes a careful user and a disk that writes.
OneIdentity == Cardinality(announced) <= 1

\* "wraps identity keys" (README.md:20): once a process with a passphrase has
\* said hello, the key it used is on disk under that passphrase, and not bare.
WrappedAtRest ==
  place = "online" /\ phrase # NoPhrase
    => bare = 0 /\ wrapped.by = phrase /\ wrapped.key \in announced
=============================================================================
