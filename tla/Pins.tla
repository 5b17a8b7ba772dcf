-------------------------------- MODULE Pins --------------------------------
(***************************************************************************)
(* Trust on first use: a client's IdentityStore                            *)
(* (internal/client/identity_store.go) as its three users see it.  The     *)
(* read pump takes each entry of a USER_LIST in two steps, first the       *)
(* peer's DM key (PeerE2E), then Check of its identity key; the write pump *)
(* asks HasMismatch and later reads PeerE2E; the TUI runs /trust.  The DM  *)
(* key of a peer stands for the identity key it was announced with; every  *)
(* client of the repository announces both.  The store's own mutex makes   *)
(* each of its methods one step, the rename makes the saved file whole.    *)
(***************************************************************************)
EXTENDS Naturals

CONSTANTS Nicks, Keys, NoKey, NoNick,
          MaxEntries, MaxFailures, MaxRestarts   \* bounds

ASSUME NoKeyAssumption == NoKey \notin Keys
ASSUME NoNickAssumption == NoNick \notin Nicks
ASSUME BoundsAssumption == /\ MaxEntries \in Nat
                           /\ MaxFailures \in Nat /\ MaxRestarts \in Nat

VARIABLES
  Identities,  \* nick -> the pinned key
  mismatch,    \* nick -> a changed key that was seen and is not trusted
  saved,       \* the pins in the file
  PeerE2E,     \* nick -> the identity key whose DM key is in use
  entry,       \* the USER_LIST entry whose identity the read pump is to check
  sending,     \* the peer whose DM has passed the write pump's HasMismatch
  sent,        \* history: DMs, as <<peer, the identity key they are readable for>>
  entries, failures, restarts

store == <<Identities, mismatch, saved>>
pinsVars == <<store, PeerE2E, entry, sending, sent, entries, failures, restarts>>

KeyOrNone == Keys \cup {NoKey}
NoEntry == [nick |-> NoNick, key |-> NoKey]
Nothing == [n \in Nicks |-> NoKey]

\* The types of the state.
PinsTypeOK ==
  /\ Identities \in [Nicks -> KeyOrNone] /\ mismatch \in [Nicks -> KeyOrNone]
  /\ saved \in [Nicks -> KeyOrNone] /\ PeerE2E \in [Nicks -> KeyOrNone]
  /\ entry \in [nick : Nicks, key : Keys] \cup {NoEntry}
  /\ sending \in Nicks \cup {NoNick}
  /\ sent \subseteq Nicks \X KeyOrNone
  /\ entries \in Nat /\ failures \in Nat /\ restarts \in Nat

PinsInit ==
  /\ Identities = Nothing /\ mismatch = Nothing /\ saved = Nothing
  /\ PeerE2E = Nothing /\ entry = NoEntry /\ sending = NoNick /\ sent = {}
  /\ entries = 0 /\ failures = 0 /\ restarts = 0

\* save: the file is replaced, or the write fails and nobody is told.
save ==
  \/ saved' = Identities' /\ UNCHANGED failures
  \/ /\ failures < MaxFailures
     /\ failures' = failures + 1
     /\ UNCHANGED saved

(***************************************************************************)
(* The read pump, for an entry of a USER_LIST.                             *)
(***************************************************************************)
ReadEntry(n, k) ==
  /\ entries < MaxEntries /\ entry = NoEntry
  /\ entries' = entries + 1
  /\ PeerE2E' = [PeerE2E EXCEPT ![n] = k]
  /\ entry' = [nick |-> n, key |-> k]
  /\ UNCHANGED <<store, sending, sent, failures, restarts>>

CheckNew(n, k) ==
  /\ Identities[n] = NoKey
  /\ Identities' = [Identities EXCEPT ![n] = k]
  /\ save
  /\ UNCHANGED mismatch

NotNoted(n, k) == mismatch   \* mutant: the changed key is only reported
Noted(n, k) == [mismatch EXCEPT ![n] = k]

CheckChanged(n, k) ==
  /\ Identities[n] \notin {NoKey, k}
  /\ mismatch' = Noted(n, k)
  /\ UNCHANGED <<Identities, saved, failures>>

CheckKnown(n, k) ==
  /\ Identities[n] = k
  /\ mismatch' = [mismatch EXCEPT ![n] = NoKey]
  /\ UNCHANGED <<Identities, saved, failures>>

Check ==
  /\ entry # NoEntry
  /\ LET n == entry.nick  k == entry.key IN
       CheckNew(n, k) \/ CheckChanged(n, k) \/ CheckKnown(n, k)
  /\ entry' = NoEntry
  /\ UNCHANGED <<PeerE2E, sending, sent, entries, restarts>>

(***************************************************************************)
(* The write pump, for a DM (a chat asks HasMismatch in the same way).     *)
(***************************************************************************)
HasMismatch == \E n \in Nicks : mismatch[n] # NoKey

PassDm(n) ==
  /\ sending = NoNick /\ ~HasMismatch
  /\ sending' = n
  /\ UNCHANGED <<store, PeerE2E, entry, sent, entries, failures, restarts>>

\* Without a DM key the text goes out as it is.
EncryptDm ==
  /\ sending # NoNick
  /\ sent' = sent \cup {<<sending, PeerE2E[sending]>>}
  /\ sending' = NoNick
  /\ UNCHANGED <<store, PeerE2E, entry, entries, failures, restarts>>

(***************************************************************************)
(* /trust, and a restart of the client or of its session: every Connect    *)
(* makes a new store.                                                      *)
(***************************************************************************)
NotCleared(n) == mismatch  \* mutant: the warning outlives /trust
Cleared(n) == [mismatch EXCEPT ![n] = NoKey]

Trusted(n) == mismatch[n]

Trust(n) ==
  /\ mismatch[n] # NoKey
  /\ Identities' = [Identities EXCEPT ![n] = Trusted(n)]
  /\ mismatch' = Cleared(n)
  /\ save
  /\ UNCHANGED <<PeerE2E, entry, sending, sent, entries, restarts>>

\* NewIdentityStore loads the pins; the open warnings and the DM keys are gone.
Restart ==
  /\ restarts < MaxRestarts
  /\ restarts' = restarts + 1
  /\ Identities' = saved /\ mismatch' = Nothing
  /\ PeerE2E' = Nothing /\ entry' = NoEntry /\ sending' = NoNick
  /\ UNCHANGED <<saved, sent, entries, failures>>

PinsNext == \/ \E n \in Nicks, k \in Keys : ReadEntry(n, k)
        \/ Check \/ EncryptDm \/ Restart
        \/ \E n \in Nicks : PassDm(n) \/ Trust(n)

PinsSpec == PinsInit /\ [][PinsNext]_pinsVars

-----------------------------------------------------------------------------
Untrusted(n) == PeerE2E[n] # NoKey /\ PeerE2E[n] # Identities[n]

\* Whenever the read pump is between two entries, a DM key that came with an
\* identity other than the pinned one keeps the write pump from sending: what
\* /trust, a peer's return and other peers' entries do to the warnings never
\* unblocks it too early ("key change blocks sending", THREAT_MODEL.md:64).
UntrustedIsBlocked ==
  entry = NoEntry => \A n \in Nicks : Untrusted(n) => HasMismatch

\* A warning is always about a key that differs from the pinned one.
MismatchIsReal ==
  \A n \in Nicks : mismatch[n] # NoKey => Identities[n] \notin {NoKey, mismatch[n]}

\* The strengthening of UntrustedIsBlocked that every step preserves: an unpinned
\* DM key has a warning of its own peer, or the Check of the identity it came
\* with is the read pump's next step; and a warning is about the key in use, so
\* that /trust pins no other.
Blocked ==
  /\ \A n \in Nicks : Untrusted(n) => mismatch[n] # NoKey \/ entry.nick = n
  /\ entry # NoEntry => PeerE2E[entry.nick] = entry.key
  /\ \A n \in Nicks : mismatch[n] # NoKey => PeerE2E[n] = mismatch[n] \/ entry.nick = n

\* "Identity TOFU: key change blocks sending until /trust" (THREAT_MODEL.md:64):
\* no DM is encrypted for an identity that is not the pinned one.
DmForPinned ==
  [][\A n \in Nicks : sending = n /\ sent' # sent => ~Untrusted(n)]_pinsVars
=============================================================================
