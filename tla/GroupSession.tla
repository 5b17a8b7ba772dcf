---------------------------- MODULE GroupSession ----------------------------
(***************************************************************************)
(* Sender-key group chat: the clients' read and write pumps                *)
(* (internal/client/core.go), their chains (internal/crypto/sender.go,     *)
(* ratchet.go) and the hub that relays between them                        *)
(* (internal/server/core.go).                                              *)
(*                                                                         *)
(* A seed is <<its owner, its generation>>; a ciphertext records which     *)
(* seed and which step encrypted it, the receiver only sees the step.  The *)
(* hub puts a broadcast on one recipient's queue at a time, so two         *)
(* broadcasts may reach two members in different orders; each queue is     *)
(* first in, first out.  The members start out knowing each other's seed;  *)
(* some have just connected, and Connect's goroutine has yet to publish    *)
(* theirs, beside readPump.                                                *)
(***************************************************************************)
EXTENDS Naturals, FiniteSets, Sequences, SequencesExt

CONSTANTS
  Members,
  Talkers,     \* the members who type messages
  Starting,    \* the members that have just connected
  Publishes,   \* how often Connect's goroutine publishes the seed: twice in the code
  Target,      \* the member an admin kicks
  Events,      \* the membership changes that happen
  Window,      \* how far a ratchet runs ahead: 100 in the code
  PendingMax,  \* 64 in the code: queuePending drops the oldest above it
  DownCap,     \* capacity of a Client.SendChan at the hub: 100 in the code
  OutCap,      \* capacity of SendChan at the client: 256 in the code
  MaxEvents, MaxSaid   \* bounds: membership changes, messages per member

ASSUME SessionAssumption ==
  /\ Target \in Members /\ Talkers \subseteq Members /\ Starting \subseteq Members
  /\ Events \subseteq {"join", "approve", "blockPending", "kick"}
  /\ Publishes \in Nat /\ Window \in Nat /\ PendingMax \in Nat /\ DownCap \in Nat /\ OutCap \in Nat
  /\ MaxEvents \in Nat /\ MaxSaid \in Nat

VARIABLES
  registered,   \* the members in the hub's client table
  casts,        \* broadcasts the hub has yet to start, in order
  cast,         \* the one it is at: its frame, and who has yet to get it
  relay,        \* per member: the frame its handler is relaying, and to whom
  down,         \* per member: the frames on their way to it
  outq,         \* per member: its SendChan
  own,          \* per member: myChain
  chains,       \* per member, per peer: the peer's chain (gen 0: none)
  pending,      \* per member: pendingDecrypt
  said,         \* per member: how many messages it has typed
  shown,        \* per member: the messages its TUI shows decrypted
  publishes,    \* per member: how often Connect's goroutine has yet to publish
  exported,     \* per member: the seed it has read and not sent yet (0: none)
  lost,         \* history: the members of whom, since they last queued the seed
                \* in force, a seed was dropped or an older one was queued
  used,         \* history: the message keys that decrypted something
  known, fresh, \* history: seeds a member was sent; seeds made after the kick
  kicked,       \* history: whether Target was
  events

hubVars == <<registered, casts, cast, relay, events, kicked>>
history == <<used, known, fresh>>
starter == <<publishes, exported>>
clientVars == <<own, chains, pending, shown>>
vars == <<hubVars, down, outq, lost, clientVars, said, history, starter>>

Frame == [type : {"NONE", "EPOCH", "USER_LIST", "KEY", "CHAT"},
          from : Members, gen : Nat, step : Nat, body : Nat]
Chain == [gen : Nat, step : Nat, skipped : SUBSET Nat]
Broadcast == [frame : Frame, to : SUBSET Members]

NoChain == [gen |-> 0, step |-> 0, skipped |-> {}]
NewRatchet(gen) == [gen |-> gen, step |-> 0, skipped |-> {}]

\* The types of the state.
TypeOK ==
  /\ registered \subseteq Members
  /\ casts \in Seq({"EPOCH", "USER_LIST"})
  /\ cast \in Broadcast
  /\ relay \in [Members -> Broadcast]
  /\ down \in [Members -> Seq(Frame)] /\ outq \in [Members -> Seq(Frame)]
  /\ own \in [Members -> Chain]
  /\ chains \in [Members -> [Members -> Chain]]
  /\ pending \in [Members -> Seq(Frame)]
  /\ shown \in [Members -> Seq(Members \X Nat)]
  /\ said \in [Members -> Nat] /\ lost \subseteq Members
  /\ publishes \in [Members -> 0..Publishes] /\ exported \in [Members -> Nat]

HubFrame(type) == [type |-> type, from |-> Target, gen |-> 0, step |-> 0,
                   body |-> IF kicked THEN 1 ELSE 0]
Idle == [frame |-> [type |-> "NONE", from |-> Target, gen |-> 0, step |-> 0, body |-> 0],
         to |-> {}]

Init ==
  /\ registered = Members /\ casts = <<>> /\ cast = Idle
  /\ relay = [m \in Members |-> Idle]
  /\ down = [m \in Members |-> <<>>] /\ outq = [m \in Members |-> <<>>]
  /\ own = [m \in Members |-> NewRatchet(1)]
  /\ chains = [m \in Members |-> [p \in Members |-> NewRatchet(1)]]
  /\ pending = [m \in Members |-> <<>>]
  /\ said = [m \in Members |-> 0] /\ shown = [m \in Members |-> <<>>]
  /\ lost = {} /\ used = {} /\ known = [m \in Members |-> {}] /\ fresh = {}
  /\ events = 0 /\ kicked = FALSE
  /\ publishes = [m \in Members |-> IF m \in Starting THEN Publishes ELSE 0]
  /\ exported = [m \in Members |-> 0]

(***************************************************************************)
(* The hub.                                                                *)
(***************************************************************************)
\* What each membership change broadcasts, in the code's order: a join and a
\* removal the user list and then EPOCH, ApproveClient the other way round,
\* the block of a PENDING client only the user list.
CastsOf(event) == CASE event \in {"join", "kick"} -> <<"USER_LIST", "EPOCH">>
                    [] event = "approve" -> <<"EPOCH", "USER_LIST">>
                    [] event = "blockPending" -> <<"USER_LIST">>

Stays(event) == registered   \* mutant: the kicked client is not removed first
Remaining(event) == IF event = "kick" THEN registered \ {Target} ELSE registered

MembershipEvent(event) ==
  /\ events < MaxEvents /\ event \in Events /\ casts = <<>>
  /\ event = "kick" => Target \in registered
  /\ registered' = Remaining(event)
  /\ kicked' = (kicked \/ event = "kick")
  /\ casts' = CastsOf(event)
  /\ events' = events + 1
  /\ UNCHANGED <<cast, relay, down, outq, lost, clientVars, said, history, starter>>

\* BroadcastUserList and BumpEpoch read the client table, then send.
StartCast ==
  /\ casts # <<>> /\ cast.to = {}
  /\ cast' = [frame |-> HubFrame(Head(casts)), to |-> registered]
  /\ casts' = Tail(casts)
  /\ UNCHANGED <<registered, relay, events, kicked, down, outq, lost, clientVars, said, history,
                 starter>>

\* A send to a client whose SendChan is full is dropped.
Dropped(frame) == lost' = IF frame.type = "KEY" THEN lost \cup {frame.from} ELSE lost
Deliver(p, frame) ==
  IF Len(down[p]) < DownCap
  THEN down' = [down EXCEPT ![p] = Append(@, frame)] /\ UNCHANGED lost
  ELSE UNCHANGED down /\ Dropped(frame)

CastTo(p) ==
  /\ p \in cast.to
  /\ Deliver(p, cast.frame)
  /\ cast' = [cast EXCEPT !.to = @ \ {p}]
  /\ UNCHANGED <<registered, casts, relay, events, kicked, outq, clientVars, said, history, starter>>

\* BroadcastToState: everyone but the sender.
RelayTo(m, p) ==
  /\ p \in relay[m].to
  /\ Deliver(p, relay[m].frame)
  /\ relay' = [relay EXCEPT ![m].to = @ \ {p}]
  /\ UNCHANGED <<registered, casts, cast, events, kicked, outq, clientVars, said, history, starter>>

(***************************************************************************)
(* A client's sending side.                                                *)
(***************************************************************************)
Say(m) ==
  /\ m \in Talkers \cap registered /\ said[m] < MaxSaid
  /\ Len(outq[m]) < OutCap
  /\ said' = [said EXCEPT ![m] = @ + 1]
  /\ outq' = [outq EXCEPT ![m] = Append(@, [type |-> "CHAT", from |-> m, gen |-> 0,
                                            step |-> 0, body |-> said[m] + 1])]
  /\ UNCHANGED <<hubVars, down, lost, clientVars, history, starter>>

\* publishSenderKey sends the seed ExportMySeed gave it; a full SendChan drops it.
KeyFrame(m, gen) == [type |-> "KEY", from |-> m, gen |-> gen, step |-> 0, body |-> 0]
publishSenderKey(m, gen) ==
  IF Len(outq[m]) < OutCap
  THEN /\ outq' = [outq EXCEPT ![m] = Append(@, KeyFrame(m, gen))]
       /\ lost' = IF gen = own'[m].gen THEN lost \ {m} ELSE lost \cup {m}
  ELSE UNCHANGED outq /\ Dropped(KeyFrame(m, gen))

\* Connect's goroutine calls publishSenderKey twice.  It is not readPump, which
\* may handle an EPOCH between the two halves of the call.
ExportSeed(m) ==
  /\ publishes[m] > 0 /\ exported[m] = 0
  /\ exported' = [exported EXCEPT ![m] = own[m].gen]
  /\ UNCHANGED <<hubVars, down, outq, lost, clientVars, said, history, publishes>>

EnqueueSeed(m) ==
  /\ exported[m] # 0
  /\ UNCHANGED <<hubVars, down, clientVars, said, history>>
  /\ publishSenderKey(m, exported[m])
  /\ publishes' = [publishes EXCEPT ![m] = @ - 1]
  /\ exported' = [exported EXCEPT ![m] = 0]

\* writePump: the chain in force when a message leaves SendChan encrypts it.
Encrypted(m, frame) == IF frame.type = "CHAT"
                       THEN [frame EXCEPT !.gen = own[m].gen, !.step = own[m].step]
                       ELSE frame

\* processClientMessage: a chat or a key of a member is relayed as it came.
Relayed(m, frame) == [frame |-> frame, to |-> registered \ {m}]

WritePump(m) ==
  /\ outq[m] # <<>> /\ relay[m].to = {} /\ m \in registered
  /\ relay' = [relay EXCEPT ![m] = Relayed(m, Encrypted(m, Head(outq[m])))]
  /\ own' = IF Head(outq[m]).type = "CHAT" THEN [own EXCEPT ![m].step = @ + 1] ELSE own
  /\ outq' = [outq EXCEPT ![m] = Tail(@)]
  /\ UNCHANGED <<registered, casts, cast, events, kicked, down, lost, chains, pending, shown,
                 said, history, starter>>

(***************************************************************************)
(* A client's receiving side: readPump.                                    *)
(***************************************************************************)
\* GetMessageKey (module Ratchet has it in full): whether a key is returned,
\* and the chain afterwards.
Usable(ch, n) == ch.gen # 0 /\ (n \in ch.skipped \/ (n >= ch.step /\ n <= ch.step + Window))
Advanced(ch, n) ==
  IF n \in ch.skipped THEN [ch EXCEPT !.skipped = @ \ {n}]
  ELSE [ch EXCEPT !.step = n + 1, !.skipped = @ \cup (ch.step..(n - 1))]

Decrypts(ch, frame) == Usable(ch, frame.step) /\ ch.gen = frame.gen

EpochWithoutKey(m) == UNCHANGED <<outq, lost>>   \* mutant: the new seed is not published
PublishNewSeed(m) == publishSenderKey(m, own[m].gen + 1)

\* EPOCH: a new seed, no peer chains, and the new seed is published.
ReceiveEpoch(m, frame) ==
  /\ frame.type = "EPOCH"
  /\ own' = [own EXCEPT ![m] = NewRatchet(own[m].gen + 1)]
  /\ chains' = [chains EXCEPT ![m] = [p \in Members |-> NoChain]]
  /\ PublishNewSeed(m)
  /\ fresh' = IF frame.body = 1 THEN fresh \cup {<<m, own[m].gen + 1>>} ELSE fresh
  /\ UNCHANGED <<pending, shown, used, known>>

ReceiveUserList(m, frame) ==
  /\ frame.type = "USER_LIST"
  /\ UNCHANGED <<clientVars, history>>
  /\ publishSenderKey(m, own[m].gen)

\* flushPending tries every queued message of the sender on the new chain and
\* forgets it, whether or not it decrypts; the others are left.
TryOne(acc, p, f) ==
  IF f.from # p THEN [acc EXCEPT !.left = Append(@, f)]
  ELSE IF ~Usable(acc.chain, f.step) THEN acc
  ELSE [acc EXCEPT !.chain = Advanced(@, f.step),
                   !.read = IF Decrypts(acc.chain, f) THEN Append(@, f) ELSE @]
Flushed(queue, p, gen) ==
  LET after[i \in 0..Len(queue)] ==
        IF i = 0 THEN [chain |-> NewRatchet(gen), read |-> <<>>, left |-> <<>>]
        ELSE TryOne(after[i - 1], p, queue[i])
  IN  after[Len(queue)]

Swapped(frames) ==   \* mutant: sender and text are mixed up
  [i \in 1..Len(frames) |-> <<frames[i].body, frames[i].from>>]
Bodies(frames) == [i \in 1..Len(frames) |-> <<frames[i].from, frames[i].body>>]
KeysOf(m, frames) == {<<m, frames[i].from, frames[i].gen, frames[i].step>> : i \in 1..Len(frames)}

KeepAll(queue, done) == queue   \* mutant: flushed messages stay queued
LeftPending(queue, done) == done.left

Reply(m) == publishSenderKey(m, own[m].gen)   \* mutant: a key is answered with a key
AfterAdopt(m) == UNCHANGED <<outq, lost>>

\* SENDER_KEY: AdoptPeer starts the peer's ratchet at step 0, whatever it was.
ReceiveKey(m, frame) ==
  LET p == frame.from  done == Flushed(pending[m], p, frame.gen) IN
  /\ frame.type = "KEY"
  /\ chains' = [chains EXCEPT ![m][p] = done.chain]
  /\ pending' = [pending EXCEPT ![m] = LeftPending(@, done)]
  /\ shown' = [shown EXCEPT ![m] = @ \o Bodies(done.read)]
  /\ used' = used \cup KeysOf(m, done.read)
  /\ known' = [known EXCEPT ![m] = @ \cup {<<p, frame.gen>>}]
  /\ UNCHANGED <<own, fresh>>
  /\ AfterAdopt(m)

\* CHAT: a key that does not decrypt is spent all the same ("[decrypt failed]").
ReceiveChat(m, frame) ==
  LET ch == chains[m][frame.from] IN
  /\ frame.type = "CHAT" /\ Usable(ch, frame.step)
  /\ chains' = [chains EXCEPT ![m][frame.from] = Advanced(ch, frame.step)]
  /\ IF Decrypts(ch, frame)
     THEN /\ shown' = [shown EXCEPT ![m] = Append(@, <<frame.from, frame.body>>)]
          /\ used' = used \cup KeysOf(m, <<frame>>)
     ELSE UNCHANGED <<shown, used>>
  /\ UNCHANGED <<own, pending, known, fresh, outq, lost>>

\* No key: queuePending, and the client publishes its own seed again.
Queued(q, frame) == Append(IF Len(q) > PendingMax THEN Tail(q) ELSE q, frame)

ReceiveUnreadable(m, frame) ==
  /\ frame.type = "CHAT" /\ ~Usable(chains[m][frame.from], frame.step)
  /\ pending' = [pending EXCEPT ![m] = Queued(@, frame)]
  /\ UNCHANGED <<own, chains, shown, history>>
  /\ publishSenderKey(m, own[m].gen)

ReadPump(m) ==
  /\ down[m] # <<>>
  /\ down' = [down EXCEPT ![m] = Tail(@)]
  /\ LET frame == Head(down[m]) IN
       \/ ReceiveEpoch(m, frame) \/ ReceiveUserList(m, frame) \/ ReceiveKey(m, frame)
       \/ ReceiveChat(m, frame) \/ ReceiveUnreadable(m, frame)
  /\ UNCHANGED <<hubVars, said, starter>>

Hub == StartCast \/ \E p \in Members : CastTo(p) \/ \E m \in Members : RelayTo(m, p)

Next == \/ \E event \in Events : MembershipEvent(event)
        \/ Hub
        \/ \E m \in Members : \/ Say(m) \/ WritePump(m) \/ ReadPump(m)
                               \/ ExportSeed(m) \/ EnqueueSeed(m)

Spec == Init /\ [][Next]_vars

\* Goroutines that can move do, and TCP delivers what was written.
FairSpec == /\ Spec /\ WF_vars(StartCast)
            /\ \A p \in Members : WF_vars(CastTo(p)) /\ WF_vars(WritePump(p))
                                  /\ WF_vars(ReadPump(p)) /\ WF_vars(ExportSeed(p))
                                  /\ WF_vars(EnqueueSeed(p))
            /\ \A m, p \in Members : WF_vars(RelayTo(m, p))

-----------------------------------------------------------------------------
\* Nothing is on its way to or from a registered member, or about to be.
Settled == /\ casts = <<>> /\ cast.to = {}
           /\ \A m \in registered : /\ outq[m] = <<>> /\ down[m] = <<>> /\ relay[m].to = {}
                                    /\ publishes[m] = 0

\* No message is shown twice, although its frame may be queued and tried again
\* when a key arrives (queuePending, flushPending).
ShownOnce == \A m \in Members : IsInjective(shown[m])

\* When everything has arrived, nobody holds a seed that its owner has replaced,
\* unless, after the owner last queued its seed in force, one was dropped at a
\* full queue or Connect's goroutine queued one it had read before the EPOCH
\* (core.go:1170, 1175): a later publish of any kind mends both.
NoStaleChain ==
  Settled => \A m, p \in registered :
               m # p /\ p \notin lost => chains[m][p].gen \in {0, own[p].gen}

\* "Clients reset sender chains and republish seeds" (THREAT_MODEL.md:39), without
\* those exceptions: the seed that is queued last is the one in force.
SeedsAreReplaced ==
  Settled => \A m, p \in registered : m # p => chains[m][p].gen \in {0, own[p].gen}

\* "A kicked client should not decrypt new traffic if members rotated"
\* (THREAT_MODEL.md:39): it is never sent a seed made for the EPOCH after the kick.
KickedLearnsNoSeed == known[Target] \cap fresh = {}

\* Keys are not answered with keys for ever: the exchange comes to rest.
EventuallySettles == <>[]Settled

\* "Missed keys queue ciphertext and flush on seed" (ARCHITECTURE.md:19): when
\* everything has arrived, each message is shown or still queued.
NoMessageLost ==
  Settled => \A m, p \in registered : m # p =>
    \A b \in 1..said[p] : \/ <<p, b>> \in Range(shown[m])
                          \/ \E i \in 1..Len(pending[m]) :
                               pending[m][i].from = p /\ pending[m][i].body = b

\* "Clients reset sender chains and republish seeds" (THREAT_MODEL.md:39): when
\* everything has arrived, each member has every other member's seed.
EveryoneHasKeys ==
  Settled => \A m, p \in registered : m # p => chains[m][p].gen = own[p].gen

\* "cannot decrypt past messages (forward secrecy enforced)" (ratchet.go:77):
\* a key that has decrypted a message cannot be derived again.
UsedKeysAreGone ==
  \A u \in used : LET ch == chains[u[1]][u[2]] IN ch.gen = u[3] => ~Usable(ch, u[4])

\* The next message of a member whose seed is known can be read.
NextIsReadable ==
  Settled => \A m, p \in registered : m # p /\ chains[m][p].gen = own[p].gen
               => Usable(chains[m][p], own[p].step)
=============================================================================
