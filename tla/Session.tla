------------------------------ MODULE Session ------------------------------
(***************************************************************************)
(* One user's client across disconnects: the TUI loop                      *)
(* (internal/client/tui/app.go), the Client of each connection with its    *)
(* read and write pumps (internal/client/core.go), and the overflow queue  *)
(* on disk (internal/client/queue.go).                                     *)
(*                                                                         *)
(* Every Connect makes a new Client, numbered 1, 2, ...; the TUI keeps the *)
(* newest in m.cli and the goroutines of the older ones stay.  Bubble Tea  *)
(* runs each waitForMsg in a goroutine of its own and hands what it        *)
(* received to Update, so two waiters' messages may overtake each other.   *)
(* What the hub does is its own business: it sends, kicks and closes, and  *)
(* whether a chat finds its sender's key is GroupSession's.  Texts and the *)
(* screen are left out, except which chat rows there are; so are the keys  *)
(* and heartbeats a Client sends on its own, which only fill SendChan.     *)
(***************************************************************************)
EXTENDS Naturals, Sequences, FiniteSets, SequencesExt

CONSTANTS
  Rooms, DefaultRoom,
  InviteRooms, \* the rooms an invite may name
  SendCap,     \* capacity of SendChan: 256 in the code
  UpdateCap,   \* capacity of UpdateChan: 200 in the code
  Peers, NoOne,
  PendingMax,  \* 64 in the code: queuePending drops the oldest above it
  MaxConns, MaxInputs
               \* bounds: connections, and what comes from outside: messages
               \* typed, file frames, frames the hub sends, changes of room,
               \* notices of background transfers

ASSUME SessionAssumption ==
  /\ DefaultRoom \in Rooms /\ InviteRooms \subseteq Rooms
  /\ SendCap \in Nat \ {0} /\ UpdateCap \in Nat
  /\ NoOne \notin Peers /\ PendingMax \in Nat
  /\ MaxConns \in Nat \ {0} /\ MaxInputs \in Nat

Gens == 1..MaxConns

VARIABLES
  cli,         \* m.cli
  state,       \* m.state; "ONLINE" stands for the empty string
  room,        \* m.currentRoom
  reconnects,  \* attemptReconnect commands that have not dialled yet
  dialled,     \* new Clients whose reconnectMsg is on its way to Update
  waiters,     \* per Client: waitForMsg goroutines blocked on its UpdateChan
  handed,      \* messages taken from an UpdateChan, on their way to Update
  open,        \* per Client: whether its connection is
  reading,     \* per Client: whether its readPump runs
  watching,    \* per Client: whether its outbox watcher runs
  cliRoom,     \* per Client: CurrentRoom
  sendq,       \* per Client: SendChan
  updates,     \* per Client: UpdateChan
  pending,     \* per Client: pendingDecrypt, oldest is least
  flushing,    \* per Client: what flushPending took from it and has yet to try
  disk,        \* the DiskQueue
  toFlush,     \* the Clients whose flushQueue has yet to run
  draining,    \* per Client: what flushQueue drained and has yet to push
  shown,       \* the chats appended to the rows, in order
  wire,        \* the frames that reached the hub
  sent,        \* history: the kinds of the frames the hub sent
  typed, files, switches, notices   \* counters

tui == <<cli, state, room, reconnects, dialled, shown>>
inbound == <<waiters, handed, updates, pending, flushing>>
undecrypted == <<pending, flushing>>
outbound == <<sendq, disk, toFlush, draining, wire>>
clients == <<open, reading, watching, cliRoom>>
counts == <<typed, files, sent, switches, notices>>
vars == <<tui, inbound, outbound, clients, counts>>

\* A chat typed by the user (with the room it was typed in), a file frame, or a
\* change of room.
Out == [kind : {"chat", "file", "join"}, n : Nat, room : Rooms]
\* What the hub sends, and what readPump hands on: a "text" is a chat again, once
\* its sender's key has come.
Kinds == {"chat", "key", "approved", "pending", "kicked"}
In == [kind : Kinds \cup {"text", "closed", "notice"}, n : Nat, from : Peers \cup {NoOne}]
Message(kind, n) == [kind |-> kind, n |-> n, from |-> NoOne]
Undecrypted == [n : Nat, from : Peers]

\* The types of the state.
TypeOK ==
  /\ cli \in Gens /\ state \in {"PENDING", "ONLINE", "DISCONNECTED", "KICKED"}
  /\ room \in Rooms /\ reconnects \in Nat /\ dialled \subseteq Gens
  /\ waiters \in [Gens -> Nat] /\ handed \subseteq In
  /\ updates \in [Gens -> Seq(In)]
  /\ pending \in [Gens -> SUBSET Undecrypted] /\ flushing \in [Gens -> SUBSET Undecrypted]
  /\ open \in [Gens -> BOOLEAN] /\ reading \in [Gens -> BOOLEAN]
  /\ watching \in [Gens -> BOOLEAN]
  /\ cliRoom \in [Gens -> Rooms]
  /\ sendq \in [Gens -> Seq(Out)] /\ draining \in [Gens -> Seq(Out)]
  /\ disk \in Seq(Out) /\ toFlush \subseteq Gens
  /\ shown \in Seq(In)
  /\ wire \in Seq([frame : Out, room : Rooms])
  /\ typed \in Nat /\ files \in Nat /\ sent \in Seq(Kinds)
  /\ switches \in Nat /\ notices \in Nat

\* main connects, enters the invite's room, starts the outbox watcher and runs
\* the TUI, which starts in the default room.
Init ==
  /\ cli = 1 /\ state = "PENDING" /\ room = DefaultRoom
  /\ reconnects = 0 /\ dialled = {}
  /\ waiters = [g \in Gens |-> IF g = 1 THEN 1 ELSE 0] /\ handed = {}
  /\ updates = [g \in Gens |-> <<>>]
  /\ pending = [g \in Gens |-> {}] /\ flushing = pending
  /\ open = [g \in Gens |-> g = 1] /\ reading = open /\ watching = open
  /\ \E r \in InviteRooms : cliRoom = [g \in Gens |-> IF g = 1 THEN r ELSE DefaultRoom]
  /\ sendq = [g \in Gens |-> <<>>] /\ draining = [g \in Gens |-> <<>>]
  /\ disk = <<>> /\ toFlush = {} /\ shown = <<>> /\ wire = <<>>
  /\ typed = 0 /\ files = 0 /\ sent = <<>> /\ switches = 0 /\ notices = 0

MoreInput == typed + files + Len(sent) + switches + notices < MaxInputs

(***************************************************************************)
(* The connection, and the read pump.                                      *)
(***************************************************************************)
\* sendUpdate drops the message when UpdateChan is full.
sendUpdate(g, msg) ==
  updates' = IF Len(updates[g]) < UpdateCap
             THEN [updates EXCEPT ![g] = Append(@, msg)] ELSE updates

\* A frame of the hub arrives; readPump is not in the middle of flushPending.
Arrives(g, kind) ==
  /\ MoreInput /\ open[g] /\ reading[g] /\ flushing[g] = {}
  /\ sent' = Append(sent, kind)
  /\ UNCHANGED <<tui, waiters, handed, outbound, clients, typed, files, switches, notices>>

\* A chat that decrypts, or a change of the session's state, is passed on.
HubSends(g, kind) ==
  /\ Arrives(g, kind) /\ kind # "key"
  /\ sendUpdate(g, Message(kind, Len(sent) + 1))
  /\ UNCHANGED undecrypted

\* queuePending, when the sender's key is missing; the chat is passed on all the
\* same, with a note in place of its text.
AllButOldest(S) == {x \in S : \E y \in S : y.n < x.n}
queuePending(S, chat) ==
  (IF Cardinality(S) > PendingMax THEN AllButOldest(S) ELSE S) \cup {chat}

HubSendsUnreadable(g, p) ==
  /\ Arrives(g, "chat")
  /\ sendUpdate(g, Message("chat", Len(sent) + 1))
  /\ pending' = [pending EXCEPT ![g] = queuePending(@, [n |-> Len(sent) + 1, from |-> p])]
  /\ UNCHANGED flushing

\* SENDER_KEY is not passed on: flushPending takes the sender's chats, ...
HubSendsKey(g, p) ==
  /\ Arrives(g, "key")
  /\ flushing' = [flushing EXCEPT ![g] = {x \in pending[g] : x.from = p}]
  /\ pending' = [pending EXCEPT ![g] = {x \in @ : x.from # p}]
  /\ UNCHANGED updates

\* ... and hands on each that decrypts now, oldest first.
OldestOf(S) == {x \in S : \A y \in S : x.n <= y.n}
flushPending(g) ==
  /\ reading[g]
  /\ \E x \in OldestOf(flushing[g]) :
       /\ flushing' = [flushing EXCEPT ![g] = @ \ {x}]
       /\ \/ sendUpdate(g, [kind |-> "text", n |-> x.n, from |-> x.from])
          \/ UNCHANGED updates
  /\ UNCHANGED <<tui, waiters, handed, pending, outbound, clients, counts>>

\* A transfer of the Client reports to the TUI, whether or not the connection
\* still stands.
Notice(g) ==
  /\ MoreInput /\ g <= cli
  /\ notices' = notices + 1
  /\ sendUpdate(g, Message("notice", notices + 1))
  /\ UNCHANGED <<tui, waiters, handed, undecrypted, outbound, clients, typed, files, sent,
                 switches>>

\* The hub or the network ends the connection (the last one stays up).
HubCloses(g) ==
  /\ open[g] /\ g < MaxConns
  /\ open' = [open EXCEPT ![g] = FALSE]
  /\ UNCHANGED <<tui, inbound, outbound, reading, watching, cliRoom, counts>>

\* readPump returns: notify the TUI, cancel the Client's context.
ReadPumpEnds(g) ==
  /\ reading[g] /\ ~open[g] /\ flushing[g] = {}
  /\ reading' = [reading EXCEPT ![g] = FALSE]
  /\ watching' = [watching EXCEPT ![g] = FALSE]
  /\ sendUpdate(g, Message("closed", 0))
  /\ UNCHANGED <<tui, waiters, handed, undecrypted, outbound, open, cliRoom, counts>>

(***************************************************************************)
(* The write pump and the queue on disk.                                   *)
(***************************************************************************)
\* The room is stamped when the frame leaves SendChan.  On a closed connection
\* SendFrame fails and the frame is gone.
Stamp(g) == cliRoom[g]

WritePump(g) ==
  /\ sendq[g] # <<>>
  /\ sendq' = [sendq EXCEPT ![g] = Tail(@)]
  /\ wire' = IF open[g] THEN Append(wire, [frame |-> Head(sendq[g]), room |-> Stamp(g)])
             ELSE wire
  /\ UNCHANGED <<tui, inbound, disk, toFlush, draining, clients, counts>>

\* DiskQueue.Enqueue appends a line to the file.
Enqueue(frame) == Append(disk, frame)

\* EnqueueOrSend (file frames only): SendChan, or the disk when it is full.
EnqueueOrSend(g, frame) ==
  IF Len(sendq[g]) < SendCap
  THEN sendq' = [sendq EXCEPT ![g] = Append(@, frame)] /\ UNCHANGED disk
  ELSE disk' = Enqueue(frame) /\ UNCHANGED sendq

FileFrame(g) ==
  /\ MoreInput /\ watching[g]
  /\ files' = files + 1
  /\ EnqueueOrSend(g, [kind |-> "file", n |-> files + 1, room |-> DefaultRoom])
  /\ UNCHANGED <<tui, inbound, toFlush, draining, wire, clients, typed, sent, switches,
                 notices>>

NotRemoved == disk   \* mutant: Drain leaves the file
Removed == <<>>

\* flushQueue, once per Client: Drain reads and removes the file, ...
Drain(g) ==
  /\ g \in toFlush
  /\ toFlush' = toFlush \ {g}
  /\ draining' = [draining EXCEPT ![g] = disk]
  /\ disk' = Removed
  /\ UNCHANGED <<tui, inbound, sendq, wire, clients, counts>>

\* ... then the frames go to SendChan.  At the first that does not fit,
\* flushQueue puts that one back and returns: the rest is forgotten.
FlushOne(g) ==
  /\ draining[g] # <<>>
  /\ IF Len(sendq[g]) < SendCap
     THEN /\ sendq' = [sendq EXCEPT ![g] = Append(@, Head(draining[g]))]
          /\ draining' = [draining EXCEPT ![g] = Tail(@)]
          /\ UNCHANGED disk
     ELSE /\ disk' = Enqueue(Head(draining[g]))
          /\ draining' = [draining EXCEPT ![g] = <<>>]
          /\ UNCHANGED sendq
  /\ UNCHANGED <<tui, inbound, toFlush, wire, clients, counts>>

(***************************************************************************)
(* The TUI loop.                                                           *)
(***************************************************************************)
\* A waitForMsg goroutine receives.
Take(g) ==
  /\ waiters[g] > 0 /\ updates[g] # <<>>
  /\ waiters' = [waiters EXCEPT ![g] = @ - 1]
  /\ handed' = handed \cup {Head(updates[g])}
  /\ updates' = [updates EXCEPT ![g] = Tail(@)]
  /\ UNCHANGED <<tui, undecrypted, outbound, clients, counts>>

NextState(kind) == CASE kind = "approved" -> "ONLINE"
                     [] kind = "pending" -> "PENDING"
                     [] kind = "kicked" -> "KICKED"
                     [] kind = "closed" -> IF state = "KICKED" THEN state ELSE "DISCONNECTED"
                     [] OTHER -> state

AskedTwice(kind) ==   \* mutant: a second command for the same close
  IF kind = "closed" /\ state # "KICKED" THEN reconnects + 2 ELSE reconnects
OnlyMembers(kind) ==   \* mutant: no retry while waiting for approval
  IF kind = "closed" /\ state = "ONLINE" THEN reconnects + 1 ELSE reconnects
Asked(kind) == IF kind = "closed" /\ state # "KICKED" THEN reconnects + 1 ELSE reconnects

WaitTwice == [waiters EXCEPT ![cli] = @ + 2]   \* mutant: one command per branch
WaitAgain == [waiters EXCEPT ![cli] = @ + 1]

IsRow(msg) == msg.kind \in {"chat", "text"}

\* incomingMsg; Update ends by waiting on the Client that is current now.
Incoming(msg) ==
  /\ msg \in handed
  /\ handed' = handed \ {msg}
  /\ state' = NextState(msg.kind)
  /\ reconnects' = Asked(msg.kind)
  /\ shown' = IF IsRow(msg) THEN Append(shown, msg) ELSE shown
  /\ waiters' = WaitAgain
  /\ UNCHANGED <<cli, room, dialled, updates, undecrypted, outbound, clients, counts>>

\* attemptReconnect, after 5 s: Connect makes a new Client in the default room,
\* without an outbox watcher, or fails and is tried again.
Unused == {g \in Gens : g > cli /\ g \notin dialled}

Dial ==
  /\ reconnects > 0
  /\ \E g \in Unused :
       /\ \A h \in Unused : g <= h
       /\ reconnects' = reconnects - 1
       /\ dialled' = dialled \cup {g}
       /\ open' = [open EXCEPT ![g] = TRUE]
       /\ reading' = [reading EXCEPT ![g] = TRUE]
       /\ toFlush' = toFlush \cup {g}
       /\ pending' = [pending EXCEPT ![g] = {}] /\ flushing' = [flushing EXCEPT ![g] = {}]
  /\ UNCHANGED <<cli, state, room, shown, waiters, handed, updates, sendq, disk, draining, wire,
                 watching, cliRoom, counts>>

\* reconnectMsg: the new Client replaces the old one.
Connected(g) == "CONNECTED"   \* mutant: a state the TUI does not know
Installed(g) == "ONLINE"

Reconnected(g) ==
  /\ g \in dialled
  /\ dialled' = dialled \ {g}
  /\ cli' = g /\ state' = Installed(g)
  /\ waiters' = [waiters EXCEPT ![g] = @ + 1]
  /\ UNCHANGED <<room, reconnects, shown, handed, updates, undecrypted, outbound, clients, counts>>

\* handleInput: a message is echoed, and waits for room in SendChan.
Type ==
  /\ MoreInput
  /\ Len(sendq[cli]) < SendCap
  /\ typed' = typed + 1
  /\ sendq' = [sendq EXCEPT ![cli] =
                 Append(@, [kind |-> "chat", n |-> typed + 1, room |-> room])]
  /\ UNCHANGED <<tui, inbound, disk, toFlush, draining, wire, clients, files, sent, switches,
                 notices>>

\* switchRoom also sends ROOM_JOIN, unless SendChan is full.
SwitchRoom(r) ==
  /\ MoreInput /\ r # room
  /\ switches' = switches + 1
  /\ room' = r
  /\ cliRoom' = [cliRoom EXCEPT ![cli] = r]
  /\ sendq' = IF Len(sendq[cli]) < SendCap
              THEN [sendq EXCEPT ![cli] =
                      Append(@, [kind |-> "join", n |-> switches + 1, room |-> r])]
              ELSE sendq
  /\ UNCHANGED <<cli, state, reconnects, dialled, shown, inbound, disk, toFlush, draining,
                 wire, open, reading, watching, typed, files, sent, notices>>

Pump(g) == WritePump(g) \/ FlushOne(g)
Next ==
  \/ \E g \in Gens : \/ \E kind \in Kinds : HubSends(g, kind)
                     \/ \E p \in Peers : HubSendsUnreadable(g, p) \/ HubSendsKey(g, p)
                     \/ flushPending(g)
                     \/ Notice(g) \/ HubCloses(g) \/ ReadPumpEnds(g) \/ FileFrame(g) \/ Drain(g)
                     \/ Pump(g) \/ Take(g) \/ Reconnected(g)
  \/ \E msg \in handed : Incoming(msg)
  \/ Dial \/ Type
  \/ \E r \in Rooms : SwitchRoom(r)

Spec == Init /\ [][Next]_vars

\* Goroutines that can move do, a read on a closed connection ends, and a hub
\* that is up is reached in the end (Connect is retried every 5 s).
FairSpec ==
  /\ Spec /\ WF_vars(Dial)
  /\ WF_vars(\E msg \in handed : Incoming(msg))
  /\ \A g \in Gens : WF_vars(ReadPumpEnds(g)) /\ WF_vars(flushPending(g)) /\ WF_vars(Take(g))
                     /\ WF_vars(Reconnected(g)) /\ WF_vars(Pump(g))

-----------------------------------------------------------------------------
\* No frame reaches the hub twice, whichever way it went: through SendChan, the
\* disk, or the disk more than once (flushQueue puts a frame back).
SentOnce == \A i, j \in 1..Len(wire) : wire[i].frame = wire[j].frame => i = j

\* A user never has two sessions: a connection that is open belongs to the
\* Client the TUI has or is about to get, and there is at most one of these to
\* come (the hub would refuse the second for its nickname).
OneSession ==
  /\ reconnects + Cardinality(dialled) <= 1
  /\ \A g \in Gens : open[g] => g = cli \/ g \in dialled

\* Rows appear in the order the hub sent the chats, across reconnects, except that
\* a chat whose text had to wait for its sender's key comes again later: after its
\* first row, once, and in order with the other late texts of its sender.  (Not
\* after a late notice of an old Client: it starts a second waitForMsg on the new.)
Precedes(x, y) == x.n < y.n \/ (y.kind = "text" /\ (x.kind = "text" => x.from # y.from))
ShownInOrder ==
  notices = 0 => \A i, j \in 1..Len(shown) : i < j => Precedes(shown[i], shown[j])

\* "Disconnect: client rebuilds every 5s" (WORKFLOW.md:10): a lost connection is
\* replaced, unless the user was kicked.  (With room in UpdateChan: ClosedIsNoticed.)
ComesBack ==
  \A g \in Gens : cli = g /\ ~open[g] ~> cli # g \/ "kicked" \in Range(sent)

-----------------------------------------------------------------------------
(* What the texts say of the client and the code does not do. *)

\* "Always notify the TUI when the connection ends" (client/core.go:315).
ClosedIsNoticed ==
  \A g \in Gens : cli = g /\ ~reading[g] =>
    \/ state \in {"DISCONNECTED", "KICKED"} \/ Message("closed", 0) \in handed
    \/ \E i \in 1..Len(updates[g]) : updates[g][i].kind = "closed"

\* "Outbox queue 256 frames (survives short disconnects ...)" (ARCHITECTURE.md:36):
\* a message that was typed is queued or has reached the hub.
Queued(n) == \/ \E g \in Gens, i \in 1..SendCap :
                  i <= Len(sendq[g]) /\ sendq[g][i].kind = "chat" /\ sendq[g][i].n = n
             \/ \E i \in 1..Len(wire) : wire[i].frame.kind = "chat" /\ wire[i].frame.n = n
TypedIsKept == \A n \in 1..typed : Queued(n)

\* "Outbound overflow -> ~/.conner/queue/<nick>.ndjson" (ARCHITECTURE.md:28): a
\* frame in the overflow queue stays there until it is in a SendChan.
Holds(s, frame) == \E i \in 1..Len(s) : s[i] = frame
Overflow == Range(disk) \cup UNION {Range(draining[g]) : g \in Gens}
OverflowIsKept ==
  [][\A f \in Overflow : f \in Overflow' \/ \E g \in Gens : Holds(sendq'[g], f)]_vars

\* "/room ops is a room id on the wire" (WORKFLOW.md:5): a message goes out under
\* the room it was typed in.
RoomOnWire ==
  \A i \in 1..Len(wire) : wire[i].frame.kind = "chat" => wire[i].room = wire[i].frame.room

\* "Files: ~/.conner/rooms/<room>/outbox -> FILE_PUT" (WORKFLOW.md:6): the outbox is
\* watched whenever the client is connected.
OutboxWatched == state = "ONLINE" /\ open[cli] => watching[cli]
=============================================================================
