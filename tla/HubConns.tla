------------------------------ MODULE HubConns ------------------------------
(***************************************************************************)
(* The connections of a hub as sockets and goroutines: the accept loop     *)
(* with its limit (StartOn), one handleConnection per connection, the      *)
(* write pump it starts, the heartbeat that closes silent connections, and *)
(* the frames of internal/protocol/protocol.go.                            *)
(*                                                                         *)
(* SendFrame is two writes, a length and a payload, so a frame is two      *)
(* items on the wire, and two goroutines that wrote to one connection      *)
(* could mix their halves.  What a hello contains, who is a member and     *)
(* what the messages say is left to Hub and GroupSession; messages to one  *)
(* client are numbered.  No message of the hub is longer than MaxFrame: it *)
(* relays what it read in a frame.  Deadlines may pass at any moment.      *)
(***************************************************************************)
EXTENDS Naturals, FiniteSets, Sequences, SequencesExt

CONSTANTS
  Conns,      \* the connections that come
  NoConn,
  MaxRaw,     \* the limit of the accept loop: 500 in the code
  Cap,        \* capacity of Client.SendChan: 100 in the code
  MaxSends    \* bound: messages the hub has for one client

ASSUME ConnsAssumption == NoConn \notin Conns /\ IsFiniteSet(Conns)
ASSUME LimitsAssumption == MaxRaw \in Nat /\ Cap \in Nat \ {0} /\ MaxSends \in Nat

VARIABLES
  gate,       \* the accepted connection the loop has yet to count
  rawConns,   \* RawConns
  handler,    \* where each handleConnection is
  sock,       \* the hub's end of each connection
  peer,       \* whether the client at the other end is still there
  registered, \* ClientManager.clients
  met,        \* the clients a broadcast may have in its copy of the table
  sendChan,   \* Client.SendChan
  pump,       \* where each write pump is
  inHand,     \* the message a pump is writing, 0 when none
  accepted,   \* history: what SendChan took
  wire        \* what the hub has written to each connection

listener == <<gate, rawConns>>
table == <<registered, met>>
pumping == <<pump, inHand>>
queue == <<sendChan, accepted>>
vars == <<listener, handler, sock, peer, table, pumping, queue, wire>>

\* A frame is one of the handshake, or the n-th message SendChan took.
Frame == [kind : {"KeyExchange", "HandshakeOk", "HandshakeErr", "message"}, n : Nat]
Item == [part : {"length", "payload"}, of : Frame]
KeyExchange == [kind |-> "KeyExchange", n |-> 0]
HandshakeOk == [kind |-> "HandshakeOk", n |-> 0]
HandshakeErr == [kind |-> "HandshakeErr", n |-> 0]
Message(n) == [kind |-> "message", n |-> n]

Places == {"none", "dropped", "key", "keyPayload", "hello", "err", "errPayload",
           "ok", "okPayload", "join", "read", "exit", "done"}
Running == Places \ {"none", "dropped", "done"}

\* The types of the state.
TypeOK ==
  /\ gate \in Conns \cup {NoConn} /\ rawConns \in Nat
  /\ handler \in [Conns -> Places]
  /\ sock \in [Conns -> {"open", "closed"}] /\ peer \in [Conns -> {"there", "gone"}]
  /\ registered \subseteq Conns /\ met \subseteq Conns
  /\ sendChan \in [Conns -> Seq(Nat)] /\ accepted \in [Conns -> Seq(Nat)]
  /\ pump \in [Conns -> {"none", "range", "length", "payload", "ended"}]
  /\ inHand \in [Conns -> Nat]
  /\ wire \in [Conns -> Seq(Item)]

Init ==
  /\ gate = NoConn /\ rawConns = 0
  /\ handler = [c \in Conns |-> "none"]
  /\ sock = [c \in Conns |-> "open"] /\ peer = [c \in Conns |-> "there"]
  /\ registered = {} /\ met = {}
  /\ sendChan = [c \in Conns |-> <<>>] /\ accepted = [c \in Conns |-> <<>>]
  /\ pump = [c \in Conns |-> "none"] /\ inHand = [c \in Conns |-> 0]
  /\ wire = [c \in Conns |-> <<>>]

Goto(c, place) == handler' = [handler EXCEPT ![c] = place]
Close(c) == sock' = [sock EXCEPT ![c] = "closed"]

(***************************************************************************)
(* The accept loop: one goroutine, which reads the counter and then adds.  *)
(***************************************************************************)
OneMore == rawConns > MaxRaw + 1   \* mutant: the limit is compared off by one
Full == rawConns > MaxRaw

Drop(c) ==
  /\ gate = NoConn /\ handler[c] = "none" /\ Full
  /\ Close(c) /\ Goto(c, "dropped")
  /\ UNCHANGED <<listener, peer, table, pumping, queue, wire>>

Accept(c) ==
  /\ gate = NoConn /\ handler[c] = "none" /\ ~Full
  /\ gate' = c
  /\ UNCHANGED <<rawConns, handler, sock, peer, table, pumping, queue, wire>>

Count(c) ==
  /\ gate = c
  /\ gate' = NoConn /\ rawConns' = rawConns + 1
  /\ Goto(c, "key")
  /\ UNCHANGED <<sock, peer, table, pumping, queue, wire>>

(***************************************************************************)
(* SendFrame: the length, then the payload.  A write to a connection that  *)
(* was closed fails; one to a client that is gone may fail or vanish.      *)
(***************************************************************************)
CanWrite(c) == sock[c] = "open"
CanFail(c) == sock[c] = "closed" \/ peer[c] = "gone"
Write(c, part, frame) ==
  wire' = [wire EXCEPT ![c] = Append(@, [part |-> part, of |-> frame])]

\* One write of the handler, which goes on at next.
HandlerWrites(c, at, part, frame, next) ==
  /\ handler[c] = at /\ CanWrite(c)
  /\ Write(c, part, frame) /\ Goto(c, next)
  /\ UNCHANGED <<listener, sock, peer, table, pumping, queue>>

(***************************************************************************)
(* handleConnection.                                                       *)
(***************************************************************************)
SendKeyExchange(c) == \/ HandlerWrites(c, "key", "length", KeyExchange, "keyPayload")
                      \/ HandlerWrites(c, "keyPayload", "payload", KeyExchange, "hello")

\* A hello that any check refuses is answered with an error.
RefuseHello(c) ==
  /\ handler[c] = "hello" /\ peer[c] = "there" /\ sock[c] = "open"
  /\ Goto(c, "err")
  /\ UNCHANGED <<listener, sock, peer, table, pumping, queue, wire>>

SendHandshakeErr(c) == \/ HandlerWrites(c, "err", "length", HandshakeErr, "errPayload")
                       \/ HandlerWrites(c, "errPayload", "payload", HandshakeErr, "exit")

\* AddClient: from here on broadcasts fill SendChan, which nobody empties yet.
AddClient(c) ==
  /\ handler[c] = "hello" /\ peer[c] = "there" /\ sock[c] = "open"
  /\ registered' = registered \cup {c} /\ met' = met \cup {c}
  /\ Goto(c, "ok")
  /\ UNCHANGED <<listener, sock, peer, pumping, queue, wire>>

SendHandshakeOK(c) == \/ HandlerWrites(c, "ok", "length", HandshakeOk, "okPayload")
                      \/ HandlerWrites(c, "okPayload", "payload", HandshakeOk, "join")

\* A write or the read of the hello fails, or its deadline passes: the handler
\* returns, and a Client it has registered stays in the table.
HandshakeFails(c) ==
  /\ \/ handler[c] \in {"key", "keyPayload", "err", "errPayload", "ok", "okPayload"}
          /\ CanFail(c)
     \/ handler[c] = "hello"
  /\ Goto(c, "exit")
  /\ UNCHANGED <<listener, sock, peer, table, pumping, queue, wire>>

\* After the join's own messages (Send) the write pump starts.
StartPump(c) ==
  /\ handler[c] = "join"
  /\ pump' = [pump EXCEPT ![c] = "range"]
  /\ Goto(c, "read")
  /\ UNCHANGED <<listener, sock, peer, table, inHand, queue, wire>>

\* removeClient: out of the table, close.  The channel is not closed.
removeClient(c) ==
  /\ registered' = registered \ {c}
  /\ Close(c)

\* The read pump ends when the connection was closed or the client went away.
ReadFails(c) ==
  /\ handler[c] = "read" /\ CanFail(c)
  /\ removeClient(c) /\ Goto(c, "exit")
  /\ UNCHANGED <<listener, peer, met, pumping, queue, wire>>

\* The deferred end of handleConnection.
Exit(c) ==
  /\ handler[c] = "exit"
  /\ Close(c) /\ rawConns' = rawConns - 1 /\ Goto(c, "done")
  /\ UNCHANGED <<gate, peer, table, pumping, queue, wire>>

(***************************************************************************)
(* The write pump.                                                         *)
(***************************************************************************)
Unstarted(c) == pump[c] \in {"none", "range"} /\ c \in met   \* mutant: the pump starts with the registration
Ranging(c) == pump[c] = "range"

PumpTakes(c) ==
  /\ Ranging(c) /\ sendChan[c] # <<>>
  /\ inHand' = [inHand EXCEPT ![c] = Head(sendChan[c])]
  /\ sendChan' = [sendChan EXCEPT ![c] = Tail(@)]
  /\ pump' = [pump EXCEPT ![c] = "length"]
  /\ UNCHANGED <<listener, handler, sock, peer, table, accepted, wire>>

PumpWrites(c) ==
  /\ pump[c] \in {"length", "payload"} /\ CanWrite(c)
  /\ Write(c, pump[c], Message(inHand[c]))
  /\ pump' = [pump EXCEPT ![c] = IF @ = "length" THEN "payload" ELSE "range"]
  /\ inHand' = [inHand EXCEPT ![c] = IF pump[c] = "length" THEN @ ELSE 0]
  /\ UNCHANGED <<listener, handler, sock, peer, table, queue>>

GoOn == "range"   \* mutant: a failed write does not end the loop
AfterFailure == "ended"

PumpFails(c) ==
  /\ pump[c] \in {"length", "payload"} /\ CanFail(c)
  /\ pump' = [pump EXCEPT ![c] = AfterFailure]
  /\ inHand' = [inHand EXCEPT ![c] = 0]
  /\ UNCHANGED <<listener, handler, sock, peer, table, queue, wire>>

(***************************************************************************)
(* Everybody else: senders, admins, the heartbeat and the client.          *)
(***************************************************************************)
\* SendMessage, SendSystemMessage, a broadcast or a ping: never waits, drops
\* when the channel is full, and may use a copy of the table that is stale.
Send(c) ==
  /\ c \in met /\ Len(accepted[c]) < MaxSends
  /\ Len(sendChan[c]) < Cap
  /\ LET n == Len(accepted[c]) + 1 IN
       /\ sendChan' = [sendChan EXCEPT ![c] = Append(@, n)]
       /\ accepted' = [accepted EXCEPT ![c] = Append(@, n)]
  /\ UNCHANGED <<listener, handler, sock, peer, table, pumping, wire>>

\* A kick or a block removes the client from another goroutine.
Kick(c) ==
  /\ c \in registered
  /\ removeClient(c)
  /\ UNCHANGED <<listener, handler, peer, met, pumping, queue, wire>>

Trusting(c) == FALSE   \* mutant: the heartbeat only pings
Silent(c) == c \in registered /\ peer[c] = "gone"

\* A client that answers no ping for 90 s is closed; its handler does the rest.
Heartbeat(c) ==
  /\ Silent(c) /\ sock[c] = "open"
  /\ Close(c)
  /\ UNCHANGED <<listener, handler, peer, table, pumping, queue, wire>>

PeerGoes(c) ==
  /\ peer[c] = "there"
  /\ peer' = [peer EXCEPT ![c] = "gone"]
  /\ UNCHANGED <<listener, handler, sock, table, pumping, queue, wire>>

HandlerSteps(c) ==
  \/ SendKeyExchange(c) \/ RefuseHello(c) \/ SendHandshakeErr(c) \/ AddClient(c)
  \/ SendHandshakeOK(c) \/ HandshakeFails(c) \/ StartPump(c) \/ Exit(c)

Next == \E c \in Conns :
          \/ Drop(c) \/ Accept(c) \/ Count(c)
          \/ HandlerSteps(c) \/ ReadFails(c)
          \/ PumpTakes(c) \/ PumpWrites(c) \/ PumpFails(c)
          \/ Send(c) \/ Kick(c) \/ Heartbeat(c) \/ PeerGoes(c)

Spec == Init /\ [][Next]_vars

\* The accept loop and the handlers move on (the handshake has a deadline), a
\* read or a write on a closed connection returns, and the heartbeat ticks.  A
\* client need not read, so writes to an open connection need not finish, and
\* nothing need reveal that a client is gone but the heartbeat.
Fairness ==
  \A c \in Conns :
    /\ WF_vars(Drop(c) \/ Accept(c)) /\ WF_vars(Count(c))
    /\ WF_vars(HandlerSteps(c))
    /\ WF_vars(sock[c] = "closed" /\ ReadFails(c))
    /\ WF_vars(PumpTakes(c)) /\ WF_vars(sock[c] = "closed" /\ PumpFails(c))
    /\ WF_vars(Heartbeat(c))

FairSpec == Spec /\ Fairness

-----------------------------------------------------------------------------
\* What the client's ReadFrame makes of the bytes: a length, then as many
\* bytes; Garbage when they are not the payload that belongs to it.
Garbage == [kind |-> "garbage", n |-> 0]
Whole(w, i) == /\ w[2 * i - 1].part = "length"
               /\ w[2 * i] = [part |-> "payload", of |-> w[2 * i - 1].of]
ReadFrames(w) == [i \in 1..(Len(w) \div 2) |-> IF Whole(w, i) THEN w[2 * i].of ELSE Garbage]

Granted(c) == <<KeyExchange, HandshakeOk>>
                \o [i \in 1..Len(accepted[c]) |-> Message(accepted[c][i])]

\* The handshake and the write pump write to one connection and nobody else
\* does, one after the other: the client reads whole frames, first the
\* handshake and then what SendChan took, in its order and without a gap.
ReceivesInOrder ==
  \A c \in Conns : \/ IsPrefix(ReadFrames(wire[c]), Granted(c))
                   \/ ReadFrames(wire[c]) = <<KeyExchange, HandshakeErr>>

\* Although the counter is read and incremented in two steps, and handlers
\* decrement it at any time, no more than the limit and one more are served.
HandlersBounded ==
  Cardinality({c \in Conns : handler[c] \in Running}) <= MaxRaw + 1

\* The slot of a client that went away without a word is given back, wherever
\* its handler was: by the handshake's deadline or by the heartbeat.
SlotsComeBack ==
  \A c \in Conns : (peer[c] = "gone" /\ handler[c] \in Running) ~> handler[c] = "done"

\* A write pump that has something to write on a closed connection ends.
BusyPumpEnds ==
  \A c \in Conns : (sock[c] = "closed" /\ pump[c] = "range" /\ sendChan[c] # <<>>)
                     ~> pump[c] = "ended"

\* "Then close the channel so the range loop terminates" (core.go:514): the
\* pump of a client that was removed ends.  The code does not close it.
PumpsEnd == \A c \in Conns : handler[c] = "done" ~> pump[c] \in {"none", "ended"}

\* "Max raw connections (500) reached" (core.go:289): the limit is compared
\* with >, so one more is served.
AtMostMaxRaw == Cardinality({c \in Conns : handler[c] \in Running}) <= MaxRaw
=============================================================================
