--------------------------- MODULE HubConnsProofs ---------------------------
(***************************************************************************)
(* The limit of the accept loop and what a client reads, for any number of *)
(* connections, any limit and any number of messages.                      *)
(***************************************************************************)
EXTENDS HubConns, FiniteSetTheorems, SequenceTheorems, TLAPS

Served == {c \in Conns : handler[c] \in Running}

\* The counter is exact, and the connection at the gate was let through while
\* there was room: since then the counter can only have fallen.
GateOK == gate # NoConn => handler[gate] = "none" /\ rawConns <= MaxRaw

ConnsInv == /\ TypeOK /\ GateOK
            /\ rawConns = Cardinality(Served)
            /\ rawConns <= MaxRaw + 1

LEMMA ServedIsFinite == IsFiniteSet(Served) /\ Cardinality(Served) \in Nat
<1>1. Served \subseteq Conns BY DEF Served
<1>2. IsFiniteSet(Served) BY <1>1, ConnsAssumption, FS_Subset
<1>3. QED BY <1>2, FS_CardinalityType

LEMMA ConnsInit == Init => ConnsInv
<1> SUFFICES ASSUME Init PROVE ConnsInv OBVIOUS
<1>1. Served = {} BY DEF Init, Served, Running, Places
<1>2. Cardinality({}) = 0 BY FS_EmptySet, Zenon
<1>3. TypeOK BY LimitsAssumption DEF Init, TypeOK, Places
<1>4. QED BY <1>1, <1>2, <1>3, LimitsAssumption DEF ConnsInv, GateOK, Init

\* What a step of a handler or a pump writes is an item of the wire.
LEMMA WriteTypes ==
  ASSUME TypeOK, NEW c \in Conns, NEW part \in {"length", "payload"}, NEW frame \in Frame,
         Write(c, part, frame)
  PROVE  wire' \in [Conns -> Seq(Item)]
<1>1. [part |-> part, of |-> frame] \in Item BY DEF Item
<1>2. Append(wire[c], [part |-> part, of |-> frame]) \in Seq(Item) BY <1>1 DEF TypeOK
<1>3. QED BY <1>2 DEF Write, TypeOK

LEMMA HandlerWriteTypes ==
  ASSUME TypeOK, NEW c \in Conns, NEW at, NEW part \in {"length", "payload"},
         NEW frame \in Frame, NEW next \in Places, HandlerWrites(c, at, part, frame, next)
  PROVE  TypeOK'
<1>1. wire' \in [Conns -> Seq(Item)] BY WriteTypes DEF HandlerWrites
<1>2. QED BY <1>1 DEF HandlerWrites, Goto, TypeOK, listener, table, pumping, queue

\* The types of the state are preserved by every step: a handler that ends was
\* counted, so the counter stays a natural number.
LEMMA ConnsTypes ==
  ASSUME TypeOK, [Next]_vars, \A c \in Conns : handler[c] = "exit" => rawConns # 0
  PROVE  TypeOK'
<1> USE DEF listener, table, pumping, queue
<1>0. /\ KeyExchange \in Frame /\ HandshakeOk \in Frame /\ HandshakeErr \in Frame
      /\ \A n \in Nat : Message(n) \in Frame
  BY DEF Frame, KeyExchange, HandshakeOk, HandshakeErr, Message
<1>1. ASSUME NEW c \in Conns, Drop(c) \/ Accept(c) \/ Count(c) PROVE TypeOK'
  <2> USE DEF TypeOK, Places, Goto, Close
  <2>1. CASE Drop(c) BY <2>1 DEF Drop
  <2>2. CASE Accept(c) BY <2>2 DEF Accept
  <2>3. CASE Count(c) BY <2>3 DEF Count
  <2>4. QED BY <1>1, <2>1, <2>2, <2>3
<1>2. ASSUME NEW c \in Conns, SendKeyExchange(c) PROVE TypeOK'
  <2>1. "keyPayload" \in Places /\ "hello" \in Places BY DEF Places
  <2>2. QED BY <1>0, <1>2, <2>1, HandlerWriteTypes DEF SendKeyExchange
<1>3. ASSUME NEW c \in Conns, SendHandshakeErr(c) PROVE TypeOK'
  <2>1. "errPayload" \in Places /\ "exit" \in Places BY DEF Places
  <2>2. QED BY <1>0, <1>3, <2>1, HandlerWriteTypes DEF SendHandshakeErr
<1>4. ASSUME NEW c \in Conns, SendHandshakeOK(c) PROVE TypeOK'
  <2>1. "okPayload" \in Places /\ "join" \in Places BY DEF Places
  <2>2. QED BY <1>0, <1>4, <2>1, HandlerWriteTypes DEF SendHandshakeOK
<1>5. ASSUME NEW c \in Conns, RefuseHello(c) \/ AddClient(c) \/ HandshakeFails(c) \/ StartPump(c)
      PROVE  TypeOK'
  BY <1>5 DEF RefuseHello, AddClient, HandshakeFails, StartPump, Goto, TypeOK, Places
<1>6. ASSUME NEW c \in Conns, Exit(c) PROVE TypeOK'
  BY <1>6 DEF Exit, Goto, Close, TypeOK, Places
<1>7. ASSUME NEW c \in Conns, ReadFails(c) \/ Kick(c) \/ Heartbeat(c) \/ PeerGoes(c)
      PROVE  TypeOK'
  BY <1>7 DEF ReadFails, Kick, Heartbeat, PeerGoes, removeClient, Goto, Close, TypeOK, Places
<1>8. ASSUME NEW c \in Conns, PumpTakes(c) PROVE TypeOK'
  <2>1. Head(sendChan[c]) \in Nat /\ Tail(sendChan[c]) \in Seq(Nat)
    BY <1>8 DEF PumpTakes, TypeOK
  <2>2. QED BY <1>8, <2>1 DEF PumpTakes, TypeOK
<1>9. ASSUME NEW c \in Conns, PumpWrites(c) PROVE TypeOK'
  <2>1. wire' \in [Conns -> Seq(Item)]
    BY <1>0, <1>9, WriteTypes DEF PumpWrites, TypeOK
  <2>2. QED BY <1>9, <2>1 DEF PumpWrites, TypeOK
<1>10. ASSUME NEW c \in Conns, PumpFails(c) PROVE TypeOK'
  BY <1>10 DEF PumpFails, AfterFailure, TypeOK
<1>11. ASSUME NEW c \in Conns, Send(c) PROVE TypeOK'
  <2> DEFINE n == Len(accepted[c]) + 1
  <2>1. n \in Nat /\ Append(sendChan[c], n) \in Seq(Nat) /\ Append(accepted[c], n) \in Seq(Nat)
    BY DEF TypeOK
  <2>2. QED BY <1>11, <2>1 DEF Send, TypeOK
<1>12. CASE UNCHANGED vars BY <1>12 DEF vars, TypeOK
<1>13. QED
  BY <1>1, <1>2, <1>3, <1>4, <1>5, <1>6, <1>7, <1>8, <1>9, <1>10, <1>11, <1>12
  DEF Next, HandlerSteps

\* A step that moves no handler into or out of Running, and leaves the counter
\* and the gate alone or opens the gate where there is room.
LEMMA SameServed ==
  ASSUME ConnsInv, Served' = Served, rawConns' = rawConns, GateOK', TypeOK'
  PROVE  ConnsInv'
BY DEF ConnsInv

\* Count adds the connection at the gate to those served.
LEMMA CountKeeps ==
  ASSUME ConnsInv, NEW c \in Conns, Count(c), TypeOK'
  PROVE  ConnsInv'
<1>1. c \notin Served /\ rawConns <= MaxRaw
  BY ConnsAssumption DEF Count, ConnsInv, GateOK, Served, Running
<1>2. Served' = Served \cup {c}
  BY DEF Count, Goto, ConnsInv, TypeOK, Served, Running, Places
<1>3. Cardinality(Served \cup {c}) = Cardinality(Served) + 1
  BY <1>1, ServedIsFinite, FS_AddElement
<1>4. GateOK' BY DEF Count, GateOK
<1>5. rawConns' = rawConns + 1 BY DEF Count
<1>6. rawConns' = Cardinality(Served)' BY <1>2, <1>3, <1>5 DEF ConnsInv
<1>7. rawConns' <= MaxRaw + 1 BY <1>1, <1>5, LimitsAssumption DEF ConnsInv, TypeOK
<1>8. QED BY <1>4, <1>6, <1>7 DEF ConnsInv

\* Exit takes it out again.
LEMMA ExitKeeps ==
  ASSUME ConnsInv, NEW c \in Conns, Exit(c), TypeOK'
  PROVE  ConnsInv'
<1>1. c \in Served
  BY DEF Exit, Served, Running, Places
<1>2. Served' = Served \ {c}
  BY DEF Exit, Goto, ConnsInv, TypeOK, Served, Running, Places
<1>3. Cardinality(Served \ {c}) = Cardinality(Served) - 1
  BY <1>1, ServedIsFinite, FS_RemoveElement
<1>4. GateOK'
  <2> SUFFICES ASSUME gate' # NoConn PROVE handler'[gate'] = "none" /\ rawConns' <= MaxRaw
    BY DEF GateOK
  <2>1. gate' = gate /\ rawConns' = rawConns - 1 BY DEF Exit
  <2>2. gate \in Conns /\ handler[gate] = "none" /\ rawConns <= MaxRaw
    BY <2>1 DEF ConnsInv, GateOK, TypeOK
  <2>3. handler'[gate] = "none" BY <2>2 DEF Exit, Goto, ConnsInv, TypeOK
  <2>4. rawConns' <= MaxRaw BY <2>1, <2>2, LimitsAssumption DEF ConnsInv, TypeOK
  <2>5. QED BY <2>1, <2>3, <2>4
<1>5. QED
  BY <1>2, <1>3, <1>4, ServedIsFinite, LimitsAssumption DEF Exit, ConnsInv

\* Every step preserves the invariant.
LEMMA ConnsStep == ASSUME ConnsInv, [Next]_vars PROVE ConnsInv'
<1>1. \A c \in Conns : handler[c] = "exit" => rawConns # 0
  <2> SUFFICES ASSUME NEW c \in Conns, handler[c] = "exit" PROVE rawConns # 0
    OBVIOUS
  <2>1. c \in Served BY DEF Served, Running, Places
  <2>2. Cardinality(Served) # 0 BY <2>1, ServedIsFinite, FS_EmptySet
  <2>3. QED BY <2>2 DEF ConnsInv
<1>2. TypeOK'
  BY <1>1, ConnsTypes DEF ConnsInv
<1> USE <1>2 DEF Goto, Close, listener, table, pumping, queue
<1>3. ASSUME NEW c \in Conns, Count(c) PROVE ConnsInv'
  BY <1>3, CountKeeps
<1>4. ASSUME NEW c \in Conns, Exit(c) PROVE ConnsInv'
  BY <1>4, ExitKeeps
<1>5. ASSUME NEW c \in Conns, Drop(c) PROVE ConnsInv'
  <2>1. Served' = Served BY <1>5 DEF Drop, Served, Running, Places, ConnsInv, TypeOK
  <2>2. GateOK' BY <1>5 DEF Drop, GateOK, ConnsInv, TypeOK
  <2>3. QED BY <1>5, <2>1, <2>2, SameServed DEF Drop
<1>6. ASSUME NEW c \in Conns, Accept(c) PROVE ConnsInv'
  <2>1. Served' = Served BY <1>6 DEF Accept, Served
  <2>2. GateOK' BY <1>6, LimitsAssumption DEF Accept, GateOK, Full, ConnsInv, TypeOK
  <2>3. QED BY <1>6, <2>1, <2>2, SameServed DEF Accept
<1>7. ASSUME NEW c \in Conns, NEW at \in Running, NEW next \in Running,
             handler[c] = at, handler' = [handler EXCEPT ![c] = next], UNCHANGED <<gate, rawConns>>
      PROVE  ConnsInv'
  <2>1. Served' = Served BY <1>7 DEF Served, ConnsInv, TypeOK
  <2>2. GateOK' BY <1>7 DEF GateOK, ConnsInv, TypeOK, Running
  <2>3. QED BY <1>7, <2>1, <2>2, SameServed
<1>8. ASSUME UNCHANGED <<handler, gate, rawConns>> PROVE ConnsInv'
  <2>1. Served' = Served BY <1>8 DEF Served
  <2>2. GateOK' BY <1>8 DEF GateOK, ConnsInv
  <2>3. QED BY <1>8, <2>1, <2>2, SameServed
<1>9. {"key", "keyPayload", "hello", "err", "errPayload", "ok", "okPayload", "join",
       "read", "exit"} \subseteq Running
  BY DEF Running, Places
<1>10. ASSUME NEW c \in Conns,
              SendKeyExchange(c) \/ SendHandshakeErr(c) \/ SendHandshakeOK(c)
       PROVE  ConnsInv'
  BY <1>7, <1>9, <1>10 DEF SendKeyExchange, SendHandshakeErr, SendHandshakeOK, HandlerWrites
<1>11. ASSUME NEW c \in Conns,
              RefuseHello(c) \/ AddClient(c) \/ HandshakeFails(c) \/ StartPump(c) \/ ReadFails(c)
       PROVE  ConnsInv'
  BY <1>7, <1>9, <1>11
  DEF RefuseHello, AddClient, HandshakeFails, StartPump, ReadFails
<1>12. ASSUME NEW c \in Conns,
              \/ PumpTakes(c) \/ PumpWrites(c) \/ PumpFails(c)
              \/ Send(c) \/ Kick(c) \/ Heartbeat(c) \/ PeerGoes(c)
       PROVE  ConnsInv'
  BY <1>8, <1>12 DEF PumpTakes, PumpWrites, PumpFails, Send, Kick, Heartbeat, PeerGoes
<1>13. CASE UNCHANGED vars BY <1>8, <1>13 DEF vars
<1>14. QED
  BY <1>3, <1>4, <1>5, <1>6, <1>10, <1>11, <1>12, <1>13 DEF Next, HandlerSteps

LEMMA ConnsInvariant == Spec => []ConnsInv
BY ConnsInit, ConnsStep, PTL DEF Spec

\* The state of the hub's connections keeps its types; in particular the
\* counter of raw connections never falls below zero.
THEOREM ConnsTyped == Spec => []TypeOK
BY ConnsInvariant, PTL DEF ConnsInv

\* However many clients connect, and although the accept loop reads the counter
\* and increments it in two steps, at most the limit and one more are served.
THEOREM LimitHolds == Spec => []HandlersBounded
<1>1. ConnsInv => HandlersBounded
  BY DEF ConnsInv, HandlersBounded, Served
<1>2. QED BY <1>1, ConnsInvariant, PTL

-----------------------------------------------------------------------------
(* What the client reads. *)

\* The k-th frame on a connection whose hello got this answer.
FrameAt(k, answer) == IF k = 1 THEN KeyExchange ELSE IF k = 2 THEN answer ELSE Message(k - 2)

\* The bytes on the wire are those frames, a length and a payload each.
WireIs(w, answer) ==
  \A k \in Nat \ {0} :
    /\ 2 * k - 1 <= Len(w) => w[2 * k - 1] = [part |-> "length", of |-> FrameAt(k, answer)]
    /\ 2 * k <= Len(w) => w[2 * k] = [part |-> "payload", of |-> FrameAt(k, answer)]

\* How many messages the pump has taken.
Taken(c) == Len(accepted[c]) - Len(sendChan[c])

\* SendChan holds the last of what it took, in order.
ChanOK(c) ==
  /\ Len(sendChan[c]) <= Len(accepted[c])
  /\ \A i \in 1..Len(accepted[c]) : accepted[c][i] = i
  /\ \A i \in 1..Len(sendChan[c]) : sendChan[c][i] = Taken(c) + i

\* Where handler and pump are says how much is on the wire.  The pump has not
\* started before the handshake is over, and then the handler writes no more.
LengthOK(c) ==
  /\ handler[c] \in {"none", "dropped", "key"} => Len(wire[c]) = 0
  /\ handler[c] = "keyPayload" => Len(wire[c]) = 1
  /\ handler[c] \in {"hello", "err", "ok"} => Len(wire[c]) = 2
  /\ handler[c] \in {"errPayload", "okPayload"} => Len(wire[c]) = 3
  /\ handler[c] = "join" => Len(wire[c]) = 4
  /\ handler[c] \notin {"read", "exit", "done"} => pump[c] = "none"
  /\ pump[c] = "none" => Taken(c) = 0
  /\ pump[c] = "range" => Len(wire[c]) = 4 + 2 * Taken(c)
  /\ pump[c] = "length" => inHand[c] = Taken(c) /\ Taken(c) > 0 /\ Len(wire[c]) = 2 + 2 * Taken(c)
  /\ pump[c] = "payload" => inHand[c] = Taken(c) /\ Taken(c) > 0 /\ Len(wire[c]) = 3 + 2 * Taken(c)
  /\ Len(wire[c]) <= 4 + 2 * Taken(c)

\* A client that is refused has no pump.
AnswerOK(c) ==
  \/ handler[c] # "errPayload" /\ WireIs(wire[c], HandshakeOk)
  \/ /\ handler[c] \in {"errPayload", "exit", "done"} /\ pump[c] = "none"
     /\ WireIs(wire[c], HandshakeErr)

Flow(c) == ChanOK(c) /\ LengthOK(c) /\ AnswerOK(c)
FlowInv == \A c \in Conns : Flow(c)

LEMMA FlowInit == Init => FlowInv
<1> SUFFICES ASSUME Init, NEW c \in Conns PROVE Flow(c) BY DEF FlowInv
<1>1. /\ wire[c] = <<>> /\ sendChan[c] = <<>> /\ accepted[c] = <<>>
      /\ handler[c] = "none" /\ pump[c] = "none"
  BY DEF Init
<1>2. ChanOK(c) /\ LengthOK(c) BY <1>1 DEF ChanOK, LengthOK, Taken
<1>3. AnswerOK(c) BY <1>1 DEF AnswerOK, WireIs
<1>4. QED BY <1>2, <1>3 DEF Flow

\* A frame is continued where it was left: the next item is the length of the
\* k-th frame, or its payload.
LEMMA WireGrows ==
  ASSUME NEW w \in Seq(Item), NEW answer, WireIs(w, answer), NEW k \in Nat \ {0},
         NEW part \in {"length", "payload"},
         part = "length" => Len(w) = 2 * k - 2, part = "payload" => Len(w) = 2 * k - 1,
         [part |-> part, of |-> FrameAt(k, answer)] \in Item
  PROVE  WireIs(Append(w, [part |-> part, of |-> FrameAt(k, answer)]), answer)
<1> DEFINE x == [part |-> part, of |-> FrameAt(k, answer)]
           v == Append(w, x)
<1>1. /\ Len(v) = Len(w) + 1 /\ v[Len(w) + 1] = x
      /\ \A i \in 1..Len(w) : v[i] = w[i]
  OBVIOUS
<1>2. Len(w) \in Nat OBVIOUS
<1> HIDE DEF v
<1> SUFFICES ASSUME NEW j \in Nat \ {0}
             PROVE  /\ 2 * j - 1 <= Len(v) => v[2 * j - 1] = [part |-> "length", of |-> FrameAt(j, answer)]
                    /\ 2 * j <= Len(v) => v[2 * j] = [part |-> "payload", of |-> FrameAt(j, answer)]
  BY DEF WireIs, v
<1>3. ASSUME 2 * j - 1 <= Len(v)
      PROVE  v[2 * j - 1] = [part |-> "length", of |-> FrameAt(j, answer)]
  <2>1. CASE 2 * j - 1 <= Len(w)
    <3>1. 2 * j - 1 \in 1..Len(w) BY <1>2, <2>1
    <3>2. w[2 * j - 1] = [part |-> "length", of |-> FrameAt(j, answer)] BY <2>1 DEF WireIs
    <3>3. QED BY <1>1, <3>1, <3>2
  <2>2. CASE 2 * j - 1 = Len(w) + 1
    <3>1. part = "length" /\ j = k BY <1>2, <2>2
    <3>2. QED BY <1>1, <2>2, <3>1
  <2>3. QED BY <1>1, <1>2, <1>3, <2>1, <2>2
<1>4. ASSUME 2 * j <= Len(v)
      PROVE  v[2 * j] = [part |-> "payload", of |-> FrameAt(j, answer)]
  <2>1. CASE 2 * j <= Len(w)
    <3>1. 2 * j \in 1..Len(w) BY <1>2, <2>1
    <3>2. w[2 * j] = [part |-> "payload", of |-> FrameAt(j, answer)] BY <2>1 DEF WireIs
    <3>3. QED BY <1>1, <3>1, <3>2
  <2>2. CASE 2 * j = Len(w) + 1
    <3>1. part = "payload" /\ j = k BY <1>2, <2>2
    <3>2. QED BY <1>1, <2>2, <3>1
  <2>3. QED BY <1>1, <1>2, <1>4, <2>1, <2>2
<1>5. QED BY <1>3, <1>4

\* Up to the key exchange and the length of the answer, the wire is the same
\* whatever the answer is going to be.
LEMMA NotYetAnswered ==
  ASSUME NEW w \in Seq(Item), Len(w) <= 2, NEW answer, NEW other, WireIs(w, answer)
  PROVE  WireIs(w, other)
<1> SUFFICES ASSUME NEW k \in Nat \ {0}
             PROVE  /\ 2 * k - 1 <= Len(w) => w[2 * k - 1] = [part |-> "length", of |-> FrameAt(k, other)]
                    /\ 2 * k <= Len(w) => w[2 * k] = [part |-> "payload", of |-> FrameAt(k, other)]
  BY DEF WireIs
<1>1. CASE k = 1
  BY <1>1 DEF WireIs, FrameAt
<1>2. CASE k > 1
  BY <1>2
<1>3. QED BY <1>1, <1>2

\* A step of one connection leaves the others alone.
LEMMA FlowOfOne ==
  ASSUME TypeOK, FlowInv, NEW c \in Conns, Flow(c)',
         \A d \in Conns \ {c} : /\ handler'[d] = handler[d] /\ pump'[d] = pump[d]
                                /\ inHand'[d] = inHand[d] /\ wire'[d] = wire[d]
                                /\ sendChan'[d] = sendChan[d] /\ accepted'[d] = accepted[d]
  PROVE  FlowInv'
<1> SUFFICES ASSUME NEW d \in Conns, d # c PROVE Flow(d)' BY DEF FlowInv
<1>1. Flow(d) BY DEF FlowInv
<1>2. QED BY <1>1, ZenonT(60) DEF Flow, ChanOK, LengthOK, AnswerOK, Taken

\* The writes of the handler: where it is, which half of which frame it writes,
\* and where it goes on.
Script(at, part, k, answer, next) ==
  \/ at = "key" /\ part = "length" /\ k = 1 /\ next = "keyPayload"
  \/ at = "keyPayload" /\ part = "payload" /\ k = 1 /\ next = "hello"
  \/ answer = HandshakeErr /\ at = "err" /\ part = "length" /\ k = 2 /\ next = "errPayload"
  \/ answer = HandshakeErr /\ at = "errPayload" /\ part = "payload" /\ k = 2 /\ next = "exit"
  \/ answer = HandshakeOk /\ at = "ok" /\ part = "length" /\ k = 2 /\ next = "okPayload"
  \/ answer = HandshakeOk /\ at = "okPayload" /\ part = "payload" /\ k = 2 /\ next = "join"

\* One write of the handler.
LEMMA HandlerWriteFlows ==
  ASSUME TypeOK, FlowInv, NEW c \in Conns, NEW at, NEW next \in Places,
         NEW part \in {"length", "payload"}, NEW k \in {1, 2},
         NEW answer \in {HandshakeOk, HandshakeErr},
         HandlerWrites(c, at, part, FrameAt(k, answer), next),
         Script(at, part, k, answer, next)
  PROVE  FlowInv'
<1> DEFINE x == [part |-> part, of |-> FrameAt(k, answer)]
<1>1. x \in Item
  BY DEF Item, Frame, FrameAt, KeyExchange, HandshakeOk, HandshakeErr
<1>2. /\ handler[c] = at /\ handler' = [handler EXCEPT ![c] = next]
      /\ wire' = [wire EXCEPT ![c] = Append(wire[c], x)]
      /\ UNCHANGED <<pump, inHand, sendChan, accepted>>
  BY DEF HandlerWrites, Goto, Write, TypeOK, pumping, queue
<1>3. Flow(c) BY DEF FlowInv
<1>4. wire[c] \in Seq(Item) /\ Len(wire[c]) \in Nat BY DEF TypeOK
<1> DEFINE n == Len(wire[c])  m == Len(wire'[c])
<1>5. \/ part = "length" /\ k = 1 /\ at = "key" /\ next = "keyPayload" /\ n = 0
      \/ part = "payload" /\ k = 1 /\ at = "keyPayload" /\ next = "hello" /\ n = 1
      \/ part = "length" /\ k = 2 /\ at \in {"ok", "err"} /\ next \in {"errPayload", "okPayload"} /\ n = 2
      \/ part = "payload" /\ k = 2 /\ at \in {"okPayload", "errPayload"} /\ next \in {"exit", "join"} /\ n = 3
  BY <1>2, <1>3 DEF Flow, LengthOK, Script
<1>6. n \in Nat /\ m = n + 1
  BY <1>1, <1>2, <1>4 DEF TypeOK
<1> HIDE DEF n, m
<1>7. /\ part = "length" => n = 2 * k - 2
      /\ part = "payload" => n = 2 * k - 1
      /\ n > 2 => at \in {"errPayload", "okPayload"}
      /\ \/ next = "keyPayload" /\ m = 1
         \/ next = "hello" /\ m = 2
         \/ next \in {"errPayload", "okPayload"} /\ m = 3
         \/ next \in {"exit", "join"} /\ m = 4
      /\ k = 1 => m <= 2
  BY <1>5, <1>6
<1>8. WireIs(wire'[c], answer)
  <2>1. WireIs(wire[c], answer)
    <3>1. CASE n <= 2
      BY <1>3, <1>4, <3>1, NotYetAnswered DEF Flow, AnswerOK, n
    <3>2. CASE n > 2
      BY <1>2, <1>3, <1>7, <3>2 DEF Flow, AnswerOK, LengthOK, Script, HandshakeOk, HandshakeErr
    <3>3. QED BY <1>6, <3>1, <3>2
  <2>2. wire'[c] = Append(wire[c], x) BY <1>2 DEF TypeOK
  <2>3. k \in Nat \ {0} OBVIOUS
  <2>4. QED BY <1>1, <1>4, <1>7, <2>1, <2>2, <2>3, WireGrows DEF n
<1>9. pump[c] = "none" /\ Taken(c) = 0
  BY <1>2, <1>3 DEF Flow, LengthOK, Script
<1>10. handler'[c] = next /\ pump'[c] = "none" BY <1>2, <1>9 DEF TypeOK
<1>11. ChanOK(c)' BY <1>2, <1>3 DEF Flow, ChanOK, Taken
<1>12. LengthOK(c)'
  <2>1. Taken(c)' = 0 BY <1>2, <1>9 DEF Taken
  <2>2. /\ next \notin {"none", "dropped", "key", "err", "ok", "read", "done"}
        /\ next = "keyPayload" => m = 1
        /\ next = "hello" => m = 2
        /\ next \in {"errPayload", "okPayload"} => m = 3
        /\ next = "join" => m = 4
        /\ m <= 4 + 2 * 0
    BY <1>7
  <2>3. QED BY <1>10, <2>1, <2>2 DEF LengthOK, m
<1>13. AnswerOK(c)'
  <2>1. CASE answer = HandshakeOk
    BY <1>8, <1>10, <2>1 DEF AnswerOK, Script, HandshakeOk, HandshakeErr
  <2>2. CASE answer = HandshakeErr /\ k = 2
    BY <1>8, <1>10, <2>2 DEF AnswerOK, Script, HandshakeOk, HandshakeErr
  <2>3. CASE k = 1
    <3>1. wire'[c] \in Seq(Item) /\ Len(wire'[c]) <= 2
      <4>1. Append(wire[c], x) \in Seq(Item) BY <1>1, <1>4
      <4>2. wire'[c] = Append(wire[c], x) BY <1>2 DEF TypeOK
      <4>3. Len(wire'[c]) <= 2 BY <1>7, <2>3 DEF m
      <4>4. QED BY <4>1, <4>2, <4>3
    <3>2. WireIs(wire'[c], HandshakeOk) BY <1>8, <3>1, NotYetAnswered
    <3>3. QED BY <1>10, <2>3, <3>2 DEF AnswerOK, Script
  <2>4. QED BY <2>1, <2>2, <2>3
<1>14. Flow(c)' BY <1>11, <1>12, <1>13 DEF Flow
<1>15. QED BY <1>2, <1>14, FlowOfOne DEF TypeOK

\* A step of the handler that writes nothing.
LEMMA HandlerMoveFlows ==
  ASSUME TypeOK, FlowInv, NEW c \in Conns, NEW next \in Places,
         handler' = [handler EXCEPT ![c] = next], pump[c] = "none" \/ next \in {"exit", "done"},
         \/ handler[c] = "none" /\ next \in {"dropped", "key"}
         \/ handler[c] = "hello" /\ next \in {"err", "ok"}
         \/ next \in {"exit", "done"},
         UNCHANGED <<pump, inHand, sendChan, accepted, wire>>
  PROVE  FlowInv'
<1>1. Flow(c) BY DEF FlowInv
<1>2. handler'[c] = next BY DEF TypeOK
<1>3. ChanOK(c)' BY <1>1 DEF Flow, ChanOK, Taken
<1>4. LengthOK(c)' BY <1>1, <1>2 DEF Flow, LengthOK, Taken
<1>5. AnswerOK(c)' BY <1>1, <1>2 DEF Flow, AnswerOK
<1>6. Flow(c)' BY <1>3, <1>4, <1>5 DEF Flow
<1>7. QED BY <1>6, FlowOfOne DEF TypeOK

LEMMA StartPumpFlows == ASSUME TypeOK, FlowInv, NEW c \in Conns, StartPump(c) PROVE FlowInv'
<1> USE DEF StartPump, Goto, queue
<1>1. Flow(c) BY DEF FlowInv
<1>2. handler[c] = "join" /\ handler'[c] = "read" /\ pump'[c] = "range" BY DEF TypeOK
<1>3. pump[c] = "none" /\ Taken(c) = 0 /\ Len(wire[c]) = 4 BY <1>1, <1>2 DEF Flow, LengthOK
<1>4. Taken(c)' = 0 /\ wire'[c] = wire[c] BY <1>3 DEF Taken
<1>5. LengthOK(c)' BY <1>2, <1>3, <1>4 DEF LengthOK
<1>6. ChanOK(c)' BY <1>1 DEF Flow, ChanOK, Taken
<1>7. AnswerOK(c)' BY <1>1, <1>2 DEF Flow, AnswerOK
<1>8. Flow(c)' BY <1>5, <1>6, <1>7 DEF Flow
<1>9. QED BY <1>8, FlowOfOne DEF TypeOK

\* The pump takes the oldest message of SendChan.
LEMMA PumpTakesFlows ==
  ASSUME TypeOK, FlowInv, NEW c \in Conns, PumpTakes(c)
  PROVE  FlowInv'
<1>1. Flow(c) BY DEF FlowInv
<1>2. /\ pump[c] = "range" /\ pump'[c] = "length" /\ sendChan[c] # <<>>
      /\ inHand'[c] = Head(sendChan[c]) /\ sendChan'[c] = Tail(sendChan[c])
      /\ wire'[c] = wire[c] /\ accepted'[c] = accepted[c] /\ handler'[c] = handler[c]
  BY DEF PumpTakes, Ranging, TypeOK
<1> DEFINE a == Len(accepted[c])  n == Len(sendChan[c])
<1>3. a \in Nat /\ n \in Nat /\ n > 0 /\ sendChan[c] \in Seq(Nat)
  BY <1>2 DEF TypeOK
<1>4. Len(Tail(sendChan[c])) = n - 1 /\ \A i \in 1..(n - 1) : Tail(sendChan[c])[i] = sendChan[c][i + 1]
  BY <1>2, <1>3
<1>5. Head(sendChan[c]) = sendChan[c][1]
  BY <1>2, <1>3
<1> HIDE DEF a, n
<1>6. Taken(c) = a - n /\ Taken(c)' = a - (n - 1)
  BY <1>2, <1>4 DEF Taken, a, n
<1>7. n <= a /\ \A i \in 1..n : sendChan[c][i] = a - n + i
  BY <1>1, <1>6 DEF Flow, ChanOK, a, n
<1>8. ChanOK(c)'
  <2>1. n - 1 <= a BY <1>3, <1>7
  <2>2. ASSUME NEW i \in 1..(n - 1) PROVE Tail(sendChan[c])[i] = a - (n - 1) + i
    <3>1. i + 1 \in 1..n BY <1>3
    <3>2. Tail(sendChan[c])[i] = a - n + (i + 1) BY <1>4, <1>7, <3>1
    <3>3. a - n + (i + 1) = a - (n - 1) + i BY <1>3
    <3>4. QED BY <3>2, <3>3
  <2>3. QED BY <1>1, <1>2, <1>4, <1>6, <2>1, <2>2 DEF Flow, ChanOK, a
<1>9. inHand'[c] = a - n + 1
  <2>1. 1 \in 1..n BY <1>3
  <2>2. QED BY <1>2, <1>5, <1>7, <2>1
<1>10. LengthOK(c)'
  <2> DEFINE w == Len(wire[c])
  <2>1. w = 4 + 2 * (a - n) BY <1>1, <1>2, <1>6 DEF Flow, LengthOK
  <2>2. handler'[c] \in {"read", "exit", "done"}
    BY <1>1, <1>2 DEF Flow, LengthOK
  <2>3. Len(wire'[c]) = w BY <1>2
  <2> HIDE DEF w
  <2>4. /\ inHand'[c] = a - (n - 1) /\ a - (n - 1) > 0
        /\ w = 2 + 2 * (a - (n - 1)) /\ w <= 4 + 2 * (a - (n - 1))
    <3>1. /\ a - n + 1 = a - (n - 1) /\ a - (n - 1) > 0
          /\ 4 + 2 * (a - n) = 2 + 2 * (a - (n - 1))
          /\ 4 + 2 * (a - n) <= 4 + 2 * (a - (n - 1))
      BY <1>3, <1>7
    <3>2. QED BY <1>9, <2>1, <3>1
  <2>5. QED BY <1>2, <1>6, <2>2, <2>3, <2>4 DEF LengthOK
<1>11. AnswerOK(c)' BY <1>1, <1>2 DEF Flow, AnswerOK
<1>12. Flow(c)' BY <1>8, <1>10, <1>11 DEF Flow
<1>13. QED BY <1>12, FlowOfOne DEF PumpTakes, TypeOK

\* The pump writes half a frame.
LEMMA PumpWritesFlows ==
  ASSUME TypeOK, FlowInv, NEW c \in Conns, PumpWrites(c)
  PROVE  FlowInv'
<1> DEFINE t == Taken(c)  x == [part |-> pump[c], of |-> FrameAt(t + 2, HandshakeOk)]
<1>1. Flow(c) /\ pump[c] \in {"length", "payload"} BY DEF FlowInv, PumpWrites
<1>2. t \in Nat /\ t > 0 /\ inHand[c] = t
  BY <1>1 DEF Flow, LengthOK, TypeOK
<1>3. FrameAt(t + 2, HandshakeOk) = Message(inHand[c]) /\ x \in Item
  <2>1. t + 2 # 1 /\ t + 2 # 2 /\ (t + 2) - 2 = t BY <1>2
  <2> HIDE DEF t
  <2>2. FrameAt(t + 2, HandshakeOk) = Message(inHand[c]) BY <1>2, <2>1 DEF FrameAt
  <2>3. Message(inHand[c]) \in Frame BY <1>2 DEF Message, Frame
  <2>4. QED BY <1>1, <2>2, <2>3 DEF Item
<1>4. /\ wire' = [wire EXCEPT ![c] = Append(wire[c], x)]
      /\ pump' = [pump EXCEPT ![c] = IF pump[c] = "length" THEN "payload" ELSE "range"]
      /\ inHand' = [inHand EXCEPT ![c] = IF pump[c] = "length" THEN inHand[c] ELSE 0]
      /\ UNCHANGED <<handler, sendChan, accepted>>
  BY <1>3 DEF PumpWrites, Write, queue
<1>5. wire[c] \in Seq(Item) BY DEF TypeOK
<1>6. wire'[c] = Append(wire[c], x) BY <1>4 DEF TypeOK
<1> DEFINE n == Len(wire[c])  m == Len(wire'[c])
<1>7. n \in Nat /\ m = n + 1 BY <1>3, <1>5, <1>6
<1>8. /\ pump[c] = "length" => n = 2 + 2 * t
      /\ pump[c] = "payload" => n = 3 + 2 * t
      /\ handler[c] \in {"read", "exit", "done"}
  BY <1>1 DEF Flow, LengthOK
<1>9. WireIs(wire[c], HandshakeOk) BY <1>1 DEF Flow, AnswerOK
<1>10. Taken(c)' = t BY <1>4 DEF Taken
<1> HIDE DEF t, n, m
<1>11. t + 2 \in Nat \ {0} BY <1>2
<1>12. /\ pump[c] = "length" => n = 2 * (t + 2) - 2
       /\ pump[c] = "payload" => n = 2 * (t + 2) - 1
  BY <1>2, <1>7, <1>8
<1>13. WireIs(wire'[c], HandshakeOk)
  BY <1>1, <1>3, <1>5, <1>6, <1>9, <1>11, <1>12, WireGrows DEF n
<1>14. ChanOK(c)' BY <1>1, <1>4 DEF Flow, ChanOK, Taken
<1>15. /\ pump[c] = "length" => m = 3 + 2 * t
       /\ pump[c] = "payload" => m = 4 + 2 * t
       /\ m <= 4 + 2 * t
  BY <1>1, <1>2, <1>7, <1>8
<1>16. LengthOK(c)'
  <2>1. CASE pump[c] = "length"
    <3>1. pump'[c] = "payload" /\ inHand'[c] = t /\ handler'[c] = handler[c]
      BY <1>2, <1>4, <2>1 DEF TypeOK
    <3>2. QED BY <1>2, <1>8, <1>10, <1>15, <2>1, <3>1 DEF LengthOK, m
  <2>2. CASE pump[c] = "payload"
    <3>1. pump'[c] = "range" /\ handler'[c] = handler[c]
      BY <1>4, <2>2 DEF TypeOK
    <3>2. QED BY <1>8, <1>10, <1>15, <2>2, <3>1 DEF LengthOK, m
  <2>3. QED BY <1>1, <2>1, <2>2
<1>17. AnswerOK(c)'
  BY <1>4, <1>8, <1>13 DEF AnswerOK
<1>18. Flow(c)' BY <1>14, <1>16, <1>17 DEF Flow
<1>19. QED BY <1>4, <1>18, FlowOfOne DEF TypeOK

LEMMA PumpFailsFlows ==
  ASSUME TypeOK, FlowInv, NEW c \in Conns, PumpFails(c)
  PROVE  FlowInv'
<1>1. Flow(c) BY DEF FlowInv
<1>2. /\ pump[c] \in {"length", "payload"} /\ pump'[c] = "ended"
      /\ handler'[c] = handler[c] /\ wire'[c] = wire[c]
      /\ sendChan'[c] = sendChan[c] /\ accepted'[c] = accepted[c]
  BY DEF PumpFails, AfterFailure, TypeOK, queue
<1>3. Taken(c)' = Taken(c) BY <1>2 DEF Taken
<1>4. ChanOK(c)' BY <1>1, <1>2, <1>3 DEF Flow, ChanOK
<1>5. LengthOK(c)' BY <1>1, <1>2, <1>3 DEF Flow, LengthOK
<1>6. AnswerOK(c)' BY <1>1, <1>2 DEF Flow, AnswerOK
<1>7. Flow(c)' BY <1>4, <1>5, <1>6 DEF Flow
<1>8. QED BY <1>7, FlowOfOne DEF PumpFails, TypeOK, queue

\* SendChan takes one more message.
LEMMA SendFlows ==
  ASSUME TypeOK, FlowInv, NEW c \in Conns, Send(c)
  PROVE  FlowInv'
<1> DEFINE a == Len(accepted[c])  n == Len(sendChan[c])
<1>1. Flow(c) BY DEF FlowInv
<1>2. /\ sendChan'[c] = Append(sendChan[c], a + 1)
      /\ accepted'[c] = Append(accepted[c], a + 1)
      /\ UNCHANGED <<handler, pump, inHand, wire>>
  BY DEF Send, TypeOK, pumping
<1>3. a \in Nat /\ n \in Nat /\ sendChan[c] \in Seq(Nat) /\ accepted[c] \in Seq(Nat)
  BY DEF TypeOK
<1>4. /\ Len(sendChan'[c]) = n + 1 /\ Len(accepted'[c]) = a + 1
      /\ sendChan'[c][n + 1] = a + 1 /\ accepted'[c][a + 1] = a + 1
      /\ \A i \in 1..n : sendChan'[c][i] = sendChan[c][i]
      /\ \A i \in 1..a : accepted'[c][i] = accepted[c][i]
  BY <1>2, <1>3
<1> HIDE DEF a, n
<1>5. Taken(c) = a - n /\ Taken(c)' = (a + 1) - (n + 1) BY <1>4 DEF Taken, a, n
<1>6. (a + 1) - (n + 1) = a - n BY <1>3
<1>7. /\ n <= a /\ \A i \in 1..a : accepted[c][i] = i
      /\ \A i \in 1..n : sendChan[c][i] = a - n + i
  BY <1>1, <1>5 DEF Flow, ChanOK, a, n
<1>8. ChanOK(c)'
  <2>1. n + 1 <= a + 1 BY <1>3, <1>7
  <2>2. ASSUME NEW i \in 1..(a + 1) PROVE accepted'[c][i] = i
    <3>1. CASE i \in 1..a BY <1>4, <1>7, <3>1
    <3>2. CASE i = a + 1 BY <1>4, <3>2
    <3>3. QED BY <1>3, <3>1, <3>2
  <2>3. ASSUME NEW i \in 1..(n + 1) PROVE sendChan'[c][i] = a - n + i
    <3>1. CASE i \in 1..n BY <1>4, <1>7, <3>1
    <3>2. CASE i = n + 1
      <4>1. a - n + (n + 1) = a + 1 BY <1>3
      <4>2. QED BY <1>4, <3>2, <4>1
    <3>3. QED BY <1>3, <3>1, <3>2
  <2>4. QED BY <1>4, <1>5, <1>6, <2>1, <2>2, <2>3 DEF ChanOK
<1>9. LengthOK(c)'
  <2>1. Taken(c)' = Taken(c) BY <1>5, <1>6
  <2>2. QED BY <1>1, <1>2, <2>1 DEF Flow, LengthOK
<1>10. AnswerOK(c)' BY <1>1, <1>2 DEF Flow, AnswerOK
<1>11. Flow(c)' BY <1>8, <1>9, <1>10 DEF Flow
<1>12. QED BY <1>2, <1>11, FlowOfOne DEF Send, TypeOK

LEMMA FlowStep == ASSUME ConnsInv, FlowInv, [Next]_vars PROVE FlowInv'
<1>0. TypeOK BY DEF ConnsInv
<1> USE <1>0 DEF Goto, Close, listener, table, pumping, queue
<1>1. ASSUME NEW c \in Conns, Drop(c) PROVE FlowInv'
  <2>1. pump[c] = "none" /\ "dropped" \in Places
    BY <1>1 DEF Drop, FlowInv, Flow, LengthOK, Places
  <2>2. QED BY <1>1, <2>1, HandlerMoveFlows DEF Drop
<1>2. ASSUME NEW c \in Conns, Count(c) PROVE FlowInv'
  <2>1. handler[c] = "none" BY <1>2, ConnsAssumption DEF Count, ConnsInv, GateOK
  <2>2. pump[c] = "none" /\ "key" \in Places
    BY <2>1 DEF FlowInv, Flow, LengthOK, Places
  <2>3. QED BY <1>2, <2>1, <2>2, HandlerMoveFlows DEF Count
<1>3. ASSUME NEW c \in Conns, RefuseHello(c) \/ AddClient(c) PROVE FlowInv'
  <2>1. handler[c] = "hello" BY <1>3 DEF RefuseHello, AddClient
  <2>2. pump[c] = "none" /\ "err" \in Places /\ "ok" \in Places
    BY <2>1 DEF FlowInv, Flow, LengthOK, Places
  <2>3. QED BY <1>3, <2>1, <2>2, HandlerMoveFlows DEF RefuseHello, AddClient
<1>4. ASSUME NEW c \in Conns, HandshakeFails(c) \/ ReadFails(c) \/ Exit(c) PROVE FlowInv'
  <2>1. "exit" \in Places /\ "done" \in Places BY DEF Places
  <2>2. QED BY <1>4, <2>1, HandlerMoveFlows DEF HandshakeFails, ReadFails, Exit, removeClient
<1>5. ASSUME NEW c \in Conns, SendKeyExchange(c) PROVE FlowInv'
  <2>1. FrameAt(1, HandshakeOk) = KeyExchange BY DEF FrameAt
  <2>2. "keyPayload" \in Places /\ "hello" \in Places BY DEF Places
  <2>3. CASE HandlerWrites(c, "key", "length", KeyExchange, "keyPayload")
    <3>1. Script("key", "length", 1, HandshakeOk, "keyPayload") BY DEF Script
    <3>2. QED BY <2>1, <2>2, <2>3, <3>1, HandlerWriteFlows
  <2>4. CASE HandlerWrites(c, "keyPayload", "payload", KeyExchange, "hello")
    <3>1. Script("keyPayload", "payload", 1, HandshakeOk, "hello") BY DEF Script
    <3>2. QED BY <2>1, <2>2, <2>4, <3>1, HandlerWriteFlows
  <2>5. QED BY <1>5, <2>3, <2>4 DEF SendKeyExchange
<1>6. ASSUME NEW c \in Conns, SendHandshakeErr(c) PROVE FlowInv'
  <2>1. FrameAt(2, HandshakeErr) = HandshakeErr BY DEF FrameAt
  <2>2. "errPayload" \in Places /\ "exit" \in Places BY DEF Places
  <2>3. CASE HandlerWrites(c, "err", "length", HandshakeErr, "errPayload")
    <3>1. Script("err", "length", 2, HandshakeErr, "errPayload") BY DEF Script
    <3>2. QED BY <2>1, <2>2, <2>3, <3>1, HandlerWriteFlows
  <2>4. CASE HandlerWrites(c, "errPayload", "payload", HandshakeErr, "exit")
    <3>1. Script("errPayload", "payload", 2, HandshakeErr, "exit") BY DEF Script
    <3>2. QED BY <2>1, <2>2, <2>4, <3>1, HandlerWriteFlows
  <2>5. QED BY <1>6, <2>3, <2>4 DEF SendHandshakeErr
<1>7. ASSUME NEW c \in Conns, SendHandshakeOK(c) PROVE FlowInv'
  <2>1. FrameAt(2, HandshakeOk) = HandshakeOk BY DEF FrameAt
  <2>2. "okPayload" \in Places /\ "join" \in Places BY DEF Places
  <2>3. CASE HandlerWrites(c, "ok", "length", HandshakeOk, "okPayload")
    <3>1. Script("ok", "length", 2, HandshakeOk, "okPayload") BY DEF Script
    <3>2. QED BY <2>1, <2>2, <2>3, <3>1, HandlerWriteFlows
  <2>4. CASE HandlerWrites(c, "okPayload", "payload", HandshakeOk, "join")
    <3>1. Script("okPayload", "payload", 2, HandshakeOk, "join") BY DEF Script
    <3>2. QED BY <2>1, <2>2, <2>4, <3>1, HandlerWriteFlows
  <2>5. QED BY <1>7, <2>3, <2>4 DEF SendHandshakeOK
<1>8. ASSUME UNCHANGED <<handler, pump, inHand, sendChan, accepted, wire>> PROVE FlowInv'
  BY <1>8, ZenonT(60) DEF FlowInv, Flow, ChanOK, LengthOK, AnswerOK, Taken
<1>9. ASSUME NEW c \in Conns, Accept(c) \/ Kick(c) \/ Heartbeat(c) \/ PeerGoes(c)
      PROVE  FlowInv'
  BY <1>8, <1>9 DEF Accept, Kick, Heartbeat, PeerGoes
<1>10. CASE UNCHANGED vars BY <1>8, <1>10 DEF vars
<1>11. QED
  BY <1>1, <1>2, <1>3, <1>4, <1>5, <1>6, <1>7, <1>9, <1>10, StartPumpFlows, PumpTakesFlows,
     PumpWritesFlows, PumpFailsFlows, SendFlows DEF Next, HandlerSteps

LEMMA FlowInvariant == Spec => []FlowInv
BY FlowInit, FlowStep, ConnsInvariant, PTL DEF Spec

\* Two sequences of which one continues the other.
LEMMA PrefixByIndex ==
  ASSUME NEW S, NEW s \in Seq(S), NEW t \in Seq(S), Len(s) <= Len(t),
         \A i \in 1..Len(s) : s[i] = t[i]
  PROVE  IsPrefix(s, t)
<1> DEFINE n == Len(s)  u == SubSeq(s, 1, n)  v == SubSeq(t, 1, n)
<1>1. n \in Nat /\ n <= Len(t) OBVIOUS
<1>2. u \in Seq(S) /\ Len(u) = n /\ \A i \in 1..n : u[i] = s[i] OBVIOUS
<1>3. v \in Seq(S) /\ Len(v) = n /\ \A i \in 1..n : v[i] = t[i] BY <1>1
<1>4. u = v
  <2> HIDE DEF u, v, n
  <2>1. \A i \in 1..Len(u) : u[i] = v[i] BY <1>2, <1>3 DEF n
  <2>2. QED BY <1>2, <1>3, <2>1, SeqEqual
<1>5. QED BY <1>4 DEF IsPrefix

LEMMA Halves == \A n \in Nat : n \div 2 \in Nat /\ 2 * (n \div 2) <= n /\ n <= 2 * (n \div 2) + 1
OBVIOUS

\* ReadFrame recovers the frames that were written, and no others.
LEMMA FramesRead ==
  ASSUME NEW w \in Seq(Item), NEW answer \in Frame, WireIs(w, answer)
  PROVE  /\ ReadFrames(w) \in Seq(Frame)
         /\ Len(ReadFrames(w)) = Len(w) \div 2
         /\ \A i \in 1..(Len(w) \div 2) : ReadFrames(w)[i] = FrameAt(i, answer)
<1> DEFINE L == Len(w)  h == L \div 2
<1>1. L \in Nat OBVIOUS
<1>2. h \in Nat /\ 2 * h <= L BY <1>1, Halves
<1> HIDE DEF L, h
<1>3. ASSUME NEW i \in 1..h PROVE ReadFrames(w)[i] = FrameAt(i, answer) /\ FrameAt(i, answer) \in Frame
  <2>1. i \in Nat \ {0} /\ 2 * i - 1 <= L /\ 2 * i <= L BY <1>1, <1>2
  <2>2. /\ w[2 * i - 1] = [part |-> "length", of |-> FrameAt(i, answer)]
        /\ w[2 * i] = [part |-> "payload", of |-> FrameAt(i, answer)]
    BY <2>1 DEF WireIs, L
  <2>3. Whole(w, i) /\ w[2 * i].of = FrameAt(i, answer) BY <2>2 DEF Whole
  <2>4. ReadFrames(w)[i] = FrameAt(i, answer) BY <2>3 DEF ReadFrames, L, h
  <2>5. CASE i = 1 BY <2>4, <2>5 DEF FrameAt, KeyExchange, Frame
  <2>6. CASE i = 2 BY <2>4, <2>6 DEF FrameAt
  <2>7. CASE i # 1 /\ i # 2
    <3>1. i - 2 \in Nat BY <2>1, <2>7
    <3>2. QED BY <2>4, <2>7, <3>1 DEF FrameAt, Message, Frame
  <2>8. QED BY <2>5, <2>6, <2>7
<1>4. ReadFrames(w) = [i \in 1..h |-> FrameAt(i, answer)]
  BY <1>3 DEF ReadFrames, L, h
<1>5. ReadFrames(w) \in Seq(Frame) /\ Len(ReadFrames(w)) = h
  BY <1>2, <1>3, <1>4
<1>6. QED BY <1>3, <1>5 DEF L, h

\* What a client that was let in is to read: the two frames of the handshake,
\* and the messages by their numbers.
LEMMA GrantedFrames ==
  ASSUME TypeOK, NEW c \in Conns, ChanOK(c)
  PROVE  /\ Granted(c) \in Seq(Frame)
         /\ Len(Granted(c)) = 2 + Len(accepted[c])
         /\ \A i \in 1..(2 + Len(accepted[c])) : Granted(c)[i] = FrameAt(i, HandshakeOk)
<1> DEFINE a == Len(accepted[c])
           s == <<KeyExchange, HandshakeOk>>
           t == [i \in 1..a |-> Message(accepted[c][i])]
<1>1. a \in Nat /\ \A i \in 1..a : accepted[c][i] = i BY DEF TypeOK, ChanOK
<1>2. s \in Seq(Frame) /\ Len(s) = 2 /\ s[1] = KeyExchange /\ s[2] = HandshakeOk
  BY DEF KeyExchange, HandshakeOk, Frame
<1> HIDE DEF a, s
<1>3. \A i \in 1..a : t[i] = Message(i) /\ Message(i) \in Frame
  BY <1>1 DEF Message, Frame
<1>4. t \in Seq(Frame) /\ Len(t) = a
  BY <1>1, <1>3
<1>5. Granted(c) = s \o t BY DEF Granted, s, a
<1> HIDE DEF t
<1>6. /\ s \o t \in Seq(Frame) /\ Len(s \o t) = 2 + a
      /\ (s \o t)[1] = s[1] /\ (s \o t)[2] = s[2]
      /\ \A i \in 1..(2 + a) : i > 2 => (s \o t)[i] = t[i - 2]
  <2>1. /\ s \o t \in Seq(Frame) /\ Len(s \o t) = Len(s) + Len(t)
        /\ \A i \in 1..(Len(s) + Len(t)) :
             (s \o t)[i] = IF i <= Len(s) THEN s[i] ELSE t[i - Len(s)]
    BY <1>2, <1>4, ConcatProperties
  <2>2. \A i \in 1..(2 + a) : (s \o t)[i] = IF i <= 2 THEN s[i] ELSE t[i - 2]
    BY <1>2, <1>4, <2>1
  <2>3. 1 \in 1..(2 + a) /\ 2 \in 1..(2 + a) BY <1>1
  <2>4. QED BY <1>2, <1>4, <2>1, <2>2, <2>3
<1>7. ASSUME NEW i \in 1..(2 + a) PROVE (s \o t)[i] = FrameAt(i, HandshakeOk)
  <2>1. CASE i = 1 BY <1>2, <1>6, <2>1 DEF FrameAt
  <2>2. CASE i = 2 BY <1>2, <1>6, <2>2 DEF FrameAt
  <2>3. CASE i # 1 /\ i # 2
    <3>1. i > 2 /\ i - 2 \in 1..a BY <1>1, <2>3
    <3>2. QED BY <1>3, <1>6, <2>3, <3>1 DEF FrameAt
  <2>4. QED BY <2>1, <2>2, <2>3
<1>8. QED BY <1>5, <1>6, <1>7 DEF a

\* For any number of clients and messages, and wherever a write fails: what a
\* client reads are whole frames, the handshake first and then what SendChan
\* took in its order and without a gap, or the refusal of its hello.
THEOREM ClientReadsInOrder == Spec => []ReceivesInOrder
<1>1. ConnsInv /\ FlowInv => ReceivesInOrder
  <2> SUFFICES ASSUME ConnsInv, FlowInv, NEW c \in Conns
               PROVE  \/ IsPrefix(ReadFrames(wire[c]), Granted(c))
                      \/ ReadFrames(wire[c]) = <<KeyExchange, HandshakeErr>>
    BY DEF ReceivesInOrder
  <2>1. TypeOK /\ ChanOK(c) /\ LengthOK(c) /\ AnswerOK(c) BY DEF ConnsInv, FlowInv, Flow
  <2> DEFINE w == wire[c]  L == Len(w)  h == L \div 2  a == Len(accepted[c])
             r == ReadFrames(w)  g == Granted(c)
  <2>2. w \in Seq(Item) /\ L \in Nat /\ a \in Nat BY <2>1 DEF TypeOK
  <2>3. h \in Nat /\ 2 * h <= L /\ L <= 2 * h + 1 BY <2>2, Halves
  <2>4. HandshakeOk \in Frame /\ HandshakeErr \in Frame BY DEF HandshakeOk, HandshakeErr, Frame
  <2>5. /\ g \in Seq(Frame) /\ Len(g) = 2 + a
        /\ \A i \in 1..(2 + a) : g[i] = FrameAt(i, HandshakeOk)
    BY <2>1, GrantedFrames
  <2>6. h <= 2 + a
    <3> DEFINE n == Len(sendChan[c])
    <3>1. n \in Nat /\ L <= 4 + 2 * (a - n) BY <2>1 DEF LengthOK, Taken, TypeOK
    <3> HIDE DEF n, L, a, h
    <3>2. QED BY <2>2, <2>3, <3>1
  <2>7. CASE WireIs(w, HandshakeOk)
    <3>1. /\ r \in Seq(Frame) /\ Len(r) = h
          /\ \A i \in 1..h : r[i] = FrameAt(i, HandshakeOk)
      BY <2>2, <2>4, <2>7, FramesRead
    <3> HIDE DEF r, g, h, a, L
    <3>2. \A i \in 1..h : i \in 1..(2 + a) BY <2>2, <2>3, <2>6
    <3>3. \A i \in 1..h : r[i] = g[i] BY <2>5, <3>1, <3>2
    <3>4. IsPrefix(r, g) BY <2>5, <2>6, <3>1, <3>3, PrefixByIndex
    <3>5. QED BY <3>4 DEF r, g
  <2>8. CASE pump[c] = "none" /\ WireIs(w, HandshakeErr)
    <3>1. /\ r \in Seq(Frame) /\ Len(r) = h
          /\ \A i \in 1..h : r[i] = FrameAt(i, HandshakeErr)
      BY <2>2, <2>4, <2>8, FramesRead
    <3>2. L <= 4 BY <2>1, <2>8 DEF LengthOK
    <3> HIDE DEF r, g, h, a, L
    <3>3. h <= 2 BY <2>2, <2>3, <3>2
    <3>4. CASE h = 2
      <4>1. 1 \in 1..h /\ 2 \in 1..h BY <3>4
      <4>2. r[1] = KeyExchange /\ r[2] = HandshakeErr BY <3>1, <4>1 DEF FrameAt
      <4>3. r = <<KeyExchange, HandshakeErr>> BY <3>1, <3>4, <4>2
      <4>4. QED BY <4>3 DEF r
    <3>5. CASE h < 2
      <4>1. \A i \in 1..h : i = 1 /\ i \in 1..(2 + a) BY <2>2, <2>3, <3>5
      <4>2. \A i \in 1..h : r[i] = g[i] BY <2>5, <3>1, <4>1 DEF FrameAt
      <4>3. IsPrefix(r, g) BY <2>5, <2>6, <3>1, <4>2, PrefixByIndex
      <4>4. QED BY <4>3 DEF r, g
    <3>6. QED BY <2>3, <3>3, <3>4, <3>5
  <2>9. QED BY <2>1, <2>7, <2>8 DEF AnswerOK
<1>2. QED BY <1>1, ConnsInvariant, FlowInvariant, PTL
=============================================================================
