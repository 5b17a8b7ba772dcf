--------------------------- MODULE SessionProofs ----------------------------
(***************************************************************************)
(* Proofs about Session, for any number of connections and inputs and any  *)
(* capacities of the channels.                                             *)
(***************************************************************************)
EXTENDS Session, SequenceTheorems, FiniteSetTheorems, TLAPS

LEMMA Appended ==
  ASSUME NEW S, NEW s \in Seq(S), NEW x \in S
  PROVE  /\ Append(s, x) \in Seq(S) /\ Len(s) \in Nat
         /\ Len(Append(s, x)) = Len(s) + 1 /\ Append(s, x)[Len(s) + 1] = x
         /\ \A i \in 1..Len(s) : Append(s, x)[i] = s[i]
OBVIOUS

LEMMA Headless ==
  ASSUME NEW S, NEW s \in Seq(S), s # <<>>
  PROVE  /\ Head(s) = s[1] /\ Head(s) \in S /\ Tail(s) \in Seq(S)
         /\ Len(s) \in Nat \ {0} /\ Len(Tail(s)) = Len(s) - 1
         /\ \A i \in 1..(Len(s) - 1) : Tail(s)[i] = s[i + 1]
OBVIOUS

-----------------------------------------------------------------------------
(* Types. *)

LEMMA SessionInit == Init => TypeOK
<1> SUFFICES ASSUME Init PROVE TypeOK OBVIOUS
<1>1. 1 \in Gens BY SessionAssumption DEF Gens
<1>2. cliRoom \in [Gens -> Rooms] BY SessionAssumption DEF Init
<1>3. QED BY <1>1, <1>2, SessionAssumption DEF Init, TypeOK

\* sendUpdate touches one UpdateChan, and adds the message or drops it.
LEMMA SendUpdate ==
  ASSUME TypeOK, NEW g \in Gens, NEW msg \in In, sendUpdate(g, msg)
  PROVE  /\ updates' \in [Gens -> Seq(In)]
         /\ \A h \in Gens : h # g => updates'[h] = updates[h]
         /\ updates'[g] = updates[g] \/ updates'[g] = Append(updates[g], msg)
<1>1. Append(updates[g], msg) \in Seq(In) BY Appended DEF TypeOK
<1>2. QED BY <1>1 DEF sendUpdate, TypeOK

\* The messages of the hub, of the transfers and of the end of a connection.
LEMMA Messages ==
  /\ \A kind \in Kinds \cup {"notice", "closed"}, n \in Nat :
       Message(kind, n) \in In /\ Message(kind, n).kind = kind /\ Message(kind, n).n = n
  /\ \A y \in Undecrypted : [kind |-> "text", n |-> y.n, from |-> y.from] \in In
BY DEF In, Message, Undecrypted

\* What queuePending leaves of the old ones.
LEMMA PendingQueued ==
  ASSUME NEW S, NEW chat
  PROVE  queuePending(S, chat) \subseteq S \cup {chat}
BY DEF queuePending, AllButOldest

LEMMA SessionTypes == ASSUME TypeOK, [Next]_vars PROVE TypeOK'
<1> USE DEF tui, inbound, undecrypted, outbound, clients, counts
<1>1. ASSUME NEW g \in Gens, NEW kind \in Kinds, HubSends(g, kind) PROVE TypeOK'
  <2>1. Len(sent) + 1 \in Nat /\ Append(sent, kind) \in Seq(Kinds) BY DEF TypeOK
  <2>2. updates' \in [Gens -> Seq(In)]
    BY <1>1, <2>1, Messages, SendUpdate DEF HubSends
  <2>3. QED BY <1>1, <2>1, <2>2 DEF HubSends, Arrives, TypeOK
<1>17. ASSUME NEW g \in Gens, NEW p \in Peers, HubSendsUnreadable(g, p) PROVE TypeOK'
  <2> DEFINE chat == [n |-> Len(sent) + 1, from |-> p]
  <2>1. "chat" \in Kinds BY DEF Kinds
  <2>2. Len(sent) + 1 \in Nat /\ Append(sent, "chat") \in Seq(Kinds) BY <2>1 DEF TypeOK
  <2>3. updates' \in [Gens -> Seq(In)]
    BY <1>17, <2>1, <2>2, Messages, SendUpdate DEF HubSendsUnreadable
  <2>4. pending[g] \subseteq Undecrypted /\ chat \in Undecrypted
    BY <2>2 DEF TypeOK, Undecrypted
  <2> HIDE DEF chat
  <2>5. queuePending(pending[g], chat) \subseteq Undecrypted BY <2>4, PendingQueued
  <2>6. pending' \in [Gens -> SUBSET Undecrypted]
    BY <1>17, <2>5 DEF HubSendsUnreadable, TypeOK, chat
  <2>7. QED BY <1>17, <2>2, <2>3, <2>6 DEF HubSendsUnreadable, Arrives, TypeOK
<1>18. ASSUME NEW g \in Gens, NEW p \in Peers, HubSendsKey(g, p) PROVE TypeOK'
  <2>1. "key" \in Kinds BY DEF Kinds
  <2>2. Append(sent, "key") \in Seq(Kinds) BY <2>1 DEF TypeOK
  <2>3. pending[g] \subseteq Undecrypted BY DEF TypeOK
  <2>4. pending' \in [Gens -> SUBSET Undecrypted] /\ flushing' \in [Gens -> SUBSET Undecrypted]
    BY <1>18, <2>3 DEF HubSendsKey, TypeOK
  <2>5. QED BY <1>18, <2>2, <2>4 DEF HubSendsKey, Arrives, TypeOK
<1>19. ASSUME NEW g \in Gens, flushPending(g) PROVE TypeOK'
  <2>1. PICK y \in flushing[g] :
          /\ flushing' = [flushing EXCEPT ![g] = flushing[g] \ {y}]
          /\ \/ sendUpdate(g, [kind |-> "text", n |-> y.n, from |-> y.from])
             \/ UNCHANGED updates
    BY <1>19 DEF flushPending, OldestOf
  <2>2. y \in Undecrypted BY DEF TypeOK
  <2>3. updates' \in [Gens -> Seq(In)] BY <2>1, <2>2, Messages, SendUpdate DEF TypeOK
  <2>4. flushing' \in [Gens -> SUBSET Undecrypted] BY <2>1 DEF TypeOK
  <2>5. QED BY <1>19, <2>3, <2>4 DEF flushPending, TypeOK
<1>2. ASSUME NEW g \in Gens, Notice(g) PROVE TypeOK'
  <2>1. notices + 1 \in Nat BY DEF TypeOK
  <2>2. updates' \in [Gens -> Seq(In)]
    BY <1>2, <2>1, Messages, SendUpdate DEF Notice
  <2>3. QED BY <1>2, <2>1, <2>2 DEF Notice, TypeOK
<1>3. ASSUME NEW g \in Gens, HubCloses(g) PROVE TypeOK'
  BY <1>3 DEF HubCloses, TypeOK
<1>4. ASSUME NEW g \in Gens, ReadPumpEnds(g) PROVE TypeOK'
  <2>1. updates' \in [Gens -> Seq(In)]
    BY <1>4, Messages, SendUpdate DEF ReadPumpEnds
  <2>2. QED BY <1>4, <2>1 DEF ReadPumpEnds, TypeOK
<1>5. ASSUME NEW g \in Gens, WritePump(g) PROVE TypeOK'
  <2> DEFINE x == [frame |-> Head(sendq[g]), room |-> Stamp(g)]
  <2>1. sendq[g] \in Seq(Out) /\ sendq[g] # <<>> BY <1>5 DEF WritePump, TypeOK
  <2>2. Head(sendq[g]) \in Out /\ Tail(sendq[g]) \in Seq(Out) BY <2>1, Headless
  <2>3. x \in [frame : Out, room : Rooms] BY <2>2 DEF Stamp, TypeOK
  <2>4. Append(wire, x) \in Seq([frame : Out, room : Rooms]) BY <2>3, Appended DEF TypeOK
  <2>5. wire' \in Seq([frame : Out, room : Rooms]) BY <1>5, <2>4 DEF WritePump, TypeOK
  <2>6. sendq' \in [Gens -> Seq(Out)] BY <1>5, <2>2 DEF WritePump, TypeOK
  <2>7. QED BY <1>5, <2>5, <2>6 DEF WritePump, TypeOK
<1>6. ASSUME NEW g \in Gens, FileFrame(g) PROVE TypeOK'
  <2> DEFINE x == [kind |-> "file", n |-> files + 1, room |-> DefaultRoom]
  <2>1. x \in Out BY SessionAssumption DEF Out, TypeOK
  <2>2. Append(sendq[g], x) \in Seq(Out) /\ Append(disk, x) \in Seq(Out)
    BY <2>1, Appended DEF TypeOK
  <2>3. sendq' \in [Gens -> Seq(Out)] /\ disk' \in Seq(Out)
    BY <1>6, <2>2 DEF FileFrame, EnqueueOrSend, Enqueue, TypeOK
  <2>4. files' \in Nat BY <1>6 DEF FileFrame, TypeOK
  <2>5. QED BY <1>6, <2>3, <2>4 DEF FileFrame, TypeOK
<1>7. ASSUME NEW g \in Gens, Drain(g) PROVE TypeOK'
  BY <1>7 DEF Drain, Removed, TypeOK
<1>8. ASSUME NEW g \in Gens, FlushOne(g) PROVE TypeOK'
  <2>1. draining[g] \in Seq(Out) /\ draining[g] # <<>> BY <1>8 DEF FlushOne, TypeOK
  <2>2. Head(draining[g]) \in Out /\ Tail(draining[g]) \in Seq(Out) BY <2>1, Headless
  <2>3. Append(sendq[g], Head(draining[g])) \in Seq(Out) /\ Append(disk, Head(draining[g])) \in Seq(Out)
    BY <2>2, Appended DEF TypeOK
  <2>4. /\ sendq' \in [Gens -> Seq(Out)] /\ disk' \in Seq(Out)
        /\ draining' \in [Gens -> Seq(Out)]
    <3>1. CASE Len(sendq[g]) < SendCap BY <1>8, <2>2, <2>3, <3>1 DEF FlushOne, TypeOK
    <3>2. CASE ~(Len(sendq[g]) < SendCap)
      <4>1. /\ disk' = Append(disk, Head(draining[g])) /\ sendq' = sendq
            /\ draining' = [draining EXCEPT ![g] = <<>>]
        BY <1>8, <3>2 DEF FlushOne, Enqueue
      <4>2. <<>> \in Seq(Out) OBVIOUS
      <4>3. QED BY <2>3, <4>1, <4>2 DEF TypeOK
    <3>3. QED BY <3>1, <3>2
  <2>5. QED BY <1>8, <2>4 DEF FlushOne, TypeOK
<1>9. ASSUME NEW g \in Gens, Take(g) PROVE TypeOK'
  <2>1. updates[g] \in Seq(In) /\ updates[g] # <<>> BY <1>9 DEF Take, TypeOK
  <2>2. Head(updates[g]) \in In /\ Tail(updates[g]) \in Seq(In) BY <2>1, Headless
  <2>3. waiters[g] - 1 \in Nat BY <1>9 DEF Take, TypeOK
  <2>4. QED BY <1>9, <2>2, <2>3 DEF Take, TypeOK
<1>10. ASSUME NEW g \in Gens, Reconnected(g) PROVE TypeOK'
  BY <1>10, SMTT(60) DEF Reconnected, Installed, TypeOK
<1>11. ASSUME NEW msg \in handed, Incoming(msg) PROVE TypeOK'
  <2>1. msg \in In BY DEF TypeOK
  <2>2. Append(shown, msg) \in Seq(In) BY <2>1, Appended DEF TypeOK
  <2>3. state' \in {"PENDING", "ONLINE", "DISCONNECTED", "KICKED"}
    BY <1>11 DEF Incoming, NextState, TypeOK
  <2>4. reconnects' \in Nat BY <1>11 DEF Incoming, Asked, TypeOK
  <2>5. waiters' \in [Gens -> Nat] BY <1>11 DEF Incoming, WaitAgain, TypeOK
  <2>6. QED BY <1>11, <2>2, <2>3, <2>4, <2>5 DEF Incoming, TypeOK
<1>12. CASE Dial
  BY <1>12 DEF Dial, Unused, TypeOK
<1>13. CASE Type
  <2> DEFINE x == [kind |-> "chat", n |-> typed + 1, room |-> room]
  <2>1. x \in Out BY DEF Out, TypeOK
  <2>2. Append(sendq[cli], x) \in Seq(Out) BY <2>1, Appended DEF TypeOK
  <2>3. QED BY <1>13, <2>2 DEF Type, TypeOK
<1>14. ASSUME NEW r \in Rooms, SwitchRoom(r) PROVE TypeOK'
  <2> DEFINE x == [kind |-> "join", n |-> switches + 1, room |-> r]
  <2>1. x \in Out BY DEF Out, TypeOK
  <2>2. Append(sendq[cli], x) \in Seq(Out) BY <2>1, Appended DEF TypeOK
  <2>3. sendq' \in [Gens -> Seq(Out)] BY <1>14, <2>2 DEF SwitchRoom, TypeOK
  <2>4. QED BY <1>14, <2>3 DEF SwitchRoom, TypeOK
<1>15. CASE UNCHANGED vars BY <1>15 DEF vars, TypeOK
<1>16. QED
  BY <1>1, <1>2, <1>3, <1>4, <1>5, <1>6, <1>7, <1>8, <1>9, <1>10, <1>11, <1>12, <1>13,
     <1>14, <1>15, <1>17, <1>18, <1>19 DEF Next, Pump

\* The client's state keeps its types: its counters of waiters and commands do
\* not fall below zero, and what a channel or the disk queue holds is a frame.
THEOREM SessionTyped == Spec => []TypeOK
BY SessionInit, SessionTypes, PTL DEF Spec

-----------------------------------------------------------------------------
(* One session. *)

HoldsClosed(s) == \E i \in 1..Len(s) : s[i].kind = "closed"
OneClosed(s) == \A i, j \in 1..Len(s) : s[i].kind = "closed" /\ s[j].kind = "closed" => i = j
ClosedHanded == \E msg \in handed : msg.kind = "closed"
OneHanded == \A m1, m2 \in handed : m1.kind = "closed" /\ m2.kind = "closed" => m1 = m2

\* A Client whose readPump runs, or whose end the TUI has yet to hear of.
Live(g) == reading[g] \/ HoldsClosed(updates[g])

\* At most one reconnect is under way.
OneAttempt == \/ dialled = {} /\ reconnects <= 1
              \/ reconnects = 0 /\ \E g \in Gens : dialled = {g} /\ g > cli

\* The end of a connection is reported once, after its readPump, and only the
\* Client of the TUI or the one it is about to get can still report it: while
\* they can, no reconnect is asked for a second time.
ClientOK(g) ==
  /\ Live(g) => g = cli \/ g \in dialled
  /\ ~(reading[g] /\ HoldsClosed(updates[g]))
  /\ OneClosed(updates[g])
  /\ open[g] => reading[g]
  /\ g > cli => waiters[g] = 0
TokenInv ==
  /\ OneAttempt /\ OneHanded
  /\ \A g \in Gens : ClientOK(g)
  /\ Live(cli) \/ ClosedHanded => reconnects = 0 /\ dialled = {}
  /\ ~(Live(cli) /\ ClosedHanded)

LEMMA AppendOther ==
  ASSUME NEW s \in Seq(In), NEW msg \in In, msg.kind # "closed"
  PROVE  /\ HoldsClosed(Append(s, msg)) <=> HoldsClosed(s)
         /\ OneClosed(s) => OneClosed(Append(s, msg))
<1> DEFINE t == Append(s, msg)  n == Len(s)
<1>1. n \in Nat /\ Len(t) = n + 1 /\ t[n + 1] = msg /\ \A i \in 1..n : t[i] = s[i] BY Appended
<1> HIDE DEF t, n
<1>2. \A i \in 1..(n + 1) : t[i].kind = "closed" => i \in 1..n /\ s[i].kind = "closed"
  <2> SUFFICES ASSUME NEW i \in 1..(n + 1), t[i].kind = "closed"
               PROVE  i \in 1..n /\ s[i].kind = "closed"
    OBVIOUS
  <2>1. i # n + 1 BY <1>1
  <2>2. i \in 1..n BY <1>1, <2>1
  <2>3. QED BY <1>1, <2>2
<1>3. \A i \in 1..n : i \in 1..(n + 1) /\ t[i] = s[i] BY <1>1
<1>4. QED BY <1>1, <1>2, <1>3 DEF HoldsClosed, OneClosed, n, t

LEMMA AppendClosed ==
  ASSUME NEW s \in Seq(In), NEW msg \in In, ~HoldsClosed(s)
  PROVE  OneClosed(Append(s, msg))
<1> DEFINE t == Append(s, msg)  n == Len(s)
<1>1. n \in Nat /\ Len(t) = n + 1 /\ \A i \in 1..n : t[i] = s[i] BY Appended
<1> HIDE DEF t
<1>2. \A i \in 1..n : t[i].kind # "closed" BY <1>1 DEF HoldsClosed
<1> HIDE DEF n
<1>3. \A i \in 1..(n + 1) : t[i].kind = "closed" => i = n + 1 BY <1>1, <1>2
<1>4. QED BY <1>1, <1>3 DEF OneClosed, t

LEMMA TailClosed ==
  ASSUME NEW s \in Seq(In), s # <<>>, OneClosed(s)
  PROVE  /\ OneClosed(Tail(s))
         /\ HoldsClosed(Tail(s)) => HoldsClosed(s) /\ Head(s).kind # "closed"
         /\ Head(s).kind = "closed" => HoldsClosed(s)
<1> DEFINE t == Tail(s)  n == Len(s)
<1>1. /\ n \in Nat \ {0} /\ Len(t) = n - 1 /\ Head(s) = s[1]
      /\ \A i \in 1..(n - 1) : t[i] = s[i + 1]
  BY Headless
<1> HIDE DEF t, n
<1>2. \A i, j \in 1..n : s[i].kind = "closed" /\ s[j].kind = "closed" => i = j
  BY DEF OneClosed, n
<1>3. \A i \in 1..(n - 1) : t[i].kind = "closed" => i + 1 \in 1..n /\ s[i + 1].kind = "closed"
  <2>1. \A i \in 1..(n - 1) : i + 1 \in 1..n BY <1>1
  <2>2. QED BY <1>1, <2>1
<1>4. ASSUME NEW i \in 1..(n - 1), NEW j \in 1..(n - 1), t[i].kind = "closed", t[j].kind = "closed"
      PROVE  i = j
  <2>1. i + 1 = j + 1 BY <1>2, <1>3, <1>4
  <2>2. QED BY <1>1, <2>1
<1>5. 1 \in 1..n BY <1>1
<1>6. ASSUME NEW i \in 1..(n - 1), t[i].kind = "closed" PROVE s[1].kind # "closed"
  <2>1. i + 1 # 1 BY <1>1
  <2>2. QED BY <1>2, <1>3, <1>5, <1>6, <2>1
<1>7. OneClosed(t) BY <1>1, <1>4 DEF OneClosed
<1>8. HoldsClosed(t) => HoldsClosed(s) /\ Head(s).kind # "closed"
  BY <1>1, <1>3, <1>6 DEF HoldsClosed, n
<1>9. Head(s).kind = "closed" => HoldsClosed(s)
  BY <1>1, <1>5 DEF HoldsClosed, n
<1>10. QED BY <1>7, <1>8, <1>9 DEF t

LEMMA TokenInit == Init => TokenInv
<1> SUFFICES ASSUME Init PROVE TokenInv OBVIOUS
<1>1. 1 \in Gens /\ \A g \in Gens : g \in Nat BY SessionAssumption DEF Gens
<1>2. \A g \in Gens : ~HoldsClosed(updates[g]) /\ OneClosed(updates[g])
  BY DEF Init, HoldsClosed, OneClosed
<1>3. \A g \in Gens : (reading[g] <=> g = 1) /\ (open[g] <=> g = 1) BY DEF Init
<1>4. cli = 1 /\ \A g \in Gens : g > 1 => waiters[g] = 0 BY <1>1 DEF Init
<1>5. ASSUME NEW g \in Gens PROVE ClientOK(g)
  BY <1>1, <1>2, <1>3, <1>4 DEF ClientOK, Live
<1>6. QED BY <1>5 DEF Init, TokenInv, OneAttempt, ClosedHanded, OneHanded

\* A message other than the end of a connection changes none of this.
LEMMA OtherUpdate ==
  ASSUME TypeOK, TokenInv, NEW g \in Gens, NEW msg \in In, msg.kind # "closed",
         sendUpdate(g, msg), UNCHANGED <<tui, waiters, handed, clients>>
  PROVE  TokenInv'
<1>1. /\ updates' \in [Gens -> Seq(In)]
      /\ \A h \in Gens : h # g => updates'[h] = updates[h]
      /\ updates'[g] = updates[g] \/ updates'[g] = Append(updates[g], msg)
  BY SendUpdate
<1>2. \A h \in Gens : updates[h] \in Seq(In) BY DEF TypeOK
<1>3. ASSUME NEW h \in Gens
      PROVE  /\ HoldsClosed(updates'[h]) <=> HoldsClosed(updates[h])
             /\ OneClosed(updates[h]) => OneClosed(updates'[h])
  <2>1. CASE updates'[h] = updates[h] BY <2>1
  <2>2. CASE h = g /\ updates'[g] = Append(updates[g], msg) BY <1>2, <2>2, AppendOther
  <2>3. QED BY <1>1, <2>1, <2>2
<1>4. /\ reading' = reading /\ open' = open /\ cli' = cli /\ dialled' = dialled
      /\ reconnects' = reconnects /\ waiters' = waiters /\ handed' = handed
  BY DEF tui, clients
<1>5. \A h \in Gens : Live(h)' <=> Live(h) BY <1>3, <1>4 DEF Live
<1>6. ASSUME NEW h \in Gens PROVE ClientOK(h)'
  BY <1>3, <1>4, <1>5 DEF TokenInv, ClientOK
<1>7. (Live(cli)' <=> Live(cli)) /\ (ClosedHanded' <=> ClosedHanded) /\ OneAttempt' /\ OneHanded'
  BY <1>4, <1>5 DEF TypeOK, ClosedHanded, OneAttempt, OneHanded, TokenInv, Live
<1>8. QED BY <1>4, <1>6, <1>7 DEF TokenInv

\* readPump returns: its Client is live before and after.
LEMMA EndsToken ==
  ASSUME TypeOK, TokenInv, NEW g \in Gens, ReadPumpEnds(g)
  PROVE  TokenInv'
<1>0. PICK msg \in In : msg = Message("closed", 0) BY Messages
<1>1. /\ reading[g] /\ ~open[g] /\ reading' = [reading EXCEPT ![g] = FALSE]
      /\ open' = open /\ cli' = cli /\ dialled' = dialled /\ reconnects' = reconnects
      /\ waiters' = waiters /\ handed' = handed
  BY DEF ReadPumpEnds, tui
<1>2. /\ \A h \in Gens : h # g => updates'[h] = updates[h]
      /\ updates'[g] = updates[g] \/ updates'[g] = Append(updates[g], msg)
  BY <1>0, SendUpdate DEF ReadPumpEnds
<1>3. \A h \in Gens : ClientOK(h) BY DEF TokenInv
<1>4. ~HoldsClosed(updates[g]) /\ Live(g) BY <1>1, <1>3 DEF ClientOK, Live
<1>5. OneClosed(updates'[g])
  BY <1>2, <1>3, <1>4, AppendClosed DEF ClientOK, TypeOK
<1>6. \A h \in Gens : (h # g => (reading'[h] <=> reading[h])) /\ ~reading'[g]
  BY <1>1 DEF TypeOK
<1>7. \A h \in Gens : Live(h)' => Live(h)
  BY <1>2, <1>4, <1>6 DEF Live
<1>8. ASSUME NEW h \in Gens PROVE ClientOK(h)'
  <2>1. ClientOK(h) BY <1>3
  <2>2. CASE h = g BY <1>1, <1>5, <1>6, <1>7, <2>1, <2>2 DEF ClientOK
  <2>3. CASE h # g BY <1>1, <1>2, <1>6, <1>7, <2>1, <2>3 DEF ClientOK
  <2>4. QED BY <2>2, <2>3
<1>9. Live(cli)' => Live(cli) BY <1>1, <1>7 DEF TypeOK, Live
<1>10. OneAttempt' /\ OneHanded' /\ (ClosedHanded' <=> ClosedHanded)
  BY <1>1 DEF TokenInv, OneAttempt, OneHanded, ClosedHanded
<1>11. QED BY <1>1, <1>8, <1>9, <1>10 DEF TokenInv

\* A waiter takes the end of the connection: then nobody else can ask.
LEMMA TakeToken ==
  ASSUME TypeOK, TokenInv, NEW g \in Gens, Take(g)
  PROVE  TokenInv'
<1> DEFINE msg == Head(updates[g])
<1>1. /\ waiters[g] > 0 /\ updates[g] # <<>>
      /\ waiters' = [waiters EXCEPT ![g] = waiters[g] - 1]
      /\ handed' = handed \cup {msg} /\ updates' = [updates EXCEPT ![g] = Tail(updates[g])]
      /\ reading' = reading /\ open' = open /\ cli' = cli /\ dialled' = dialled
      /\ reconnects' = reconnects
  BY DEF Take, tui, clients
<1>2. \A h \in Gens : ClientOK(h) /\ h \in Nat BY DEF TokenInv, Gens
<1>3. updates[g] \in Seq(In) /\ cli \in Gens /\ waiters[g] \in Nat BY DEF TypeOK
<1>4. /\ OneClosed(Tail(updates[g]))
      /\ HoldsClosed(Tail(updates[g])) => HoldsClosed(updates[g]) /\ msg.kind # "closed"
      /\ msg.kind = "closed" => HoldsClosed(updates[g])
  BY <1>1, <1>2, <1>3, TailClosed DEF ClientOK
<1>5. ~(g > cli) BY <1>1, <1>2, <1>3 DEF ClientOK
<1>6. \A h \in Gens : (h # g => updates'[h] = updates[h]) /\ updates'[g] = Tail(updates[g])
  BY <1>1 DEF TypeOK
<1>7. \A h \in Gens : Live(h)' => Live(h) BY <1>1, <1>4, <1>6 DEF Live
<1>8. ASSUME NEW h \in Gens PROVE ClientOK(h)'
  <2>1. ClientOK(h) BY <1>2
  <2>2. CASE h = g
    <3>1. ~(g > cli') BY <1>1, <1>5
    <3>2. QED BY <1>1, <1>4, <1>6, <1>7, <2>1, <2>2, <3>1 DEF ClientOK
  <2>3. CASE h # g
    <3>1. waiters'[h] = waiters[h] BY <1>1, <2>3 DEF TypeOK
    <3>2. QED BY <1>1, <1>6, <1>7, <2>1, <2>3, <3>1 DEF ClientOK
  <2>4. QED BY <2>2, <2>3
<1>9. OneAttempt' BY <1>1 DEF TokenInv, OneAttempt
<1>10. Live(cli)' => Live(cli) BY <1>1, <1>3, <1>7 DEF Live
<1>11. CASE msg.kind # "closed"
  <2>1. (ClosedHanded' <=> ClosedHanded) /\ OneHanded'
    BY <1>1, <1>11 DEF ClosedHanded, OneHanded, TokenInv
  <2>2. QED BY <1>1, <1>8, <1>9, <1>10, <2>1 DEF TokenInv
<1>12. CASE msg.kind = "closed"
  <2>1. Live(g) BY <1>4, <1>12 DEF Live
  <2>2. g = cli
    <3>1. g = cli \/ g \in dialled BY <1>2, <2>1 DEF ClientOK
    <3>2. g \in dialled => g > cli BY DEF TokenInv, OneAttempt
    <3>3. QED BY <1>5, <3>1, <3>2
  <2>3. reconnects = 0 /\ dialled = {} /\ ~ClosedHanded BY <2>1, <2>2 DEF TokenInv
  <2>4. ~Live(cli)'
    <3>1. ~reading[g] BY <1>2, <1>4, <1>12 DEF ClientOK
    <3>2. QED BY <1>1, <1>4, <1>6, <1>12, <2>2, <3>1 DEF Live
  <2>5. OneHanded' BY <1>1, <2>3 DEF OneHanded, ClosedHanded
  <2>6. QED BY <1>1, <1>8, <1>9, <2>3, <2>4, <2>5 DEF TokenInv
<1>13. QED BY <1>11, <1>12

\* Update answers the end of the connection with one command.
LEMMA IncomingToken ==
  ASSUME TypeOK, TokenInv, NEW msg \in handed, Incoming(msg)
  PROVE  TokenInv'
<1>1. /\ handed' = handed \ {msg} /\ waiters' = [waiters EXCEPT ![cli] = waiters[cli] + 1]
      /\ reading' = reading /\ open' = open /\ cli' = cli /\ dialled' = dialled
      /\ updates' = updates
  BY DEF Incoming, WaitAgain, clients
<1>2. \A h \in Gens : (Live(h)' <=> Live(h)) /\ h \in Nat BY <1>1 DEF Live, Gens
<1>3. \A h \in Gens : h > cli => waiters'[h] = waiters[h] BY <1>1, <1>2 DEF TypeOK
<1>4. ASSUME NEW h \in Gens PROVE ClientOK(h)'
  BY <1>1, <1>2, <1>3 DEF TokenInv, ClientOK
<1>5. OneHanded' /\ (ClosedHanded' => ClosedHanded) /\ (Live(cli)' <=> Live(cli))
  BY <1>1 DEF TokenInv, OneHanded, ClosedHanded, Live
<1>6. CASE reconnects' = reconnects
  <2>1. OneAttempt' BY <1>1, <1>6 DEF TokenInv, OneAttempt
  <2>2. QED BY <1>1, <1>4, <1>5, <1>6, <2>1 DEF TokenInv
<1>7. CASE msg.kind = "closed" /\ reconnects' = reconnects + 1
  <2>1. ClosedHanded BY <1>7 DEF ClosedHanded
  <2>2. reconnects = 0 /\ dialled = {} /\ ~Live(cli) BY <2>1 DEF TokenInv
  <2>3. ~ClosedHanded' BY <1>1, <1>7 DEF TokenInv, OneHanded, ClosedHanded
  <2>4. OneAttempt' BY <1>1, <1>7, <2>2 DEF OneAttempt
  <2>5. QED BY <1>4, <1>5, <2>2, <2>3, <2>4 DEF TokenInv
<1>8. QED BY <1>6, <1>7 DEF Incoming, Asked

\* Connect makes a Client nobody has used.
LEMMA DialToken == ASSUME TypeOK, TokenInv, Dial PROVE TokenInv'
<1>1. PICK g \in Unused :
        /\ reconnects' = reconnects - 1 /\ dialled' = dialled \cup {g}
        /\ open' = [open EXCEPT ![g] = TRUE] /\ reading' = [reading EXCEPT ![g] = TRUE]
  BY DEF Dial
<1>2. /\ reconnects > 0 /\ cli' = cli /\ waiters' = waiters /\ handed' = handed
      /\ updates' = updates
  BY DEF Dial, inbound
<1>3. reconnects = 1 /\ dialled = {} BY <1>2 DEF TokenInv, OneAttempt, TypeOK
<1>4. g \in Gens /\ g > cli /\ g # cli /\ cli \in Gens
  BY <1>1 DEF Unused, TypeOK, Gens
<1>5. ~Live(cli) /\ ~ClosedHanded BY <1>3 DEF TokenInv
<1>6. ~Live(g)  BY <1>3, <1>4 DEF TokenInv, ClientOK
<1>7. \A h \in Gens : h # g => (reading'[h] <=> reading[h]) /\ (open'[h] <=> open[h])
  BY <1>1 DEF TypeOK
<1>8. reading'[g] /\ open'[g] BY <1>1, <1>4 DEF TypeOK
<1>9. ASSUME NEW h \in Gens PROVE ClientOK(h)'
  <2>1. ClientOK(h) BY DEF TokenInv
  <2>2. CASE h = g BY <1>1, <1>2, <1>6, <1>8, <2>1, <2>2 DEF ClientOK, Live
  <2>3. CASE h # g BY <1>1, <1>2, <1>7, <2>1, <2>3 DEF ClientOK, Live
  <2>4. QED BY <2>2, <2>3
<1>10. OneAttempt' BY <1>1, <1>2, <1>3, <1>4 DEF OneAttempt
<1>11. ~Live(cli)' /\ ~ClosedHanded' /\ OneHanded'
  BY <1>2, <1>4, <1>5, <1>7 DEF Live, ClosedHanded, OneHanded
<1>12. QED BY <1>9, <1>10, <1>11 DEF TokenInv

\* The new Client replaces one that is over.
LEMMA ReconnectedToken ==
  ASSUME TypeOK, TokenInv, NEW g \in Gens, Reconnected(g)
  PROVE  TokenInv'
<1>1. /\ g \in dialled /\ dialled' = dialled \ {g} /\ cli' = g
      /\ waiters' = [waiters EXCEPT ![g] = waiters[g] + 1]
      /\ reading' = reading /\ open' = open /\ reconnects' = reconnects
      /\ handed' = handed /\ updates' = updates
  BY DEF Reconnected, clients
<1>2. reconnects = 0 /\ dialled = {g} /\ g > cli BY <1>1 DEF TokenInv, OneAttempt
<1>3. ~Live(cli) /\ ~ClosedHanded BY <1>2 DEF TokenInv
<1>4. \A h \in Gens : h > g => h > cli /\ waiters'[h] = waiters[h]
  BY <1>1, <1>2 DEF TypeOK, Gens
<1>5. ASSUME NEW h \in Gens PROVE ClientOK(h)'
  <2>1. ClientOK(h) BY DEF TokenInv
  <2>2. Live(h) => h = g BY <1>2, <1>3, <2>1 DEF ClientOK
  <2>3. h > cli' => waiters'[h] = 0 BY <1>1, <1>4, <2>1 DEF ClientOK
  <2>4. QED BY <1>1, <2>1, <2>2, <2>3 DEF ClientOK, Live
<1>6. OneAttempt' /\ OneHanded' /\ ~ClosedHanded' /\ reconnects' = 0 /\ dialled' = {}
  BY <1>1, <1>2, <1>3 DEF OneAttempt, OneHanded, ClosedHanded, TokenInv
<1>7. QED BY <1>5, <1>6 DEF TokenInv

LEMMA TokenStep == ASSUME TypeOK, TokenInv, [Next]_vars PROVE TokenInv'
<1>1. ASSUME NEW g \in Gens, NEW kind \in Kinds, HubSends(g, kind) PROVE TokenInv'
  <2> DEFINE msg == Message(kind, Len(sent) + 1)
  <2>1. msg \in In /\ msg.kind # "closed" BY Messages DEF Kinds, TypeOK
  <2>2. QED BY <1>1, <2>1, OtherUpdate DEF HubSends, Arrives
<1>10. ASSUME NEW g \in Gens, NEW p \in Peers, HubSendsUnreadable(g, p) PROVE TokenInv'
  <2> DEFINE msg == Message("chat", Len(sent) + 1)
  <2>1. msg \in In /\ msg.kind # "closed" BY Messages DEF Kinds, TypeOK
  <2>2. QED BY <1>10, <2>1, OtherUpdate DEF HubSendsUnreadable, Arrives
<1>2. ASSUME NEW g \in Gens, Notice(g) PROVE TokenInv'
  <2> DEFINE msg == Message("notice", notices + 1)
  <2>1. notices + 1 \in Nat BY DEF TypeOK
  <2>2. msg \in In /\ msg.kind # "closed" BY <2>1 DEF In, Message
  <2>3. QED BY <1>2, <2>2, OtherUpdate DEF Notice
<1>3. ASSUME UNCHANGED <<cli, dialled, reconnects, waiters, handed, updates, reading>>,
             \A g \in Gens : open'[g] => open[g]
      PROVE  TokenInv'
  BY <1>3 DEF TokenInv, OneAttempt, OneHanded, ClientOK, Live, ClosedHanded
<1>11. ASSUME NEW g \in Gens, NEW p \in Peers, HubSendsKey(g, p) PROVE TokenInv'
  BY <1>3, <1>11 DEF HubSendsKey, Arrives, tui, clients
<1>12. ASSUME NEW g \in Gens, flushPending(g) PROVE TokenInv'
  <2>1. PICK y \in flushing[g] :
          \/ sendUpdate(g, [kind |-> "text", n |-> y.n, from |-> y.from])
          \/ UNCHANGED updates
    BY <1>12 DEF flushPending, OldestOf
  <2> DEFINE msg == [kind |-> "text", n |-> y.n, from |-> y.from]
  <2>2. msg \in In /\ msg.kind # "closed" BY Messages DEF TypeOK
  <2>3. UNCHANGED <<tui, waiters, handed, clients>> BY <1>12 DEF flushPending
  <2>4. CASE UNCHANGED updates BY <1>3, <2>3, <2>4 DEF tui, clients
  <2>5. CASE sendUpdate(g, msg) BY <2>2, <2>3, <2>5, OtherUpdate
  <2>6. QED BY <2>1, <2>4, <2>5
<1>4. ASSUME NEW g \in Gens, HubCloses(g) PROVE TokenInv'
  <2>1. \A h \in Gens : open'[h] => open[h] BY <1>4 DEF HubCloses, TypeOK
  <2>2. QED BY <1>3, <1>4, <2>1 DEF HubCloses, tui, inbound
<1>5. ASSUME NEW g \in Gens, WritePump(g) \/ FileFrame(g) \/ Drain(g) \/ FlushOne(g)
      PROVE  TokenInv'
  BY <1>3, <1>5 DEF WritePump, FileFrame, Drain, FlushOne, tui, inbound, clients
<1>6. CASE Type BY <1>3, <1>6 DEF Type, tui, inbound, clients
<1>7. ASSUME NEW r \in Rooms, SwitchRoom(r) PROVE TokenInv'
  BY <1>3, <1>7 DEF SwitchRoom, inbound
<1>8. CASE UNCHANGED vars BY <1>3, <1>8 DEF vars, tui, inbound, clients
<1>9. QED
  BY <1>1, <1>2, <1>4, <1>5, <1>6, <1>7, <1>8, <1>10, <1>11, <1>12, EndsToken, TakeToken, IncomingToken, DialToken,
     ReconnectedToken DEF Next, Pump

LEMMA TokenInvariant == Spec => []TokenInv
BY TokenInit, TokenStep, SessionTyped, PTL DEF Spec

\* A user never has two sessions: at most one reconnect is under way, and what
\* is open belongs to the TUI's Client or to the one it is about to get, over
\* any number of disconnects.
THEOREM UserHasOneSession == Spec => []OneSession
<1>1. TypeOK /\ TokenInv => OneSession
  <2> SUFFICES ASSUME TypeOK, TokenInv PROVE OneSession OBVIOUS
  <2>1. \A g \in Gens : open[g] => g = cli \/ g \in dialled
    BY DEF TokenInv, ClientOK, Live
  <2>2. CASE dialled = {} /\ reconnects <= 1
    <3>1. Cardinality(dialled) = 0 BY <2>2, FS_EmptySet
    <3>2. QED BY <2>1, <2>2, <3>1 DEF OneSession, TypeOK
  <2>3. ASSUME reconnects = 0, NEW g \in Gens, dialled = {g} PROVE OneSession
    <3>1. Cardinality({g}) = 1 BY FS_Singleton, Zenon
    <3>2. QED BY <2>1, <2>3, <3>1 DEF OneSession
  <2>4. QED BY <2>2, <2>3 DEF TokenInv, OneAttempt
<1>2. QED BY <1>1, TokenInvariant, SessionTyped, PTL

-----------------------------------------------------------------------------
(* The order of the chats. *)

\* One message at a time is on its way to Update, from the current Client.
OneWaiter == /\ waiters[cli] <= 1
             /\ handed = {} \/ (waiters[cli] = 0 /\ \E msg \in handed : handed = {msg})

\* What UpdateChans hold: nothing but in the Client of the TUI, or in the one it
\* is about to get once the old one is done with.
ClosedLast(s) == \A i \in 1..Len(s) : s[i].kind = "closed" => i = Len(s)
Backlog ==
  /\ \A g \in Gens : g # cli /\ g \notin dialled => updates[g] = <<>>
  /\ reconnects > 0 \/ dialled # {} => handed = {} /\ updates[cli] = <<>>
  /\ ClosedHanded => updates[cli] = <<>>
  /\ \A g \in Gens : ClosedLast(updates[g])

\* Rows further along the way come later: whatever is on its way to the screen,
\* or there, precedes what is behind it.
Ahead(x, y) == IsRow(x) /\ IsRow(y) => Precedes(x, y)
RisingSeq(s) == \A i, j \in 1..Len(s) : i < j => Ahead(s[i], s[j])
After(s, x) == \A i \in 1..Len(s) : Ahead(x, s[i])
Rising ==
  /\ \A i \in 1..Len(shown) : IsRow(shown[i])
  /\ RisingSeq(shown)
  /\ \A msg \in handed : \A i \in 1..Len(shown) : Ahead(shown[i], msg)
  /\ \A g \in Gens : /\ RisingSeq(updates[g])
                     /\ \A j \in 1..Len(shown) : After(updates[g], shown[j])
                     /\ \A msg \in handed : After(updates[g], msg)

\* What readPump still has of the sender's chats is newer than the late texts it
\* passed on of that sender; and no row has a number the hub has not given yet.
OnWay(x) == \/ \E i \in 1..Len(shown) : shown[i] = x
            \/ x \in handed
            \/ \E g \in Gens : \E i \in 1..Len(updates[g]) : updates[g][i] = x
Kept(g) == pending[g] \cup flushing[g]
Waiting ==
  /\ \A x \in In : OnWay(x) /\ IsRow(x) => x.n <= Len(sent)
  /\ \A g \in Gens : reading[g] =>
       /\ \A y \in Kept(g) :
            /\ y.n <= Len(sent)
            /\ \A x \in In : OnWay(x) /\ x.kind = "text" /\ x.from = y.from => x.n < y.n
       /\ \A y \in flushing[g], z \in pending[g] : y.from # z.from

Ordered == OneWaiter /\ Backlog /\ Rising /\ Waiting
OrderInv == notices = 0 => Ordered

\* A message joins an UpdateChan behind all that is on its way.
LEMMA AppendRises ==
  ASSUME NEW s \in Seq(In), NEW msg \in In, RisingSeq(s),
         \A i \in 1..Len(s) : Ahead(s[i], msg)
  PROVE  /\ RisingSeq(Append(s, msg))
         /\ \A x : Ahead(x, msg) /\ After(s, x) => After(Append(s, msg), x)
<1> DEFINE t == Append(s, msg)  n == Len(s)
<1>1. n \in Nat /\ Len(t) = n + 1 /\ t[n + 1] = msg /\ \A i \in 1..n : t[i] = s[i] BY Appended
<1>2. /\ \A i, j \in 1..n : i < j => Ahead(s[i], s[j])
      /\ \A i \in 1..n : Ahead(s[i], msg)
  BY DEF RisingSeq
<1> HIDE DEF t, n
<1>3. \A i \in 1..(n + 1) : i \in 1..n \/ i = n + 1 BY <1>1
<1>4. RisingSeq(t)
  <2> SUFFICES ASSUME NEW i \in 1..(n + 1), NEW j \in 1..(n + 1), i < j
               PROVE  Ahead(t[i], t[j])
    BY <1>1 DEF RisingSeq
  <2>1. i \in 1..n BY <1>1
  <2>2. QED BY <1>1, <1>2, <1>3, <2>1
<1>5. ASSUME NEW x, Ahead(x, msg), After(s, x) PROVE After(t, x)
  <2>1. \A i \in 1..n : Ahead(x, s[i]) BY <1>5 DEF After, n
  <2>2. QED BY <1>1, <1>3, <1>5, <2>1 DEF After
<1>6. QED BY <1>4, <1>5 DEF t

LEMMA AppendLast ==
  ASSUME NEW s \in Seq(In), NEW msg \in In, ~HoldsClosed(s)
  PROVE  ClosedLast(Append(s, msg))
<1> DEFINE t == Append(s, msg)  n == Len(s)
<1>1. n \in Nat /\ Len(t) = n + 1 /\ \A i \in 1..n : t[i] = s[i] BY Appended
<1>2. \A i \in 1..n : s[i].kind # "closed" BY DEF HoldsClosed
<1> HIDE DEF t, n
<1>3. \A i \in 1..(n + 1) : i \in 1..n \/ i = n + 1 BY <1>1
<1>4. QED BY <1>1, <1>2, <1>3 DEF ClosedLast, t

\* The oldest message leaves an UpdateChan.
LEMMA TailRises ==
  ASSUME NEW s \in Seq(In), s # <<>>, RisingSeq(s), ClosedLast(s)
  PROVE  /\ RisingSeq(Tail(s)) /\ ClosedLast(Tail(s))
         /\ Head(s).kind = "closed" => Tail(s) = <<>>
         /\ After(Tail(s), Head(s))
         /\ \A x : After(s, x) => After(Tail(s), x) /\ Ahead(x, Head(s))
<1> DEFINE t == Tail(s)  n == Len(s)
<1>1. /\ n \in Nat \ {0} /\ Len(t) = n - 1 /\ Head(s) = s[1] /\ t \in Seq(In)
      /\ \A i \in 1..(n - 1) : t[i] = s[i + 1]
  BY Headless
<1> HIDE DEF t, n
<1>2. 1 \in 1..n /\ \A i \in 1..(n - 1) : i + 1 \in 1..n /\ 1 < i + 1 BY <1>1
<1>3. RisingSeq(t)
  <2> SUFFICES ASSUME NEW i \in 1..(n - 1), NEW j \in 1..(n - 1), i < j
               PROVE  Ahead(t[i], t[j])
    BY <1>1 DEF RisingSeq
  <2>1. i + 1 < j + 1 BY <1>1
  <2>2. QED BY <1>1, <1>2, <2>1 DEF RisingSeq, n
<1>4. ClosedLast(t)
  <2> SUFFICES ASSUME NEW i \in 1..(n - 1), t[i].kind = "closed" PROVE i = n - 1
    BY <1>1 DEF ClosedLast
  <2>1. i + 1 = n BY <1>1, <1>2 DEF ClosedLast, n
  <2>2. QED BY <1>1, <2>1
<1>5. ASSUME Head(s).kind = "closed" PROVE t = <<>>
  <2>1. n = 1 BY <1>1, <1>2, <1>5 DEF ClosedLast, n
  <2>2. Len(t) = 0 BY <1>1, <2>1
  <2>3. QED BY <1>1, <2>2
<1>6. After(t, Head(s)) BY <1>1, <1>2 DEF After, RisingSeq, n
<1>7. \A x : After(s, x) => After(t, x) /\ Ahead(x, Head(s))
  BY <1>1, <1>2 DEF After, n
<1>8. QED BY <1>3, <1>4, <1>5, <1>6, <1>7 DEF t

LEMMA OrderInit == Init => OrderInv
<1> SUFFICES ASSUME Init PROVE OrderInv OBVIOUS
<1>1. 1 \in Gens BY SessionAssumption DEF Gens
<1>2. /\ \A g \in Gens : updates[g] = <<>> /\ \A i : i \notin 1..Len(updates[g])
      /\ \A i : i \notin 1..Len(shown)
  BY DEF Init
<1>3. OneWaiter BY <1>1 DEF Init, OneWaiter
<1>4. Backlog BY <1>1, <1>2 DEF Init, Backlog, ClosedLast, ClosedHanded
<1>5. Rising BY <1>2 DEF Init, Rising, RisingSeq, After
<1>6. Waiting
  <2>1. \A x : ~OnWay(x) BY <1>2 DEF Init, OnWay
  <2>2. \A g \in Gens : Kept(g) = {} /\ flushing[g] = {} BY DEF Init, Kept
  <2>3. QED BY <2>1, <2>2 DEF Waiting
<1>7. QED BY <1>3, <1>4, <1>5, <1>6 DEF OrderInv, Ordered

\* One readPump runs at a time.
LEMMA OneReads ==
  ASSUME TypeOK, TokenInv, NEW g \in Gens, NEW h \in Gens, reading[g], reading[h]
  PROVE  g = h
<1>1. g = cli \/ g \in dialled BY DEF TokenInv, ClientOK, Live
<1>2. h = cli \/ h \in dialled BY DEF TokenInv, ClientOK, Live
<1>3. g = cli \/ h = cli => dialled = {} BY DEF TokenInv, Live
<1>4. \A x, y \in dialled : x = y BY DEF TokenInv, OneAttempt
<1>5. QED BY <1>1, <1>2, <1>3, <1>4

\* What the hub sends, or the end of the connection, joins the UpdateChan of a
\* Client whose readPump runs.
LEMMA UpdateOrder ==
  ASSUME TypeOK, TypeOK', TokenInv, OneWaiter, Backlog, Rising, NEW g \in Gens, reading[g],
         NEW msg \in In, \A x \in In : OnWay(x) => Ahead(x, msg),
         sendUpdate(g, msg), UNCHANGED <<tui, waiters, handed>>
  PROVE  /\ OneWaiter' /\ Backlog' /\ Rising'
         /\ \A x \in In : OnWay(x)' => OnWay(x) \/ x = msg
<1>1. /\ \A h \in Gens : h # g => updates'[h] = updates[h]
      /\ updates'[g] = updates[g] \/ updates'[g] = Append(updates[g], msg)
  BY SendUpdate
<1>2. /\ cli \in Gens /\ shown \in Seq(In) /\ handed \subseteq In
      /\ \A h \in Gens : updates[h] \in Seq(In)
  BY DEF TypeOK
<1>3. /\ cli' = cli /\ dialled' = dialled /\ reconnects' = reconnects /\ shown' = shown
      /\ waiters' = waiters /\ handed' = handed
  BY DEF tui
<1>4. /\ g = cli \/ g \in dialled
      /\ ~HoldsClosed(updates[g])
      /\ g = cli => reconnects = 0 /\ dialled = {} /\ ~ClosedHanded
  BY DEF TokenInv, ClientOK, Live
<1>5. OneWaiter' BY <1>3 DEF OneWaiter
<1>6. \A i \in 1..Len(updates[g]) : Ahead(updates[g][i], msg)
  <2>1. \A i \in 1..Len(updates[g]) : updates[g][i] \in In BY <1>2
  <2>2. QED BY <2>1 DEF OnWay
<1>7. /\ \A i \in 1..Len(shown) : Ahead(shown[i], msg)
      /\ \A x \in handed : Ahead(x, msg)
  <2>1. \A i \in 1..Len(shown) : shown[i] \in In BY <1>2
  <2>2. QED BY <1>2, <2>1 DEF OnWay
<1>8. ASSUME NEW h \in Gens
      PROVE  /\ RisingSeq(updates'[h]) /\ ClosedLast(updates'[h])
             /\ \A x : Ahead(x, msg) /\ After(updates[h], x) => After(updates'[h], x)
             /\ \A i \in 1..Len(updates'[h]) :
                  updates'[h][i] = msg \/ \E j \in 1..Len(updates[h]) : updates[h][j] = updates'[h][i]
  <2>1. RisingSeq(updates[h]) /\ ClosedLast(updates[h]) BY DEF Rising, Backlog
  <2>2. CASE updates'[h] = updates[h] BY <2>1, <2>2
  <2>3. CASE h = g /\ updates'[g] = Append(updates[g], msg)
    <3>1. \A i \in 1..Len(updates'[h]) :
            updates'[h][i] = msg \/ \E j \in 1..Len(updates[h]) : updates[h][j] = updates'[h][i]
      <4> DEFINE n == Len(updates[h])  t == updates'[h]
      <4>1. n \in Nat /\ Len(t) = n + 1 /\ t[n + 1] = msg /\ \A i \in 1..n : t[i] = updates[h][i]
        BY <1>2, <2>3, Appended
      <4> HIDE DEF t
      <4>2. \A i \in 1..(n + 1) : i \in 1..n \/ i = n + 1 BY <4>1
      <4>3. QED BY <4>1, <4>2 DEF t
    <3>2. ClosedLast(updates'[h]) BY <1>2, <1>4, <2>3, AppendLast
    <3>3. RisingSeq(updates'[h]) /\ \A x : Ahead(x, msg) /\ After(updates[h], x) => After(updates'[h], x)
      BY <1>2, <1>6, <2>1, <2>3, AppendRises
    <3>4. QED BY <3>1, <3>2, <3>3
  <2>4. QED BY <1>1, <2>2, <2>3
<1>9. Backlog'
  <2>1. \A h \in Gens : h # cli /\ h \notin dialled => updates'[h] = <<>>
    BY <1>1, <1>4 DEF Backlog
  <2>2. reconnects > 0 \/ dialled # {} => handed = {} /\ updates'[cli] = <<>>
    BY <1>1, <1>2, <1>4 DEF Backlog
  <2>3. ClosedHanded => updates'[cli] = <<>>
    BY <1>1, <1>2, <1>4 DEF Backlog
  <2>4. ClosedHanded' <=> ClosedHanded BY <1>3 DEF ClosedHanded
  <2>5. QED BY <1>3, <1>8, <2>1, <2>2, <2>3, <2>4 DEF Backlog
<1>10. Rising'
  <2>1. \A h \in Gens : \A j \in 1..Len(shown) : After(updates'[h], shown[j])
    BY <1>7, <1>8 DEF Rising
  <2>2. \A h \in Gens : \A x \in handed : After(updates'[h], x)
    BY <1>7, <1>8 DEF Rising
  <2>3. QED BY <1>3, <1>8, <2>1, <2>2 DEF Rising
<1>11. \A x \in In : OnWay(x)' => OnWay(x) \/ x = msg BY <1>3, <1>8 DEF OnWay
<1>12. QED BY <1>5, <1>9, <1>10, <1>11

\* A step that passes on no late text keeps what readPump still has in order.
LEMMA WaitingStays ==
  ASSUME TypeOK, TypeOK', Waiting, Len(sent) <= Len(sent'),
         \A x \in In : OnWay(x)' =>
           OnWay(x) \/ (x.kind # "text" /\ (IsRow(x) => x.n <= Len(sent'))),
         \A g \in Gens : reading'[g] /\ Kept(g)' # {} =>
           /\ reading[g]
           /\ \A y \in Kept(g)' : y \in Kept(g) \/ (Len(sent) < y.n /\ y.n <= Len(sent'))
           /\ \A y \in flushing'[g], z \in pending'[g] : y.from # z.from
  PROVE  Waiting'
<1> DEFINE m == Len(sent)  k == Len(sent')
<1>1. m \in Nat /\ k \in Nat
  <2>1. sent \in Seq(Kinds) /\ sent' \in Seq(Kinds) BY DEF TypeOK
  <2>2. QED BY <2>1
<1>2. \A x \in In : x.n \in Nat BY DEF In
<1>3. \A g \in Gens : \A y \in Kept(g)' : y.n \in Nat
  <2>1. \A g \in Gens : pending'[g] \subseteq Undecrypted /\ flushing'[g] \subseteq Undecrypted
    BY DEF TypeOK
  <2>2. QED BY <2>1 DEF Kept, Undecrypted
<1>4. m <= k OBVIOUS
<1>5. \A x \in In : OnWay(x) /\ IsRow(x) => x.n <= m BY DEF Waiting
<1>6. ASSUME NEW x \in In, OnWay(x)', IsRow(x) PROVE x.n <= k
  BY <1>1, <1>2, <1>4, <1>5, <1>6
<1>7. ASSUME NEW g \in Gens, reading'[g], NEW y \in Kept(g)'
      PROVE  /\ y.n <= k
             /\ \A x \in In : OnWay(x)' /\ x.kind = "text" /\ x.from = y.from => x.n < y.n
  <2>1. reading[g] /\ (y \in Kept(g) \/ (m < y.n /\ y.n <= k)) /\ y.n \in Nat
    BY <1>3, <1>7
  <2>2. CASE y \in Kept(g)
    <3>1. /\ y.n <= m
          /\ \A x \in In : OnWay(x) /\ x.kind = "text" /\ x.from = y.from => x.n < y.n
      BY <2>1, <2>2 DEF Waiting
    <3>2. y.n <= k BY <1>1, <1>4, <2>1, <3>1
    <3>3. QED BY <3>1, <3>2
  <2>3. CASE m < y.n /\ y.n <= k
    <3>1. ASSUME NEW x \in In, OnWay(x)', x.kind = "text" PROVE x.n < y.n
      <4>1. OnWay(x) /\ IsRow(x) BY <3>1 DEF IsRow
      <4>2. x.n <= m /\ x.n \in Nat BY <1>2, <1>5, <4>1
      <4>3. QED BY <1>1, <2>1, <2>3, <4>2
    <3>2. QED BY <2>3, <3>1
  <2>4. QED BY <2>1, <2>2, <2>3
<1>8. ASSUME NEW g \in Gens, reading'[g], NEW y \in flushing'[g], NEW z \in pending'[g]
      PROVE  y.from # z.from
  <2>1. y \in Kept(g)' BY DEF Kept
  <2>2. QED BY <1>8, <2>1
<1> HIDE DEF k
<1>9. QED BY <1>6, <1>7, <1>8 DEF Waiting, k

\* flushPending passes on the oldest of what it has: no later one of that sender
\* is ahead of it.
LEMMA FlushOrder ==
  ASSUME TypeOK, TypeOK', TokenInv, Ordered, NEW g \in Gens, flushPending(g)
  PROVE  Ordered'
<1>1. PICK y \in flushing[g] :
        /\ \A z \in flushing[g] : y.n <= z.n
        /\ flushing' = [flushing EXCEPT ![g] = flushing[g] \ {y}]
        /\ \/ sendUpdate(g, [kind |-> "text", n |-> y.n, from |-> y.from])
           \/ UNCHANGED updates
  BY DEF flushPending, OldestOf
<1> DEFINE msg == [kind |-> "text", n |-> y.n, from |-> y.from]
<1>2. /\ reading[g] /\ UNCHANGED <<tui, waiters, handed>> /\ pending' = pending
      /\ reading' = reading /\ sent' = sent
  BY DEF flushPending, clients, counts
<1>3. y \in Undecrypted /\ msg \in In /\ y \in Kept(g) BY Messages DEF TypeOK, Kept
<1>4. /\ y.n <= Len(sent)
      /\ \A x \in In : OnWay(x) /\ x.kind = "text" /\ x.from = y.from => x.n < y.n
  BY <1>2, <1>3 DEF Ordered, Waiting
<1>5. \A x \in In : OnWay(x) => Ahead(x, msg)
  BY <1>4 DEF Ahead, Precedes
<1>6. OneWaiter' /\ Backlog' /\ Rising' /\ \A x \in In : OnWay(x)' => OnWay(x) \/ x = msg
  <2>1. CASE sendUpdate(g, msg)
    <3> HIDE DEF msg
    <3>1. QED BY <1>2, <1>3, <1>5, <2>1, UpdateOrder DEF Ordered
  <2>2. CASE UNCHANGED updates
    BY <1>2, <2>2 DEF Ordered, OneWaiter, Backlog, Rising, ClosedHanded, OnWay, tui
  <2>3. QED BY <1>1, <2>1, <2>2
<1>7. ASSUME NEW h \in Gens, reading'[h] PROVE h = g BY <1>2, <1>7, OneReads
<1>8. /\ flushing'[g] = flushing[g] \ {y} /\ pending'[g] = pending[g]
  BY <1>1, <1>2 DEF TypeOK
<1>9. \A z \in Kept(g)' : z \in Kept(g) /\ z # y
  <2>1. \A z \in pending[g] : z.from # y.from BY <1>2 DEF Ordered, Waiting
  <2>2. QED BY <1>8, <2>1 DEF Kept
<1>10. ASSUME NEW z \in Kept(g)', z.from = y.from PROVE y.n < z.n
  <2>1. z \in flushing[g] /\ z # y
    <3>1. \A x \in pending[g] : x.from # y.from BY <1>2 DEF Ordered, Waiting
    <3>2. QED BY <1>9, <1>10, <3>1 DEF Kept
  <2>2. y.n <= z.n BY <1>1, <2>1
  <2>3. z \in Undecrypted BY <2>1 DEF TypeOK
  <2>4. z.n # y.n BY <1>3, <1>10, <2>1, <2>3 DEF Undecrypted
  <2>5. QED BY <1>3, <2>2, <2>3, <2>4 DEF Undecrypted
<1>11. Waiting'
  <2>1. ASSUME NEW x \in In, OnWay(x)', IsRow(x) PROVE x.n <= Len(sent)
    BY <1>4, <1>6, <2>1 DEF Ordered, Waiting
  <2>2. ASSUME NEW z \in Kept(g)', NEW x \in In, OnWay(x)', x.kind = "text", x.from = z.from
        PROVE  x.n < z.n
    <3>1. CASE OnWay(x) BY <1>2, <1>9, <2>2, <3>1 DEF Ordered, Waiting
    <3>2. CASE x = msg BY <1>10, <2>2, <3>2
    <3>3. QED BY <1>6, <2>2, <3>1, <3>2
  <2>3. \A z \in Kept(g)' : z.n <= Len(sent) BY <1>2, <1>9 DEF Ordered, Waiting
  <2>4. \A x \in flushing'[g], z \in pending'[g] : x.from # z.from
    BY <1>2, <1>8 DEF Ordered, Waiting
  <2>5. QED BY <1>2, <1>7, <2>1, <2>2, <2>3, <2>4 DEF Waiting
<1>12. QED BY <1>6, <1>11 DEF Ordered

\* A waiter takes the oldest message: it waits on the current Client, and no
\* other message is on its way.
LEMMA TakeOrder ==
  ASSUME TypeOK, TokenInv, OneWaiter, Backlog, Rising, NEW g \in Gens, Take(g)
  PROVE  OneWaiter' /\ Backlog' /\ Rising' /\ \A x \in In : OnWay(x)' => OnWay(x)
<1> DEFINE msg == Head(updates[g])
<1>1. /\ waiters[g] > 0 /\ updates[g] # <<>>
      /\ waiters' = [waiters EXCEPT ![g] = waiters[g] - 1]
      /\ handed' = handed \cup {msg} /\ updates' = [updates EXCEPT ![g] = Tail(updates[g])]
      /\ cli' = cli /\ dialled' = dialled /\ reconnects' = reconnects /\ shown' = shown
  BY DEF Take, tui
<1>2. cli \in Gens /\ updates[g] \in Seq(In) /\ waiters[g] \in Nat BY DEF TypeOK
<1>3. g = cli
  <2>1. ~(g > cli) BY <1>1, <1>2 DEF TokenInv, ClientOK
  <2>2. g \in dialled => g > cli BY DEF TokenInv, OneAttempt
  <2>3. g = cli \/ g \in dialled BY <1>1 DEF Backlog
  <2>4. QED BY <2>1, <2>2, <2>3
<1>4. reconnects = 0 /\ dialled = {} /\ ~ClosedHanded
  BY <1>1, <1>3 DEF Backlog, TypeOK
<1>5. waiters[g] = 1 /\ handed = {} BY <1>1, <1>2, <1>3 DEF OneWaiter
<1>6. waiters'[cli] = 0 /\ handed' = {msg}
  <2>1. waiters'[g] = waiters[g] - 1 BY <1>1 DEF TypeOK
  <2>2. QED BY <1>1, <1>3, <1>5, <2>1
<1>7. updates'[g] = Tail(updates[g]) /\ \A h \in Gens : h # g => updates'[h] = updates[h]
  BY <1>1 DEF TypeOK
<1>8. \A h \in Gens : h # g => updates[h] = <<>> BY <1>3, <1>4 DEF Backlog
<1>9. /\ RisingSeq(updates[g]) /\ ClosedLast(updates[g])
      /\ \A j \in 1..Len(shown) : After(updates[g], shown[j])
  BY DEF Rising, Backlog
<1>10. /\ RisingSeq(Tail(updates[g])) /\ ClosedLast(Tail(updates[g]))
       /\ msg.kind = "closed" => Tail(updates[g]) = <<>>
       /\ After(Tail(updates[g]), msg)
       /\ \A j \in 1..Len(shown) : After(Tail(updates[g]), shown[j]) /\ Ahead(shown[j], msg)
  BY <1>1, <1>2, <1>9, TailRises
<1>11. \A x \in In : OnWay(x)' => OnWay(x)
  <2>1. 1 \in 1..Len(updates[g]) /\ updates[g][1] = msg BY <1>1, <1>2, Headless
  <2>2. \A i \in 1..Len(Tail(updates[g])) :
          i + 1 \in 1..Len(updates[g]) /\ Tail(updates[g])[i] = updates[g][i + 1]
    BY <1>1, <1>2, Headless
  <2> HIDE DEF msg
  <2>3. \A h \in Gens : \A i \in 1..Len(updates'[h]) :
          \E j \in 1..Len(updates[h]) : updates[h][j] = updates'[h][i]
    BY <1>7, <2>2
  <2>4. QED BY <1>1, <2>1, <2>3 DEF OnWay
<1> HIDE DEF msg
<1>12. OneWaiter'
  <2>1. cli' = cli BY <1>1
  <2>2. waiters'[cli'] = 0 /\ \E x \in handed' : handed' = {x} BY <1>6, <2>1
  <2>3. QED BY <2>2 DEF OneWaiter
<1>13. Backlog'
  <2>1. \A h \in Gens : ClosedLast(updates'[h]) BY <1>7, <1>10 DEF Backlog
  <2>2. ClosedHanded' => updates'[cli] = <<>> BY <1>3, <1>6, <1>7, <1>10 DEF ClosedHanded
  <2>3. QED BY <1>1, <1>3, <1>4, <1>7, <1>8, <2>1, <2>2 DEF Backlog
<1>14. Rising'
  <2>1. ASSUME NEW h \in Gens
        PROVE  /\ RisingSeq(updates'[h]) /\ After(updates'[h], msg)
               /\ \A j \in 1..Len(shown) : After(updates'[h], shown[j])
    <3>1. CASE h = g BY <1>7, <1>10, <3>1
    <3>2. CASE h # g
      <4>1. updates'[h] = updates[h] /\ \A i : i \notin 1..Len(updates'[h]) BY <1>7, <1>8, <3>2
      <4>2. QED BY <4>1 DEF RisingSeq, After
    <3>3. QED BY <3>1, <3>2
  <2>2. QED BY <1>1, <1>6, <1>10, <2>1 DEF Rising
<1>15. QED BY <1>11, <1>12, <1>13, <1>14

\* Update shows the message and waits again.
LEMMA IncomingOrder ==
  ASSUME TypeOK, TokenInv, OneWaiter, Backlog, Rising, NEW msg \in handed, Incoming(msg)
  PROVE  OneWaiter' /\ Backlog' /\ Rising' /\ \A x \in In : OnWay(x)' => OnWay(x)
<1>1. /\ handed' = handed \ {msg} /\ waiters' = [waiters EXCEPT ![cli] = waiters[cli] + 1]
      /\ shown' = IF IsRow(msg) THEN Append(shown, msg) ELSE shown
      /\ cli' = cli /\ dialled' = dialled /\ updates' = updates
  BY DEF Incoming, WaitAgain
<1>2. handed = {msg} /\ waiters[cli] = 0 /\ handed' = {} BY <1>1 DEF OneWaiter
<1>3. OneWaiter' BY <1>1, <1>2 DEF OneWaiter, TypeOK
<1>4. Backlog'
  <2>1. reconnects = 0 /\ dialled = {} BY <1>2 DEF Backlog, TypeOK
  <2>2. reconnects' > 0 => msg.kind = "closed" BY <2>1 DEF Incoming, Asked
  <2>3. msg.kind = "closed" => updates[cli] = <<>> BY DEF Backlog, ClosedHanded
  <2>4. ~ClosedHanded' BY <1>2 DEF ClosedHanded
  <2>5. QED BY <1>1, <1>2, <2>1, <2>2, <2>3, <2>4 DEF Backlog
<1>5. Rising' /\ \A x \in In : OnWay(x)' => OnWay(x)
  <2>1. CASE ~IsRow(msg)
    <3>1. shown' = shown BY <1>1, <2>1
    <3>2. QED BY <1>1, <1>2, <3>1 DEF Rising, OnWay
  <2>2. CASE IsRow(msg)
    <3> DEFINE n == Len(shown)
    <3>1. shown \in Seq(In) /\ msg \in In BY DEF TypeOK
    <3>2. shown' = Append(shown, msg) BY <1>1, <2>2
    <3>3. /\ n \in Nat /\ Len(shown') = n + 1 /\ shown'[n + 1] = msg
          /\ \A i \in 1..n : shown'[i] = shown[i]
      BY <3>1, <3>2, Appended
    <3>4. /\ RisingSeq(shown) /\ \A i \in 1..n : IsRow(shown[i]) /\ Ahead(shown[i], msg)
          /\ \A g \in Gens : /\ After(updates[g], msg) /\ RisingSeq(updates[g])
                             /\ \A i \in 1..n : After(updates[g], shown[i])
      BY DEF Rising
    <3>5. RisingSeq(shown') BY <3>1, <3>2, <3>4, AppendRises
    <3> HIDE DEF n
    <3>6. \A i \in 1..(n + 1) : i \in 1..n \/ i = n + 1 BY <3>3
    <3>7. \A i \in 1..(n + 1) : IsRow(shown'[i]) BY <2>2, <3>3, <3>4, <3>6
    <3>8. \A g \in Gens : \A i \in 1..(n + 1) : After(updates[g], shown'[i])
      BY <3>3, <3>4, <3>6
    <3>9. Rising' BY <1>1, <1>2, <3>3, <3>4, <3>5, <3>7, <3>8 DEF Rising
    <3>10. \A x \in In : OnWay(x)' => OnWay(x)
      <4>1. \A i \in 1..(n + 1) : shown'[i] = msg \/ \E j \in 1..n : shown[j] = shown'[i]
        BY <3>3, <3>6
      <4>2. QED BY <1>1, <3>3, <4>1 DEF OnWay, n
    <3>11. QED BY <3>9, <3>10
  <2>3. QED BY <2>1, <2>2
<1>6. QED BY <1>3, <1>4, <1>5

\* A new Client comes when the old one has nothing left.
LEMMA ReconnectOrder ==
  ASSUME TypeOK, TokenInv, OneWaiter, Backlog, Rising, Dial \/ \E g \in Gens : Reconnected(g)
  PROVE  OneWaiter' /\ Backlog' /\ Rising' /\ \A x \in In : OnWay(x)' => OnWay(x)
<1>1. CASE Dial
  <2>1. /\ cli' = cli /\ waiters' = waiters /\ handed' = handed /\ updates' = updates
        /\ shown' = shown /\ reconnects > 0 /\ dialled \subseteq dialled'
    BY <1>1 DEF Dial
  <2>2. handed = {} /\ updates[cli] = <<>> BY <2>1 DEF Backlog
  <2>3. OneWaiter' /\ Rising' /\ \A x \in In : OnWay(x)' => OnWay(x)
    BY <2>1 DEF OneWaiter, Rising, OnWay
  <2>4. ClosedHanded' <=> ClosedHanded BY <2>1 DEF ClosedHanded
  <2>5. Backlog' BY <2>1, <2>2, <2>4 DEF Backlog
  <2>6. QED BY <2>3, <2>5
<1>2. ASSUME NEW g \in Gens, Reconnected(g)
      PROVE  OneWaiter' /\ Backlog' /\ Rising' /\ \A x \in In : OnWay(x)' => OnWay(x)
  <2>1. /\ g \in dialled /\ dialled' = dialled \ {g} /\ cli' = g
        /\ waiters' = [waiters EXCEPT ![g] = waiters[g] + 1]
        /\ reconnects' = reconnects /\ handed' = handed /\ updates' = updates
        /\ shown' = shown
    BY <1>2 DEF Reconnected
  <2>2. reconnects = 0 /\ dialled = {g} /\ g > cli BY <2>1 DEF TokenInv, OneAttempt
  <2>3. handed = {} /\ updates[cli] = <<>> /\ waiters[g] = 0
    BY <2>2 DEF Backlog, TokenInv, ClientOK
  <2>4. OneWaiter' BY <2>1, <2>3 DEF OneWaiter, TypeOK
  <2>5. ~ClosedHanded' BY <2>1, <2>3 DEF ClosedHanded
  <2>6. \A h \in Gens : h # g => updates[h] = <<>> BY <2>2, <2>3 DEF Backlog
  <2>7. Backlog' BY <2>1, <2>2, <2>5, <2>6 DEF Backlog
  <2>8. Rising' /\ \A x \in In : OnWay(x)' => OnWay(x) BY <2>1 DEF Rising, OnWay
  <2>9. QED BY <2>4, <2>7, <2>8
<1>3. QED BY <1>1, <1>2

\* Frames of the hub, and the end of the connection.
LEMMA ArriveOrder ==
  ASSUME TypeOK, TypeOK', TokenInv, Ordered, NEW g \in Gens, reading[g],
         UNCHANGED <<tui, waiters, handed>>, Len(sent) <= Len(sent'), NEW msg \in In,
         msg.kind # "text", IsRow(msg) => Len(sent) < msg.n /\ msg.n <= Len(sent'),
         sendUpdate(g, msg) \/ UNCHANGED updates
  PROVE  /\ OneWaiter' /\ Backlog' /\ Rising'
         /\ \A x \in In : OnWay(x)' =>
              OnWay(x) \/ (x.kind # "text" /\ (IsRow(x) => x.n <= Len(sent')))
<1>1. Len(sent) \in Nat
  <2>1. sent \in Seq(Kinds) BY DEF TypeOK
  <2>2. QED BY <2>1
<1>2. \A x \in In : x.n \in Nat BY DEF In
<1>3. \A x \in In : OnWay(x) => Ahead(x, msg)
  BY <1>1, <1>2 DEF Ordered, Waiting, Ahead, Precedes
<1>4. CASE sendUpdate(g, msg) BY <1>3, <1>4, UpdateOrder DEF Ordered
<1>5. CASE UNCHANGED updates
  BY <1>5 DEF Ordered, OneWaiter, Backlog, Rising, ClosedHanded, OnWay, tui
<1>6. QED BY <1>4, <1>5

LEMMA HubOrder ==
  ASSUME TypeOK, TypeOK', TokenInv, Ordered, NEW g \in Gens,
         \/ \E kind \in Kinds : HubSends(g, kind)
         \/ \E p \in Peers : HubSendsUnreadable(g, p) \/ HubSendsKey(g, p)
  PROVE  Ordered'
<1> DEFINE m == Len(sent)
<1>1. PICK kind \in Kinds : Arrives(g, kind) /\ (kind # "key" => sendUpdate(g, Message(kind, m + 1)))
                           /\ (kind = "key" => UNCHANGED updates)
  <2>1. "chat" \in Kinds /\ "key" \in Kinds BY DEF Kinds
  <2>2. QED BY <2>1 DEF HubSends, HubSendsUnreadable, HubSendsKey
<1>2. /\ reading[g] /\ flushing[g] = {} /\ reading' = reading
      /\ UNCHANGED <<tui, waiters, handed>> /\ sent' = Append(sent, kind)
  BY <1>1 DEF Arrives, clients
<1>3. m \in Nat /\ Len(sent') = m + 1
  <2>1. sent \in Seq(Kinds) BY DEF TypeOK
  <2>2. QED BY <1>2, <2>1
<1> HIDE DEF m
<1>4. m <= m + 1 /\ m < m + 1 /\ m + 1 <= m + 1 /\ m + 1 \in Nat BY <1>3
<1>5. PICK msg \in In : msg = Message(kind, m + 1) BY <1>4, Messages
<1>6. msg.kind = kind /\ msg.n = m + 1 BY <1>4, <1>5, Messages
<1>7. msg.kind # "text" BY <1>6 DEF Kinds
<1>8. Len(sent) <= Len(sent') /\ Len(sent) < msg.n /\ msg.n <= Len(sent')
  BY <1>3, <1>4, <1>6 DEF m
<1>9. sendUpdate(g, msg) \/ UNCHANGED updates BY <1>1, <1>5
<1>10. /\ OneWaiter' /\ Backlog' /\ Rising'
       /\ \A x \in In : OnWay(x)' =>
            OnWay(x) \/ (x.kind # "text" /\ (IsRow(x) => x.n <= Len(sent')))
  BY <1>2, <1>7, <1>8, <1>9, ArriveOrder
<1>11. ASSUME NEW h \in Gens, reading'[h] PROVE h = g BY <1>2, <1>11, OneReads
<1>12. /\ \A y \in Kept(g)' : y \in Kept(g) \/ (Len(sent) < y.n /\ y.n <= Len(sent'))
       /\ \A y \in flushing'[g], z \in pending'[g] : y.from # z.from
  <2>1. ASSUME UNCHANGED undecrypted
        PROVE  /\ \A y \in Kept(g)' : y \in Kept(g) \/ (Len(sent) < y.n /\ y.n <= Len(sent'))
               /\ \A y \in flushing'[g], z \in pending'[g] : y.from # z.from
    BY <1>2, <2>1 DEF Kept, undecrypted
  <2>2. ASSUME NEW p \in Peers, HubSendsUnreadable(g, p)
        PROVE  /\ \A y \in Kept(g)' : y \in Kept(g) \/ (Len(sent) < y.n /\ y.n <= Len(sent'))
               /\ \A y \in flushing'[g], z \in pending'[g] : y.from # z.from
    <3> DEFINE chat == [n |-> m + 1, from |-> p]
    <3>1. pending'[g] = queuePending(pending[g], chat) /\ flushing'[g] = {}
      BY <1>2, <2>2 DEF HubSendsUnreadable, TypeOK, m
    <3>2. chat.n = m + 1 OBVIOUS
    <3> HIDE DEF chat
    <3>3. pending'[g] \subseteq pending[g] \cup {chat} BY <3>1, PendingQueued
    <3>4. QED BY <1>6, <1>8, <3>1, <3>2, <3>3 DEF Kept
  <2>3. ASSUME NEW p \in Peers, HubSendsKey(g, p)
        PROVE  /\ \A y \in Kept(g)' : y \in Kept(g) \/ (Len(sent) < y.n /\ y.n <= Len(sent'))
               /\ \A y \in flushing'[g], z \in pending'[g] : y.from # z.from
    <3>1. /\ flushing'[g] = {x \in pending[g] : x.from = p}
          /\ pending'[g] = {x \in pending[g] : x.from # p}
      BY <2>3 DEF HubSendsKey, TypeOK
    <3>2. QED BY <3>1 DEF Kept
  <2>4. QED BY <2>1, <2>2, <2>3 DEF HubSends
<1>13. Waiting'
  <2>1. \A h \in Gens : reading'[h] /\ Kept(h)' # {} =>
           /\ reading[h]
           /\ \A y \in Kept(h)' : y \in Kept(h) \/ (Len(sent) < y.n /\ y.n <= Len(sent'))
           /\ \A y \in flushing'[h], z \in pending'[h] : y.from # z.from
    BY <1>2, <1>11, <1>12
  <2>2. QED BY <1>8, <1>10, <2>1, WaitingStays DEF Ordered
<1>14. QED BY <1>10, <1>13 DEF Ordered

LEMMA OrderStep == ASSUME TypeOK, TypeOK', TokenInv, OrderInv, [Next]_vars PROVE OrderInv'
<1> SUFFICES ASSUME notices' = 0 PROVE Ordered'
  BY DEF OrderInv
<1>0. /\ notices \in Nat /\ notices' \in Nat
      /\ sent' = sent => Len(sent) <= Len(sent')
  <2>1. sent \in Seq(Kinds) BY DEF TypeOK
  <2>2. QED BY <2>1 DEF TypeOK
<1>1. ASSUME NEW g \in Gens, Notice(g) PROVE FALSE
  BY <1>0, <1>1 DEF Notice
<1>2. ASSUME notices' = notices PROVE Ordered
  BY <1>2 DEF OrderInv
<1>3. ASSUME NEW g \in Gens,
             \/ \E kind \in Kinds : HubSends(g, kind)
             \/ \E p \in Peers : HubSendsUnreadable(g, p) \/ HubSendsKey(g, p)
      PROVE  Ordered'
  <2>1. notices' = notices BY <1>3 DEF HubSends, HubSendsUnreadable, HubSendsKey, Arrives
  <2>2. QED BY <1>2, <1>3, <2>1, HubOrder
<1>4. ASSUME NEW g \in Gens, flushPending(g) PROVE Ordered'
  <2>1. notices' = notices BY <1>4 DEF flushPending, counts
  <2>2. QED BY <1>2, <1>4, <2>1, FlushOrder
<1>5. ASSUME Ordered, OneWaiter' /\ Backlog' /\ Rising', sent' = sent,
             \A x \in In : OnWay(x)' => OnWay(x) \/ (x.kind # "text" /\ ~IsRow(x)),
             \A g \in Gens : reading'[g] /\ Kept(g)' # {} =>
               reading[g] /\ pending'[g] = pending[g] /\ flushing'[g] = flushing[g]
      PROVE  Ordered'
  <2>1. \A g \in Gens : reading'[g] /\ Kept(g)' # {} =>
           /\ reading[g]
           /\ \A y \in Kept(g)' : y \in Kept(g) \/ (Len(sent) < y.n /\ y.n <= Len(sent'))
           /\ \A y \in flushing'[g], z \in pending'[g] : y.from # z.from
    BY <1>5 DEF Ordered, Waiting, Kept
  <2>2. Waiting' BY <1>0, <1>5, <2>1, WaitingStays DEF Ordered
  <2>3. QED BY <1>5, <2>2 DEF Ordered
<1>6. ASSUME NEW g \in Gens, ReadPumpEnds(g) PROVE Ordered'
  <2>1. PICK msg \in In : msg = Message("closed", 0) BY Messages
  <2>2. msg.kind = "closed" /\ msg.kind # "text" /\ ~IsRow(msg) BY <2>1, Messages DEF IsRow
  <2>3. /\ sendUpdate(g, msg) /\ reading[g] /\ UNCHANGED <<tui, waiters, handed>>
        /\ notices' = notices /\ sent' = sent /\ UNCHANGED undecrypted
        /\ reading' = [reading EXCEPT ![g] = FALSE]
    BY <1>6, <2>1 DEF ReadPumpEnds, counts
  <2>4. Ordered BY <1>2, <2>3
  <2>5. /\ OneWaiter' /\ Backlog' /\ Rising'
        /\ \A x \in In : OnWay(x)' => OnWay(x) \/ x = msg
    <3>1. \A x \in In : OnWay(x) => Ahead(x, msg) BY <2>2 DEF Ahead
    <3>2. QED BY <2>3, <2>4, <3>1, UpdateOrder DEF Ordered
  <2>6. \A h \in Gens : reading'[h] => reading[h] BY <2>3 DEF TypeOK
  <2>7. QED BY <1>5, <2>2, <2>3, <2>4, <2>5, <2>6 DEF undecrypted
<1>7. ASSUME NEW g \in Gens, Take(g) PROVE Ordered'
  <2>1. notices' = notices /\ sent' = sent /\ reading' = reading /\ UNCHANGED undecrypted
    BY <1>7 DEF Take, counts, clients
  <2>2. OneWaiter' /\ Backlog' /\ Rising' /\ \A x \in In : OnWay(x)' => OnWay(x)
    BY <1>2, <1>7, <2>1, TakeOrder DEF Ordered
  <2>3. QED BY <1>2, <1>5, <2>1, <2>2 DEF undecrypted
<1>8. ASSUME NEW msg \in handed, Incoming(msg) PROVE Ordered'
  <2>1. notices' = notices /\ sent' = sent /\ reading' = reading /\ UNCHANGED undecrypted
    BY <1>8 DEF Incoming, counts, clients
  <2>2. OneWaiter' /\ Backlog' /\ Rising' /\ \A x \in In : OnWay(x)' => OnWay(x)
    BY <1>2, <1>8, <2>1, IncomingOrder DEF Ordered
  <2>3. QED BY <1>2, <1>5, <2>1, <2>2 DEF undecrypted
<1>9. CASE Dial \/ \E g \in Gens : Reconnected(g)
  <2>1. notices' = notices /\ sent' = sent BY <1>9 DEF Dial, Reconnected, counts
  <2>2. OneWaiter' /\ Backlog' /\ Rising' /\ \A x \in In : OnWay(x)' => OnWay(x)
    BY <1>2, <1>9, <2>1, ReconnectOrder DEF Ordered
  <2>3. ASSUME NEW h \in Gens, reading'[h], Kept(h)' # {}
        PROVE  reading[h] /\ pending'[h] = pending[h] /\ flushing'[h] = flushing[h]
    <3>1. CASE Dial
      <4>1. PICK g \in Gens : /\ reading' = [reading EXCEPT ![g] = TRUE]
                              /\ pending' = [pending EXCEPT ![g] = {}]
                              /\ flushing' = [flushing EXCEPT ![g] = {}]
        BY <3>1 DEF Dial, Unused
      <4>2. h # g BY <2>3, <4>1 DEF Kept, TypeOK
      <4>3. QED BY <2>3, <4>1, <4>2 DEF TypeOK
    <3>2. ASSUME NEW g \in Gens, Reconnected(g)
          PROVE  reading[h] /\ pending'[h] = pending[h] /\ flushing'[h] = flushing[h]
      BY <2>3, <3>2 DEF Reconnected, clients, undecrypted
    <3>3. QED BY <1>9, <3>1, <3>2
  <2>4. QED BY <1>2, <1>5, <2>1, <2>2, <2>3
<1>10. ASSUME UNCHANGED <<cli, reconnects, dialled, shown, inbound, reading, sent, notices>>
       PROVE  Ordered'
  <2>1. Ordered BY <1>2, <1>10
  <2>2. OneWaiter' /\ Backlog' /\ Rising'
    BY <1>10, <2>1 DEF Ordered, OneWaiter, Backlog, Rising, ClosedHanded, inbound
  <2>3. \A x \in In : OnWay(x)' => OnWay(x) BY <1>10 DEF OnWay, inbound
  <2>4. QED BY <1>5, <1>10, <2>1, <2>2, <2>3 DEF inbound
<1>11. ASSUME NEW g \in Gens,
              HubCloses(g) \/ WritePump(g) \/ FileFrame(g) \/ Drain(g) \/ FlushOne(g)
       PROVE  Ordered'
  BY <1>10, <1>11 DEF HubCloses, WritePump, FileFrame, Drain, FlushOne, counts, tui, clients
<1>12. CASE Type \/ \E r \in Rooms : SwitchRoom(r)
  BY <1>10, <1>12 DEF Type, SwitchRoom, tui, clients
<1>13. CASE UNCHANGED vars BY <1>10, <1>13 DEF vars, counts, tui, clients
<1>14. QED
  BY <1>1, <1>3, <1>4, <1>6, <1>7, <1>8, <1>9, <1>11, <1>12, <1>13 DEF Next, Pump

\* Rows appear in the order the hub sent the chats across any number of reconnects,
\* any number of senders and texts that wait for a key: a late text comes after its
\* chat's own row, once, and in order with the others of its sender, as long as no
\* background transfer of an old Client reports.
THEOREM ChatsShownInOrder == Spec => []ShownInOrder
<1>1. Spec => []OrderInv
  BY OrderInit, OrderStep, SessionTyped, TokenInvariant, PTL DEF Spec
<1>2. OrderInv => ShownInOrder
  BY DEF OrderInv, Ordered, Rising, RisingSeq, Ahead, ShownInOrder
<1>3. QED BY <1>1, <1>2, PTL

-----------------------------------------------------------------------------
(* Frames on their way out. *)

Places == {<<"disk", 0>>, <<"wire", 0>>} \cup ({"sendq", "draining"} \X Gens)
OnWire == [i \in 1..Len(wire) |-> wire[i].frame]
Content == [p \in Places |-> IF p[1] = "sendq" THEN sendq[p[2]]
                             ELSE IF p[1] = "draining" THEN draining[p[2]]
                             ELSE IF p[1] = "disk" THEN disk
                             ELSE OnWire]

Carries(P, C, f) == \E p \in P : \E i \in 1..Len(C[p]) : C[p][i] = f

\* No frame is in two places, or twice in one.
Once(P, C) == \A p, q \in P : \A i \in 1..Len(C[p]), j \in 1..Len(C[q]) :
                C[p][i] = C[q][j] => p = q /\ i = j

\* The number of a frame was given out.
Known(f) == /\ f.kind = "chat" => f.n <= typed
            /\ f.kind = "file" => f.n <= files
            /\ f.kind = "join" => f.n <= switches

OnceInv == /\ Once(Places, Content)
           /\ \A f \in Out : Carries(Places, Content, f) => Known(f)

\* A frame is put behind the others in a place; a place is left with t.
Put(C, p, x) == [C EXCEPT ![p] = Append(C[p], x)]
Left(C, p, t) == [C EXCEPT ![p] = t]

\* A place loses its first k frames: the first is then nowhere.
LEMMA Shortened ==
  ASSUME NEW P, NEW S, NEW C \in [P -> Seq(S)], NEW D \in [P -> Seq(S)], Once(P, C),
         NEW p \in P, NEW k \in Nat \ {0}, Len(D[p]) + k <= Len(C[p]),
         \A i \in 1..Len(D[p]) : D[p][i] = C[p][i + k],
         \A q \in P \ {p} : D[q] = C[q]
  PROVE  /\ Once(P, D) /\ ~Carries(P, D, C[p][1])
         /\ \A f : Carries(P, D, f) => Carries(P, C, f)
<1>1. ASSUME NEW q \in P, NEW i \in 1..Len(D[q]), q = p
      PROVE  i + k \in 1..Len(C[q]) /\ D[q][i] = C[q][i + k]
  <2>1. Len(D[p]) \in Nat /\ Len(C[p]) \in Nat OBVIOUS
  <2>2. QED BY <1>1, <2>1
<1>2. ASSUME NEW q \in P, NEW i \in 1..Len(D[q]), q # p
      PROVE  i \in 1..Len(C[q]) /\ D[q][i] = C[q][i]
  BY <1>2
<1>3. ASSUME NEW q \in P, NEW r \in P, NEW i \in 1..Len(D[q]), NEW j \in 1..Len(D[r]),
             D[q][i] = D[r][j]
      PROVE  q = r /\ i = j
  <2>1. CASE q = p /\ r = p
    <3>1. i + k = j + k BY <1>1, <1>3, <2>1 DEF Once
    <3>2. QED BY <2>1, <3>1
  <2>2. CASE q = p /\ r # p BY <1>1, <1>2, <1>3, <2>2 DEF Once
  <2>3. CASE q # p /\ r = p BY <1>1, <1>2, <1>3, <2>3 DEF Once
  <2>4. CASE q # p /\ r # p BY <1>2, <1>3, <2>4 DEF Once
  <2>5. QED BY <2>1, <2>2, <2>3, <2>4
<1>4. 1 \in 1..Len(C[p])
  <2>1. Len(D[p]) \in Nat /\ Len(C[p]) \in Nat OBVIOUS
  <2>2. QED BY <2>1
<1>5. ASSUME NEW q \in P, NEW i \in 1..Len(D[q]), D[q][i] = C[p][1] PROVE FALSE
  <2>1. CASE q = p
    <3>1. i + k = 1 BY <1>1, <1>4, <1>5, <2>1 DEF Once
    <3>2. QED BY <3>1
  <2>2. CASE q # p BY <1>2, <1>4, <1>5, <2>2 DEF Once
  <2>3. QED BY <2>1, <2>2
<1>6. ASSUME NEW f, Carries(P, D, f) PROVE Carries(P, C, f)
  <2>1. PICK q \in P : \E i \in 1..Len(D[q]) : D[q][i] = f BY <1>6 DEF Carries
  <2>2. PICK i \in 1..Len(D[q]) : D[q][i] = f BY <2>1
  <2>3. CASE q = p BY <1>1, <2>2, <2>3 DEF Carries
  <2>4. CASE q # p BY <1>2, <2>2, <2>4 DEF Carries
  <2>5. QED BY <2>3, <2>4
<1>7. Once(P, D) BY <1>3 DEF Once
<1>8. ~Carries(P, D, C[p][1]) BY <1>5 DEF Carries
<1>9. QED BY <1>6, <1>7, <1>8

\* A place gets a frame that was nowhere.
LEMMA PutOnce ==
  ASSUME NEW P, NEW S, NEW C \in [P -> Seq(S)], Once(P, C),
         NEW p \in P, NEW x \in S, ~Carries(P, C, x)
  PROVE  /\ Once(P, Put(C, p, x))
         /\ \A f : Carries(P, Put(C, p, x), f) => f = x \/ Carries(P, C, f)
<1> DEFINE D == Put(C, p, x)  n == Len(C[p])
<1>1. /\ Append(C[p], x) \in Seq(S) /\ n \in Nat /\ Len(Append(C[p], x)) = n + 1
      /\ Append(C[p], x)[n + 1] = x /\ \A i \in 1..n : Append(C[p], x)[i] = C[p][i]
  BY Appended
<1>2. D[p] = Append(C[p], x) /\ \A q \in P : q # p => D[q] = C[q]
  BY <1>1 DEF Put
<1> HIDE DEF D
<1>3. ASSUME NEW q \in P, NEW i \in 1..Len(D[q])
      PROVE  \/ i \in 1..Len(C[q]) /\ D[q][i] = C[q][i]
             \/ q = p /\ i = n + 1 /\ D[q][i] = x
  <2>1. CASE q # p BY <1>2, <2>1
  <2>2. CASE q = p
    <3>1. i \in 1..(n + 1) BY <1>1, <1>2, <2>2
    <3> HIDE DEF n
    <3>2. i \in 1..n \/ i = n + 1 BY <1>1, <3>1
    <3>3. QED BY <1>1, <1>2, <2>2, <3>2 DEF n
  <2>3. QED BY <2>1, <2>2
<1>4. \A q \in P : \A i \in 1..Len(C[q]) : C[q][i] # x BY DEF Carries
<1>5. Once(P, D)
  <2> SUFFICES ASSUME NEW q \in P, NEW r \in P, NEW i \in 1..Len(D[q]), NEW j \in 1..Len(D[r]),
                      D[q][i] = D[r][j]
               PROVE  q = r /\ i = j
    BY DEF Once
  <2>1. CASE D[q][i] = x
    <3>1. q = p /\ i = n + 1 BY <1>3, <1>4, <2>1
    <3>2. r = p /\ j = n + 1 BY <1>3, <1>4, <2>1
    <3>3. QED BY <3>1, <3>2
  <2>2. CASE D[q][i] # x
    <3>1. i \in 1..Len(C[q]) /\ D[q][i] = C[q][i] BY <1>3, <2>2
    <3>2. j \in 1..Len(C[r]) /\ D[r][j] = C[r][j] BY <1>3, <2>2
    <3>3. C[q][i] = C[r][j] BY <3>1, <3>2
    <3> HIDE DEF n
    <3>4. QED BY <3>1, <3>2, <3>3 DEF Once
  <2>3. QED BY <2>1, <2>2
<1>6. \A f : Carries(P, D, f) => f = x \/ Carries(P, C, f) BY <1>3 DEF Carries
<1>7. QED BY <1>5, <1>6 DEF D

\* Everything in one place moves to another, over what was there.
LEMMA Moved ==
  ASSUME NEW P, NEW S, NEW C \in [P -> Seq(S)], NEW D \in [P -> Seq(S)], Once(P, C),
         NEW p \in P, NEW q \in P, p # q, D[p] = <<>>, D[q] = C[p],
         \A r \in P \ {p, q} : D[r] = C[r]
  PROVE  Once(P, D) /\ \A f : Carries(P, D, f) => Carries(P, C, f)
<1>1. \A i : i \notin 1..Len(D[p]) OBVIOUS
<1>2. ASSUME NEW r \in P, NEW i \in 1..Len(D[r])
      PROVE  \/ r = q /\ i \in 1..Len(C[p]) /\ D[r][i] = C[p][i]
             \/ r # q /\ r # p /\ i \in 1..Len(C[r]) /\ D[r][i] = C[r][i]
  BY <1>1
<1>3. Once(P, D) BY <1>2, SMTT(60) DEF Once
<1>4. \A f : Carries(P, D, f) => Carries(P, C, f) BY <1>2 DEF Carries
<1>5. QED BY <1>3, <1>4

LEMMA ContentTyped ==
  ASSUME TypeOK
  PROVE  /\ OnWire \in Seq(Out) /\ Content \in [Places -> Seq(Out)]
         /\ <<"disk", 0>> \in Places /\ Content[<<"disk", 0>>] = disk
         /\ <<"wire", 0>> \in Places /\ Content[<<"wire", 0>>] = OnWire
         /\ \A g \in Gens : /\ <<"sendq", g>> \in Places /\ Content[<<"sendq", g>>] = sendq[g]
                            /\ <<"draining", g>> \in Places /\ Content[<<"draining", g>>] = draining[g]
<1>1. OnWire \in Seq(Out)
  <2> DEFINE T == [frame : Out, room : Rooms]
  <2>1. wire \in Seq(T) BY DEF TypeOK
  <2> HIDE DEF T
  <2>2. Len(wire) \in Nat /\ \A i \in 1..Len(wire) : wire[i] \in T BY <2>1
  <2>3. \A i \in 1..Len(wire) : wire[i].frame \in Out BY <2>2 DEF T
  <2>4. QED BY <2>2, <2>3 DEF OnWire
<1>2. ASSUME NEW p \in Places PROVE Content[p] \in Seq(Out)
  BY <1>1 DEF Content, Places, TypeOK
<1>3. QED BY <1>1, <1>2 DEF Content, Places

LEMMA ContentTypes == TypeOK => OnWire \in Seq(Out) /\ Content \in [Places -> Seq(Out)]
BY ContentTyped

LEMMA ContentTypedNext == TypeOK' => (OnWire \in Seq(Out) /\ Content \in [Places -> Seq(Out)])'
BY ContentTypes, PTL

LEMMA ContentIs ==
  ASSUME TypeOK', NEW D \in [Places -> Seq(Out)],
         D[<<"disk", 0>>] = disk', D[<<"wire", 0>>] = OnWire',
         \A g \in Gens : D[<<"sendq", g>>] = sendq'[g] /\ D[<<"draining", g>>] = draining'[g]
  PROVE  Content' = D
<1>1. ASSUME NEW p \in Places PROVE Content'[p] = D[p]
  <2>1. CASE p = <<"disk", 0>> BY <2>1 DEF Content
  <2>2. CASE p = <<"wire", 0>> BY <2>2 DEF Content
  <2>3. ASSUME NEW g \in Gens, p = <<"sendq", g>> PROVE Content'[p] = D[p]
    BY <2>3 DEF Content
  <2>4. ASSUME NEW g \in Gens, p = <<"draining", g>> PROVE Content'[p] = D[p]
    BY <2>4 DEF Content
  <2>5. QED BY <2>1, <2>2, <2>3, <2>4 DEF Places
<1>2. Content' = [p \in Places |-> Content'[p]] BY DEF Content
<1>3. QED BY <1>1, <1>2

\* A frame leaves its place at the head, alone or with all behind it.
LEMMA Leaves ==
  ASSUME TypeOK, OnceInv, NEW p \in Places, Content[p] # <<>>,
         NEW t, t = Tail(Content[p]) \/ t = <<>>
  PROVE  LET D == Left(Content, p, t)  x == Head(Content[p])
         IN  /\ D \in [Places -> Seq(Out)] /\ Once(Places, D)
             /\ x \in Out /\ ~Carries(Places, D, x) /\ Carries(Places, Content, x)
             /\ \A f : Carries(Places, D, f) => Carries(Places, Content, f)
<1> DEFINE C == Content  D == Left(Content, p, t)
<1>1. C \in [Places -> Seq(Out)] BY ContentTyped
<1>2. /\ Head(C[p]) = C[p][1] /\ Head(C[p]) \in Out /\ Tail(C[p]) \in Seq(Out)
      /\ Len(C[p]) \in Nat \ {0} /\ Len(Tail(C[p])) = Len(C[p]) - 1
      /\ \A i \in 1..(Len(C[p]) - 1) : Tail(C[p])[i] = C[p][i + 1]
  BY <1>1, Headless
<1>3. /\ D \in [Places -> Seq(Out)] /\ D[p] = t /\ \A q \in Places \ {p} : D[q] = C[q]
  <2>1. <<>> \in Seq(Out) OBVIOUS
  <2>2. t \in Seq(Out) BY <1>2, <2>1
  <2>3. D = [C EXCEPT ![p] = t] BY DEF Left
  <2> HIDE DEF C, D
  <2>4. QED BY <1>1, <2>2, <2>3
<1> DEFINE n == Len(C[p])
<1>4. Once(Places, C) BY DEF OnceInv
<1> HIDE DEF C, D
<1>5. PICK k \in Nat \ {0} : Len(D[p]) + k <= Len(C[p]) /\ \A i \in 1..Len(D[p]) : D[p][i] = C[p][i + k]
  <2>1. CASE t = <<>>
    <3>1. Len(D[p]) = 0 BY <1>3, <2>1
    <3>2. Len(D[p]) + n <= Len(C[p]) /\ \A i : i \notin 1..Len(D[p]) BY <1>2, <3>1
    <3>3. QED BY <1>2, <3>2
  <2>2. CASE t = Tail(C[p])
    <3>1. Len(D[p]) = n - 1 /\ \A i \in 1..(n - 1) : D[p][i] = C[p][i + 1]
      BY <1>2, <1>3, <2>2
    <3>2. n \in Nat \ {0} BY <1>2
    <3> HIDE DEF n
    <3>3. (n - 1) + 1 <= n BY <3>2
    <3>4. Len(D[p]) + 1 <= Len(C[p]) BY <3>1, <3>3 DEF n
    <3>5. QED BY <3>1, <3>4
  <2>3. QED BY <2>1, <2>2 DEF C
<1>6. /\ Once(Places, D) /\ ~Carries(Places, D, C[p][1])
      /\ \A f : Carries(Places, D, f) => Carries(Places, C, f)
  BY <1>1, <1>3, <1>4, <1>5, Shortened
<1>7. Carries(Places, C, C[p][1])
  <2>1. 1 \in 1..Len(C[p]) BY <1>2
  <2>2. QED BY <2>1 DEF Carries
<1>8. QED BY <1>2, <1>3, <1>6, <1>7 DEF C, D

\* What is carried on was carried before, or is new with a new number.
LEMMA StaysKnown ==
  ASSUME TypeOK, OnceInv, NEW x \in Out, Known(x)', Once(Places, Content)',
         typed' >= typed, files' >= files, switches' >= switches, TypeOK',
         \A f : Carries(Places, Content', f) => f = x \/ Carries(Places, Content, f)
  PROVE  OnceInv'
<1>1. ASSUME NEW f \in Out, Carries(Places, Content', f) PROVE Known(f)'
  <2>1. CASE f = x BY <2>1
  <2>2. CASE f # x
    <3>1. Known(f) BY <1>1, <2>2 DEF OnceInv
    <3>2. f.n \in Nat BY DEF Out
    <3>3. /\ typed \in Nat /\ files \in Nat /\ switches \in Nat
          /\ typed' \in Nat /\ files' \in Nat /\ switches' \in Nat
      BY DEF TypeOK
    <3>4. QED BY <3>1, <3>2, <3>3 DEF Known
  <2>3. QED BY <2>1, <2>2
<1>2. QED BY <1>1 DEF OnceInv

\* The head of one place goes to the end of another, and the rest of the first
\* place stays or is forgotten.
LEMMA Passed ==
  ASSUME TypeOK, TypeOK', OnceInv, NEW p \in Places, NEW q \in Places,
         Content[p] # <<>>, NEW t, t = Tail(Content[p]) \/ t = <<>>,
         Content' = Put(Left(Content, p, t), q, Head(Content[p])),
         UNCHANGED <<typed, files, switches>>
  PROVE  OnceInv'
<1> DEFINE D == Left(Content, p, t)
<1>1. PICK x \in Out : /\ x = Head(Content[p])
                       /\ D \in [Places -> Seq(Out)] /\ Once(Places, D)
                       /\ ~Carries(Places, D, x) /\ Carries(Places, Content, x)
                       /\ \A f : Carries(Places, D, f) => Carries(Places, Content, f)
  BY Leaves
<1>2. Content' = Put(D, q, x) BY <1>1
<1> HIDE DEF D
<1>3. /\ Once(Places, Content')
      /\ \A f : Carries(Places, Content', f) => f = x \/ Carries(Places, D, f)
  BY <1>1, <1>2, PutOnce
<1>4. Known(x) BY <1>1 DEF OnceInv
<1>5. Known(x)' BY <1>4 DEF Known
<1>6. \A f : Carries(Places, Content', f) => f = x \/ Carries(Places, Content, f)
  BY <1>1, <1>3
<1>7. typed \in Nat /\ files \in Nat /\ switches \in Nat BY DEF TypeOK
<1>8. typed' >= typed /\ files' >= files /\ switches' >= switches BY <1>7
<1>9. QED BY <1>3, <1>5, <1>6, <1>8, StaysKnown DEF OnceInv

\* A new frame is put in a place.
LEMMA Entered ==
  ASSUME TypeOK, TypeOK', OnceInv, NEW p \in Places, NEW x \in Out, ~Known(x), Known(x)',
         Content' = Put(Content, p, x),
         typed' >= typed, files' >= files, switches' >= switches
  PROVE  OnceInv'
<1>1. ~Carries(Places, Content, x) BY DEF OnceInv
<1>2. Content \in [Places -> Seq(Out)] /\ Once(Places, Content) BY ContentTyped DEF OnceInv
<1>3. /\ Once(Places, Content')
      /\ \A f : Carries(Places, Content', f) => f = x \/ Carries(Places, Content, f)
  BY <1>1, <1>2, PutOnce
<1>4. QED BY <1>3, StaysKnown DEF OnceInv

LEMMA OnceInit == ASSUME Init PROVE OnceInv
<1>1. ASSUME NEW p \in Places PROVE Content[p] = <<>>
  <2>1. OnWire = <<>> BY DEF Init, OnWire
  <2>2. QED BY <2>1 DEF Init, Content, Places
<1>2. \A p \in Places : \A i : i \notin 1..Len(Content[p]) BY <1>1
<1>3. QED BY <1>2 DEF OnceInv, Once, Carries

\* The frame the write pump takes is written to the wire, or lost.
LEMMA WritePumpOnce ==
  ASSUME TypeOK, TypeOK', OnceInv, NEW g \in Gens, WritePump(g)
  PROVE  OnceInv'
<1> DEFINE p == <<"sendq", g>>  w == <<"wire", 0>>  x == Head(sendq[g])
<1>1. p \in Places /\ w \in Places /\ p # w /\ Content[p] = sendq[g] /\ Content[w] = OnWire
  BY ContentTyped
<1>2. /\ sendq[g] # <<>> /\ sendq' = [sendq EXCEPT ![g] = Tail(sendq[g])]
      /\ disk' = disk /\ draining' = draining /\ UNCHANGED <<typed, files, switches>>
  BY DEF WritePump, counts
<1>3. \A h \in Gens : sendq'[h] = IF h = g THEN Tail(sendq[g]) ELSE sendq[h]
  BY <1>2 DEF TypeOK
<1>4. CASE open[g]
  <2> DEFINE D == Put(Left(Content, p, Tail(Content[p])), w, x)
             y == [frame |-> x, room |-> Stamp(g)]
  <2>1. OnWire' = Append(OnWire, x)
    <3>1. wire' = Append(wire, y) BY <1>4 DEF WritePump
    <3> DEFINE T == [frame : Out, room : Rooms]  n == Len(wire)
    <3>2. wire \in Seq(T) /\ x \in Out /\ y \in T
      <4>1. x \in Out BY <1>2, Headless DEF TypeOK
      <4>2. QED BY <4>1 DEF TypeOK, Stamp
    <3>3. y.frame = x OBVIOUS
    <3> HIDE DEF T, x, y
    <3>4. /\ n \in Nat /\ Len(wire') = n + 1 /\ wire'[n + 1] = y
          /\ \A i \in 1..n : wire'[i] = wire[i]
      BY <3>1, <3>2, Appended
    <3>5. OnWire \in Seq(Out) /\ Len(OnWire) = n /\ \A i \in 1..n : OnWire[i] = wire[i].frame
      <4>1. OnWire \in Seq(Out) /\ n \in Nat BY <3>4, ContentTyped
      <4>2. QED BY <4>1 DEF OnWire
    <3>6. /\ Append(OnWire, x) \in Seq(Out) /\ Len(Append(OnWire, x)) = n + 1
          /\ Append(OnWire, x)[n + 1] = x
          /\ \A i \in 1..n : Append(OnWire, x)[i] = wire[i].frame
      BY <3>2, <3>5, Appended
    <3> HIDE DEF n
    <3>7. OnWire' = [i \in 1..(n + 1) |-> wire'[i].frame] BY <3>4 DEF OnWire
    <3>8. ASSUME NEW i \in 1..(n + 1) PROVE wire'[i].frame = Append(OnWire, x)[i]
      <4>1. i \in 1..n \/ i = n + 1 BY <3>4
      <4>2. QED BY <3>3, <3>4, <3>6, <4>1
    <3>9. OnWire' \in Seq(Out) /\ Len(OnWire') = n + 1
      <4>1. OnWire' \in Seq(Out) BY ContentTypedNext
      <4>2. QED BY <3>4, <3>7, <4>1
    <3>10. \A i \in 1..(n + 1) : OnWire'[i] = Append(OnWire, x)[i] BY <3>7, <3>8
    <3>11. QED BY <3>6, <3>9, <3>10, SeqEqual
  <2>2. D \in [Places -> Seq(Out)]
    <3>1. Content \in [Places -> Seq(Out)] /\ OnWire \in Seq(Out) BY ContentTyped
    <3>2. Tail(Content[p]) \in Seq(Out) /\ x \in Out
      BY <1>1, <1>2, Headless DEF TypeOK
    <3>3. Append(Content[w], x) \in Seq(Out) BY <1>1, <3>1, <3>2, Appended
    <3>4. D = [Content EXCEPT ![p] = Tail(Content[p]), ![w] = Append(Content[w], x)]
      BY <1>1, <3>1 DEF Put, Left
    <3> HIDE DEF p, w, x, D
    <3>5. QED BY <3>1, <3>2, <3>3, <3>4
  <2>3. Content' = D
    <3>1. D[<<"disk", 0>>] = disk' /\ D[<<"wire", 0>>] = OnWire'
      BY <1>1, <1>2, <2>1, ContentTyped DEF Put, Left
    <3>2. \A h \in Gens : D[<<"sendq", h>>] = sendq'[h] /\ D[<<"draining", h>>] = draining'[h]
      BY <1>1, <1>2, <1>3, ContentTyped DEF Put, Left
    <3> HIDE DEF D
    <3>3. QED BY <2>2, <3>1, <3>2, ContentIs
  <2>4. QED BY <1>1, <1>2, <2>3, Passed
<1>5. CASE ~open[g]
  <2> DEFINE D == Left(Content, p, Tail(Content[p]))
  <2>1. OnWire' = OnWire BY <1>5 DEF WritePump, OnWire
  <2>2. /\ D \in [Places -> Seq(Out)] /\ Once(Places, D)
        /\ \A f : Carries(Places, D, f) => Carries(Places, Content, f)
    BY <1>1, <1>2, Leaves
  <2>3. Content' = D
    <3>1. D[<<"disk", 0>>] = disk' /\ D[<<"wire", 0>>] = OnWire'
      BY <1>1, <1>2, <2>1, ContentTyped DEF Put, Left
    <3>2. \A h \in Gens : D[<<"sendq", h>>] = sendq'[h] /\ D[<<"draining", h>>] = draining'[h]
      BY <1>1, <1>2, <1>3, ContentTyped DEF Put, Left
    <3> HIDE DEF D
    <3>3. QED BY <2>2, <3>1, <3>2, ContentIs
  <2>4. \A f \in Out : Known(f)' <=> Known(f) BY <1>2 DEF Known
  <2>5. QED BY <2>2, <2>3, <2>4 DEF OnceInv
<1>6. QED BY <1>4, <1>5

\* A new frame goes to SendChan, or to the disk.
LEMMA NewFrame ==
  ASSUME TypeOK, TypeOK', OnceInv, NEW g \in Gens, NEW x \in Out, ~Known(x), Known(x)',
         \/ sendq' = [sendq EXCEPT ![g] = Append(sendq[g], x)] /\ disk' = disk
         \/ sendq' = sendq /\ disk' = Append(disk, x),
         draining' = draining, wire' = wire,
         typed' >= typed, files' >= files, switches' >= switches
  PROVE  OnceInv'
<1> DEFINE p == <<"sendq", g>>  d == <<"disk", 0>>
<1>1. /\ p \in Places /\ d \in Places /\ Content[p] = sendq[g] /\ Content[d] = disk
      /\ Content \in [Places -> Seq(Out)]
  BY ContentTyped
<1>2. OnWire' = OnWire BY DEF OnWire
<1>3. Append(sendq[g], x) \in Seq(Out) /\ Append(disk, x) \in Seq(Out) BY Appended DEF TypeOK
<1>4. CASE sendq' = [sendq EXCEPT ![g] = Append(sendq[g], x)] /\ disk' = disk
  <2> DEFINE D == Put(Content, p, x)
  <2>1. D \in [Places -> Seq(Out)] BY <1>1, <1>3 DEF Put
  <2>2. D[<<"disk", 0>>] = disk' /\ D[<<"wire", 0>>] = OnWire'
    BY <1>1, <1>2, <1>4, ContentTyped DEF Put
  <2>3. \A h \in Gens : sendq'[h] = IF h = g THEN Append(sendq[g], x) ELSE sendq[h]
    BY <1>4 DEF TypeOK
  <2>4. \A h \in Gens : D[<<"sendq", h>>] = sendq'[h] /\ D[<<"draining", h>>] = draining'[h]
    BY <1>1, <2>3, ContentTyped DEF Put
  <2> HIDE DEF D
  <2>5. Content' = D BY <2>1, <2>2, <2>4, ContentIs
  <2>6. QED BY <1>1, <2>5, Entered DEF D
<1>5. CASE sendq' = sendq /\ disk' = Append(disk, x)
  <2> DEFINE D == Put(Content, d, x)
  <2>1. D \in [Places -> Seq(Out)] BY <1>1, <1>3 DEF Put
  <2>2. D[<<"disk", 0>>] = disk' /\ D[<<"wire", 0>>] = OnWire'
    BY <1>1, <1>2, <1>5, ContentTyped DEF Put
  <2>3. \A h \in Gens : D[<<"sendq", h>>] = sendq'[h] /\ D[<<"draining", h>>] = draining'[h]
    BY <1>1, <1>5, ContentTyped DEF Put
  <2> HIDE DEF D
  <2>4. Content' = D BY <2>1, <2>2, <2>3, ContentIs
  <2>5. QED BY <1>1, <2>4, Entered DEF D
<1>6. QED BY <1>4, <1>5

LEMMA DrainOnce ==
  ASSUME TypeOK, TypeOK', OnceInv, NEW g \in Gens, Drain(g)
  PROVE  OnceInv'
<1> DEFINE p == <<"disk", 0>>  q == <<"draining", g>>
<1>1. /\ p \in Places /\ q \in Places /\ p # q /\ Content[p] = disk
      /\ Content \in [Places -> Seq(Out)] /\ Once(Places, Content)
  BY ContentTyped DEF OnceInv
<1>2. /\ draining' = [draining EXCEPT ![g] = disk] /\ disk' = <<>>
      /\ sendq' = sendq /\ wire' = wire /\ UNCHANGED <<typed, files, switches>>
  BY DEF Drain, Removed, counts
<1>3. \A h \in Gens : draining'[h] = IF h = g THEN disk ELSE draining[h] BY <1>2 DEF TypeOK
<1>4. Content' \in [Places -> Seq(Out)] BY ContentTypedNext
<1> DEFINE D == Content'
<1>5. D[p] = <<>> BY <1>1, <1>2 DEF Content
<1>6. D[q] = Content[p] BY <1>1, <1>3 DEF Content
<1>7. \A r \in Places \ {p, q} : D[r] = Content[r]
  BY <1>2, <1>3 DEF Content, Places, OnWire
<1> HIDE DEF D, p, q
<1>8. Once(Places, D) /\ \A f : Carries(Places, D, f) => Carries(Places, Content, f)
  BY <1>1, <1>4, <1>5, <1>6, <1>7, Moved DEF D
<1>9. \A f \in Out : Known(f)' <=> Known(f) BY <1>2 DEF Known
<1>10. QED BY <1>8, <1>9 DEF OnceInv, D

\* flushQueue passes a frame to SendChan, or back to the disk and forgets the rest.
LEMMA FlushOnce ==
  ASSUME TypeOK, TypeOK', OnceInv, NEW g \in Gens, FlushOne(g)
  PROVE  OnceInv'
<1> DEFINE p == <<"draining", g>>  s == <<"sendq", g>>  d == <<"disk", 0>>
           x == Head(draining[g])
<1>1. /\ p \in Places /\ s \in Places /\ d \in Places /\ p # s /\ p # d
      /\ Content[p] = draining[g] /\ Content[s] = sendq[g] /\ Content[d] = disk
      /\ Content \in [Places -> Seq(Out)]
  BY ContentTyped
<1>2. draining[g] # <<>> /\ wire' = wire /\ UNCHANGED <<typed, files, switches>>
  BY DEF FlushOne, counts
<1>3. OnWire' = OnWire BY <1>2 DEF OnWire
<1>4. Tail(draining[g]) \in Seq(Out) /\ x \in Out /\ <<>> \in Seq(Out)
  BY <1>2, Headless DEF TypeOK
<1>5. Append(sendq[g], x) \in Seq(Out) /\ Append(disk, x) \in Seq(Out)
  BY <1>4, Appended DEF TypeOK
<1>6. CASE Len(sendq[g]) < SendCap
  <2> DEFINE D == Put(Left(Content, p, Tail(Content[p])), s, x)
  <2>1. /\ sendq' = [sendq EXCEPT ![g] = Append(sendq[g], x)] /\ disk' = disk
        /\ draining' = [draining EXCEPT ![g] = Tail(draining[g])]
    BY <1>6 DEF FlushOne
  <2>2. \A h \in Gens : /\ sendq'[h] = IF h = g THEN Append(sendq[g], x) ELSE sendq[h]
                        /\ draining'[h] = IF h = g THEN Tail(draining[g]) ELSE draining[h]
    BY <2>1 DEF TypeOK
  <2>3. D = [Content EXCEPT ![p] = Tail(draining[g]), ![s] = Append(sendq[g], x)]
    BY <1>1 DEF Put, Left
  <2> HIDE DEF D, x
  <2>4. D[<<"disk", 0>>] = disk' /\ D[<<"wire", 0>>] = OnWire'
    BY <1>1, <1>3, <2>1, <2>3, ContentTyped
  <2>5. \A h \in Gens : D[<<"sendq", h>>] = sendq'[h] /\ D[<<"draining", h>>] = draining'[h]
    BY <1>1, <2>2, <2>3, ContentTyped
  <2> HIDE DEF p, s
  <2>6. D \in [Places -> Seq(Out)] BY <1>1, <1>4, <1>5, <2>3
  <2>7. Content' = D BY <2>4, <2>5, <2>6, ContentIs
  <2>8. QED BY <1>1, <1>2, <2>7, Passed DEF D, x
<1>7. CASE ~(Len(sendq[g]) < SendCap)
  <2> DEFINE D == Put(Left(Content, p, <<>>), d, x)
  <2>1. /\ sendq' = sendq /\ disk' = Append(disk, x)
        /\ draining' = [draining EXCEPT ![g] = <<>>]
    BY <1>7 DEF FlushOne, Enqueue
  <2>2. \A h \in Gens : draining'[h] = IF h = g THEN <<>> ELSE draining[h]
    BY <2>1 DEF TypeOK
  <2>3. D = [Content EXCEPT ![p] = <<>>, ![d] = Append(disk, x)]
    BY <1>1 DEF Put, Left
  <2> HIDE DEF D, x
  <2>4. D[<<"disk", 0>>] = disk' /\ D[<<"wire", 0>>] = OnWire'
    BY <1>1, <1>3, <2>1, <2>3, ContentTyped
  <2>5. \A h \in Gens : D[<<"sendq", h>>] = sendq'[h] /\ D[<<"draining", h>>] = draining'[h]
    BY <1>1, <2>1, <2>2, <2>3, ContentTyped
  <2> HIDE DEF p, d
  <2>6. D \in [Places -> Seq(Out)] BY <1>1, <1>4, <1>5, <2>3
  <2>7. Content' = D BY <2>4, <2>5, <2>6, ContentIs
  <2>8. QED BY <1>1, <1>2, <2>7, Passed DEF D, x
<1>8. QED BY <1>6, <1>7

LEMMA OnceStep == ASSUME TypeOK, TypeOK', OnceInv, [Next]_vars PROVE OnceInv'
<1>0. typed \in Nat /\ files \in Nat /\ switches \in Nat /\ cli \in Gens /\ room \in Rooms
  BY DEF TypeOK
<1>1. ASSUME NEW g \in Gens, FileFrame(g) PROVE OnceInv'
  <2>1. PICK x \in Out : x = [kind |-> "file", n |-> files + 1, room |-> DefaultRoom]
    <3>1. [kind |-> "file", n |-> files + 1, room |-> DefaultRoom] \in Out
      BY <1>0, SessionAssumption DEF Out
    <3>2. QED BY <3>1
  <2>2. /\ \/ sendq' = [sendq EXCEPT ![g] = Append(sendq[g], x)] /\ disk' = disk
           \/ sendq' = sendq /\ disk' = Append(disk, x)
        /\ draining' = draining /\ wire' = wire /\ typed' = typed /\ switches' = switches
        /\ files' = files + 1
    BY <1>1, <2>1 DEF FileFrame, EnqueueOrSend, Enqueue
  <2>3. ~Known(x) /\ Known(x)' BY <1>0, <2>1, <2>2 DEF Known
  <2>4. typed' >= typed /\ files' >= files /\ switches' >= switches BY <1>0, <2>2
  <2>5. QED BY <2>2, <2>3, <2>4, NewFrame
<1>2. CASE Type
  <2>1. PICK x \in Out : x = [kind |-> "chat", n |-> typed + 1, room |-> room]
    <3>1. [kind |-> "chat", n |-> typed + 1, room |-> room] \in Out
      BY <1>0 DEF Out
    <3>2. QED BY <3>1
  <2>2. /\ sendq' = [sendq EXCEPT ![cli] = Append(sendq[cli], x)] /\ disk' = disk
        /\ draining' = draining /\ wire' = wire /\ typed' = typed + 1 /\ switches' = switches
        /\ files' = files
    BY <1>2, <2>1 DEF Type
  <2>3. ~Known(x) /\ Known(x)' BY <1>0, <2>1, <2>2 DEF Known
  <2>4. typed' >= typed /\ files' >= files /\ switches' >= switches BY <1>0, <2>2
  <2>5. QED BY <1>0, <2>2, <2>3, <2>4, NewFrame
<1>3. ASSUME UNCHANGED <<sendq, disk, draining, wire>>,
             typed' >= typed, files' >= files, switches' >= switches
      PROVE  OnceInv'
  <2>1. Content' = Content BY <1>3 DEF Content, OnWire
  <2>2. ASSUME NEW f \in Out, Known(f) PROVE Known(f)'
    <3>1. /\ f.n \in Nat /\ typed' \in Nat /\ files' \in Nat /\ switches' \in Nat BY DEF Out, TypeOK
    <3>2. QED BY <1>0, <1>3, <2>2, <3>1 DEF Known
  <2>3. QED BY <2>1, <2>2 DEF OnceInv
<1>4. ASSUME NEW r \in Rooms, SwitchRoom(r) PROVE OnceInv'
  <2>1. PICK x \in Out : x = [kind |-> "join", n |-> switches + 1, room |-> r]
    <3>1. [kind |-> "join", n |-> switches + 1, room |-> r] \in Out
      BY <1>0 DEF Out
    <3>2. QED BY <3>1
  <2>2. /\ \/ sendq' = [sendq EXCEPT ![cli] = Append(sendq[cli], x)] \/ sendq' = sendq
        /\ disk' = disk
        /\ draining' = draining /\ wire' = wire /\ typed' = typed /\ files' = files
        /\ switches' = switches + 1
    BY <1>4, <2>1 DEF SwitchRoom
  <2>3. ~Known(x) /\ Known(x)' BY <1>0, <2>1, <2>2 DEF Known
  <2>4. typed' >= typed /\ files' >= files /\ switches' >= switches BY <1>0, <2>2
  <2>5. CASE sendq' = sendq BY <1>3, <2>2, <2>4, <2>5
  <2>6. CASE sendq' = [sendq EXCEPT ![cli] = Append(sendq[cli], x)]
    BY <1>0, <2>2, <2>3, <2>4, <2>6, NewFrame
  <2>7. QED BY <2>2, <2>5, <2>6
<1>5. ASSUME UNCHANGED <<sendq, disk, draining, wire, typed, files, switches>> PROVE OnceInv'
  BY <1>0, <1>3, <1>5
<1>6. ASSUME NEW g \in Gens,
             \/ \E kind \in Kinds : HubSends(g, kind)
             \/ \E p \in Peers : HubSendsUnreadable(g, p) \/ HubSendsKey(g, p)
             \/ flushPending(g)
             \/ Notice(g) \/ HubCloses(g) \/ ReadPumpEnds(g) \/ Take(g) \/ Reconnected(g)
      PROVE  OnceInv'
  <2>1. CASE \/ \E kind \in Kinds : HubSends(g, kind)
             \/ \E p \in Peers : HubSendsUnreadable(g, p) \/ HubSendsKey(g, p)
    BY <1>5, <2>1 DEF HubSends, HubSendsUnreadable, HubSendsKey, Arrives, outbound
  <2>2. CASE flushPending(g) BY <1>5, <2>2 DEF flushPending, outbound, counts
  <2>3. CASE Notice(g) \/ HubCloses(g) \/ ReadPumpEnds(g) \/ Take(g) \/ Reconnected(g)
    BY <1>5, <2>3 DEF Notice, HubCloses, ReadPumpEnds, Take, Reconnected, outbound, counts
  <2>4. QED BY <1>6, <2>1, <2>2, <2>3
<1>7. CASE Dial \/ \E msg \in handed : Incoming(msg)
  BY <1>5, <1>7 DEF Dial, Incoming, outbound, counts
<1>8. CASE UNCHANGED vars BY <1>5, <1>8 DEF vars, outbound, counts
<1>9. QED
  BY <1>1, <1>2, <1>4, <1>6, <1>7, <1>8, WritePumpOnce, DrainOnce, FlushOnce DEF Next, Pump

\* No frame reaches the hub twice, whichever way and however often it went
\* through the queue on disk, over any number of connections.
THEOREM FramesSentOnce == Spec => []SentOnce
<1>1. Spec => []OnceInv
  BY OnceInit, OnceStep, SessionTyped, PTL DEF Spec
<1>2. TypeOK /\ OnceInv => SentOnce
  <2> SUFFICES ASSUME TypeOK, OnceInv, NEW i \in 1..Len(wire), NEW j \in 1..Len(wire),
                      wire[i].frame = wire[j].frame
               PROVE  i = j
    BY DEF SentOnce
  <2> DEFINE w == <<"wire", 0>>
  <2>1. w \in Places /\ Content[w] = OnWire /\ OnWire \in Seq(Out) BY ContentTyped
  <2>2. Len(OnWire) = Len(wire) /\ OnWire[i] = wire[i].frame /\ OnWire[j] = wire[j].frame
    BY <2>1 DEF OnWire, TypeOK
  <2>3. Once(Places, Content) BY DEF OnceInv
  <2>4. QED BY <2>1, <2>2, <2>3 DEF Once
<1>3. QED BY <1>1, <1>2, SessionTyped, PTL
=============================================================================
