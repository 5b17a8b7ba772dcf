---------------------------- MODULE GroupProofs -----------------------------
(***************************************************************************)
(* Proofs about GroupSession for any group, any queues and any number of   *)
(* changes: a kicked member and the seeds made after the kick, what        *)
(* flushPending computes, messages shown once, and replaced seeds.         *)
(***************************************************************************)
EXTENDS GroupSession, SequenceTheorems, WellFoundedInduction, TLAPS

\* The types the first proof needs; ReadingTyped below adds what clients have read.
Typed ==
  /\ registered \subseteq Members /\ casts \in Seq({"EPOCH", "USER_LIST"})
  /\ cast \in Broadcast /\ relay \in [Members -> Broadcast]
  /\ down \in [Members -> Seq(Frame)] /\ outq \in [Members -> Seq(Frame)]
  /\ own \in [Members -> Chain] /\ said \in [Members -> Nat]
  /\ known \in [Members -> SUBSET (Members \X Nat)] /\ fresh \subseteq Members \X Nat
  /\ kicked \in BOOLEAN

\* A key that is under way was made by its sender already.
KeyMade(f) == f.type = "KEY" => f.gen <= own[f.from].gen

\* What may reach p: the EPOCH of the kick, or of a change after it, never comes
\* to the kicked member, and no seed that such an EPOCH made.
MayReach(p, f) ==
  /\ KeyMade(f)
  /\ f.type = "EPOCH" /\ f.body = 1 => kicked /\ p # Target
  /\ p = Target /\ f.type = "KEY" => <<f.from, f.gen>> \notin fresh

SeedInv ==
  /\ kicked => Target \notin registered
  /\ fresh # {} => kicked
  /\ \A p \in Members : p \in cast.to => MayReach(p, cast.frame)
  /\ \A m, p \in Members : p \in relay[m].to => MayReach(p, relay[m].frame)
  /\ \A m \in Members : \A i \in 1..Len(down[m]) : MayReach(m, down[m][i])
  /\ \A m \in Members : \A i \in 1..Len(outq[m]) :
       outq[m][i].type \in {"CHAT", "KEY"} /\ KeyMade(outq[m][i])
  /\ \A m \in Members : \A s \in known[m] : s[2] <= own[s[1]].gen
  /\ KickedLearnsNoSeed

LEMMA GroupInit == Init => Typed /\ SeedInv
<1> SUFFICES ASSUME Init PROVE Typed /\ SeedInv OBVIOUS
<1>1. Idle \in Broadcast /\ Idle.to = {}
  BY SessionAssumption DEF Idle, Broadcast, Frame
<1>2. NewRatchet(1) \in Chain BY DEF NewRatchet, Chain
<1>3. \A m \in Members : \A i : i \notin 1..Len(down[m]) /\ i \notin 1..Len(outq[m]) BY DEF Init
<1>4. Typed
  <2>1. casts = <<>> /\ casts \in Seq({"EPOCH", "USER_LIST"}) BY DEF Init
  <2>2. down \in [Members -> Seq(Frame)] /\ outq \in [Members -> Seq(Frame)] BY DEF Init
  <2>3. cast \in Broadcast /\ relay \in [Members -> Broadcast] BY <1>1 DEF Init
  <2>4. own \in [Members -> Chain] BY <1>2 DEF Init
  <2>5. QED BY <2>1, <2>2, <2>3, <2>4 DEF Init, Typed
<1>5. SeedInv BY <1>1, <1>3 DEF Init, SeedInv, KickedLearnsNoSeed
<1>6. QED BY <1>4, <1>5

\* A step only makes seeds later than all before: what was under way may still
\* reach whom it could.
LEMMA StillReaches ==
  ASSUME Typed, Typed', \A m \in Members : own[m].gen <= own'[m].gen, kicked => kicked',
         \A s \in fresh' : s \in fresh \/ own[s[1]].gen < s[2]
  PROVE  \A f \in Frame : /\ KeyMade(f) => KeyMade(f)'
                          /\ \A p \in Members : MayReach(p, f) => MayReach(p, f)'
<1> SUFFICES ASSUME NEW f \in Frame
             PROVE  /\ KeyMade(f) => KeyMade(f)'
                    /\ \A p \in Members : MayReach(p, f) => MayReach(p, f)'
  OBVIOUS
<1>1. f.from \in Members /\ f.gen \in Nat BY DEF Frame
<1>2. own[f.from].gen \in Nat /\ own'[f.from].gen \in Nat BY <1>1 DEF Typed, Chain
<1>3. KeyMade(f) => KeyMade(f)' BY <1>1, <1>2 DEF KeyMade
<1>4. ASSUME KeyMade(f), f.type = "KEY", <<f.from, f.gen>> \in fresh'
      PROVE  <<f.from, f.gen>> \in fresh
  <2> DEFINE s == <<f.from, f.gen>>
  <2>1. s \in fresh \/ own[f.from].gen < f.gen BY <1>4
  <2>2. f.gen <= own[f.from].gen BY <1>4 DEF KeyMade
  <2>3. QED BY <1>1, <1>2, <2>1, <2>2
<1>5. QED BY <1>3, <1>4 DEF MayReach

\* A frame that may reach p is put on its queue or dropped.
LEMMA Delivered ==
  ASSUME Typed, SeedInv, NEW p \in Members, NEW f \in Frame, MayReach(p, f), Deliver(p, f)
  PROVE  /\ down' \in [Members -> Seq(Frame)]
         /\ \A m \in Members : \A i \in 1..Len(down'[m]) : MayReach(m, down'[m][i])
<1> DEFINE n == Len(down[p])  t == Append(down[p], f)
<1>1. /\ t \in Seq(Frame) /\ n \in Nat /\ Len(t) = n + 1 /\ t[n + 1] = f
      /\ \A i \in 1..n : t[i] = down[p][i]
  BY AppendProperties DEF Typed
<1>2. \A m \in Members : \A i \in 1..Len(down[m]) : MayReach(m, down[m][i]) BY DEF SeedInv
<1>3. CASE down' = down BY <1>2, <1>3 DEF Typed
<1>4. CASE down' = [down EXCEPT ![p] = t]
  <2>1. down' \in [Members -> Seq(Frame)] BY <1>1, <1>4 DEF Typed
  <2>2. down'[p] = t /\ \A m \in Members : m # p => down'[m] = down[m] BY <1>4 DEF Typed
  <2> HIDE DEF t
  <2>3. ASSUME NEW i \in 1..Len(t) PROVE MayReach(p, t[i])
    <3>1. i \in 1..(n + 1) BY <1>1
    <3>2. \A j \in 1..n : MayReach(p, t[j]) BY <1>1, <1>2
    <3> HIDE DEF n
    <3>3. i \in 1..n \/ i = n + 1 BY <1>1, <3>1
    <3>4. QED BY <1>1, <3>2, <3>3
  <2>4. QED BY <1>2, <2>1, <2>2, <2>3
<1>5. QED BY <1>3, <1>4 DEF Deliver

\* A client puts a frame on SendChan, or drops it when that is full.
Enqueue(m, f) == outq' = outq \/ outq' = [outq EXCEPT ![m] = Append(outq[m], f)]

LEMMA Enqueued ==
  ASSUME Typed, NEW m \in Members, NEW f \in Frame, Enqueue(m, f)
  PROVE  /\ outq' \in [Members -> Seq(Frame)]
         /\ \A h \in Members : \A i \in 1..Len(outq'[h]) :
              \/ i \in 1..Len(outq[h]) /\ outq'[h][i] = outq[h][i]
              \/ outq'[h][i] = f
<1> DEFINE n == Len(outq[m])  t == Append(outq[m], f)
<1>1. /\ t \in Seq(Frame) /\ n \in Nat /\ Len(t) = n + 1 /\ t[n + 1] = f
      /\ \A i \in 1..n : t[i] = outq[m][i]
  BY AppendProperties DEF Typed
<1>2. CASE outq' = outq BY <1>2 DEF Typed
<1>3. CASE outq' = [outq EXCEPT ![m] = t]
  <2>1. outq' \in [Members -> Seq(Frame)] BY <1>1, <1>3 DEF Typed
  <2>2. outq'[m] = t /\ \A h \in Members : h # m => outq'[h] = outq[h] BY <1>3 DEF Typed
  <2> HIDE DEF t
  <2>3. ASSUME NEW i \in 1..Len(t)
        PROVE  (i \in 1..n /\ t[i] = outq[m][i]) \/ t[i] = f
    <3>1. i \in 1..(n + 1) BY <1>1
    <3> HIDE DEF n
    <3>2. i \in 1..n \/ i = n + 1 BY <1>1, <3>1
    <3>3. QED BY <1>1, <3>2
  <2>4. QED BY <2>1, <2>2, <2>3
<1>4. QED BY <1>2, <1>3 DEF Enqueue

LEMMA PublishEnqueues ==
  ASSUME NEW m \in Members, NEW gen \in Nat, publishSenderKey(m, gen)
  PROVE  KeyFrame(m, gen) \in Frame /\ Enqueue(m, KeyFrame(m, gen))
<1>1. KeyFrame(m, gen) \in Frame BY DEF KeyFrame, Frame
<1>2. Enqueue(m, KeyFrame(m, gen)) BY DEF publishSenderKey, Enqueue
<1>3. QED BY <1>1, <1>2

\* A pump takes the head of a queue: what is left was there.
LEMMA TailLeft ==
  ASSUME NEW q \in Seq(Frame), q # <<>>
  PROVE  /\ Head(q) \in Frame /\ Tail(q) \in Seq(Frame)
         /\ 1 \in 1..Len(q) /\ Head(q) = q[1]
         /\ \A i \in 1..Len(Tail(q)) : i + 1 \in 1..Len(q) /\ Tail(q)[i] = q[i + 1]
<1> DEFINE n == Len(q)  t == Tail(q)
<1>1. n \in Nat /\ n # 0 /\ Len(t) = n - 1 /\ t \in Seq(Frame) /\ Head(q) = q[1] /\ Head(q) \in Frame
  OBVIOUS
<1>2. \A i \in 1..(n - 1) : t[i] = q[i + 1] OBVIOUS
<1> HIDE DEF n, t
<1>3. 1 \in 1..n /\ \A i \in 1..(n - 1) : i + 1 \in 1..n BY <1>1
<1>4. \A i \in 1..Len(t) : i + 1 \in 1..n /\ t[i] = q[i + 1] BY <1>1, <1>2, <1>3
<1>5. QED BY <1>1, <1>3, <1>4 DEF n, t

\* What a client's step has to show.
LEMMA ClientStep ==
  ASSUME Typed, Typed', SeedInv, UNCHANGED <<registered, cast, kicked>>,
         \A m \in Members : own[m].gen <= own'[m].gen,
         \A s \in fresh' : s \in fresh \/ (kicked /\ own[s[1]].gen < s[2]),
         \A m, p \in Members : p \in relay'[m].to => MayReach(p, relay'[m].frame),
         \A m \in Members : \A i \in 1..Len(down'[m]) : MayReach(m, down'[m][i]),
         \A m \in Members : \A i \in 1..Len(outq'[m]) :
           outq'[m][i].type \in {"CHAT", "KEY"} /\ KeyMade(outq[m][i])',
         \A m \in Members : \A s \in known'[m] : s[2] <= own'[s[1]].gen,
         KickedLearnsNoSeed'
  PROVE  SeedInv'
<1>1. \A f \in Frame : \A p \in Members : MayReach(p, f) => MayReach(p, f)'
  BY StillReaches
<1>2. \A p \in Members : p \in cast'.to => MayReach(p, cast.frame)'
  BY <1>1 DEF Typed, Broadcast, SeedInv, MayReach, KeyMade
<1>3. \A m, p \in Members : p \in relay'[m].to => MayReach(p, relay[m].frame)'
  <2> SUFFICES ASSUME NEW m \in Members, NEW p \in Members, p \in relay'[m].to
               PROVE  MayReach(p, relay[m].frame)'
    OBVIOUS
  <2>1. PICK f \in Frame : f = relay'[m].frame BY DEF Typed, Broadcast
  <2>2. MayReach(p, f)' BY <1>1, <2>1
  <2>3. QED BY <2>1, <2>2 DEF MayReach, KeyMade
<1>4. \A m \in Members : \A i \in 1..Len(down'[m]) : MayReach(m, down[m][i])'
  <2> SUFFICES ASSUME NEW m \in Members, NEW i \in 1..Len(down'[m])
               PROVE  MayReach(m, down[m][i])'
    OBVIOUS
  <2>1. PICK f \in Frame : f = down'[m][i] BY DEF Typed
  <2>2. MayReach(m, f)' BY <1>1, <2>1
  <2>3. QED BY <2>1, <2>2 DEF MayReach, KeyMade
<1>5. fresh' # {} => kicked' BY DEF SeedInv
<1>6. QED BY <1>2, <1>3, <1>4, <1>5 DEF SeedInv

-----------------------------------------------------------------------------
(* The steps of the hub. *)

LEMMA EventKeeps ==
  ASSUME Typed, SeedInv, NEW event \in Events, MembershipEvent(event)
  PROVE  Typed' /\ SeedInv'
<1>1. CastsOf(event) \in Seq({"EPOCH", "USER_LIST"})
  <2>1. event \in {"join", "approve", "blockPending", "kick"} BY SessionAssumption
  <2>2. CASE event \in {"join", "kick"}
    <3>1. CastsOf(event) = <<"USER_LIST", "EPOCH">> BY <2>2 DEF CastsOf
    <3>2. QED BY <3>1
  <2>3. CASE event = "approve"
    <3>1. CastsOf(event) = <<"EPOCH", "USER_LIST">> BY <2>3 DEF CastsOf
    <3>2. QED BY <3>1
  <2>4. CASE event = "blockPending"
    <3>1. CastsOf(event) = <<"USER_LIST">> BY <2>4 DEF CastsOf
    <3>2. QED BY <3>1
  <2>5. QED BY <2>1, <2>2, <2>3, <2>4
<1>2. /\ registered' = Remaining(event) /\ kicked' = (kicked \/ event = "kick")
      /\ casts' = CastsOf(event)
      /\ UNCHANGED <<cast, relay, down, outq, own, said, known, fresh>>
  BY DEF MembershipEvent, clientVars, history
<1>3. kicked' \in BOOLEAN /\ (kicked => kicked') /\ (kicked' <=> kicked \/ event = "kick") BY <1>2
<1>4. registered' \subseteq registered /\ (event = "kick" => Target \notin registered')
  BY <1>2 DEF Remaining
<1>5. Typed' BY <1>1, <1>2, <1>3, <1>4 DEF Typed
<1>6. \A f \in Frame : /\ KeyMade(f) => KeyMade(f)'
                       /\ \A p \in Members : MayReach(p, f) => MayReach(p, f)'
  BY <1>2, <1>3 DEF KeyMade, MayReach
<1>7. \A m \in Members : /\ relay[m].frame \in Frame
                         /\ \A i \in 1..Len(down[m]) : down[m][i] \in Frame
                         /\ \A i \in 1..Len(outq[m]) : outq[m][i] \in Frame
  BY DEF Typed, Broadcast
<1>8. cast.frame \in Frame BY DEF Typed, Broadcast
<1>9. kicked' => Target \notin registered' BY <1>3, <1>4 DEF SeedInv
<1>10. SeedInv'
  BY <1>2, <1>3, <1>6, <1>7, <1>8, <1>9 DEF SeedInv, KickedLearnsNoSeed
<1>11. QED BY <1>5, <1>10

LEMMA StartCastKeeps == ASSUME Typed, SeedInv, StartCast PROVE Typed' /\ SeedInv'
<1> DEFINE f == HubFrame(Head(casts))
<1>1. /\ casts # <<>> /\ cast' = [frame |-> f, to |-> registered] /\ casts' = Tail(casts)
      /\ UNCHANGED <<registered, relay, kicked, down, outq, own, said, known, fresh>>
  BY DEF StartCast, clientVars, history
<1>2. Head(casts) \in {"EPOCH", "USER_LIST"} /\ Tail(casts) \in Seq({"EPOCH", "USER_LIST"})
  BY <1>1 DEF Typed
<1>3. f \in Frame /\ f.type # "KEY" /\ (f.body = 1 => kicked)
  BY <1>2, SessionAssumption DEF HubFrame, Frame
<1> HIDE DEF f
<1>4. cast' \in Broadcast /\ cast'.to = registered /\ cast'.frame = f
  BY <1>1, <1>3 DEF Typed, Broadcast
<1>5. Typed' BY <1>1, <1>2, <1>4 DEF Typed
<1>6. \A p \in registered : MayReach(p, f)
  BY <1>3 DEF MayReach, KeyMade, SeedInv
<1>7. \A p, g : MayReach(p, g)' <=> MayReach(p, g) BY <1>1 DEF MayReach, KeyMade
<1>8. \A p \in Members : p \in cast'.to => MayReach(p, cast.frame)'
  BY <1>1, <1>4, <1>6 DEF MayReach, KeyMade
<1>9. SeedInv' BY <1>1, <1>8 DEF SeedInv, KickedLearnsNoSeed, MayReach, KeyMade
<1>10. QED BY <1>5, <1>9

\* A broadcast or a relay reaches one more member.
OneMore(p) ==
  /\ UNCHANGED <<registered, casts, kicked, outq, own, said, known, fresh>>
  /\ \E f \in Frame : MayReach(p, f) /\ Deliver(p, f)
  /\ cast' \in Broadcast /\ relay' \in [Members -> Broadcast]
  /\ cast'.frame = cast.frame /\ cast'.to \subseteq cast.to
  /\ \A m \in Members : relay'[m].frame = relay[m].frame /\ relay'[m].to \subseteq relay[m].to

LEMMA CastReaches == ASSUME Typed, SeedInv, NEW p \in Members, CastTo(p) PROVE OneMore(p)
<1>1. /\ p \in cast.to /\ Deliver(p, cast.frame) /\ cast' = [cast EXCEPT !.to = cast.to \ {p}]
      /\ UNCHANGED <<registered, casts, relay, kicked, outq, own, said, known, fresh>>
  BY DEF CastTo, clientVars, history
<1>2. cast.frame \in Frame /\ cast' \in Broadcast BY <1>1 DEF Typed, Broadcast
<1>3. MayReach(p, cast.frame) BY <1>1 DEF SeedInv
<1>4. cast'.frame = cast.frame /\ cast'.to \subseteq cast.to BY <1>1 DEF Typed, Broadcast
<1>5. QED BY <1>1, <1>2, <1>3, <1>4 DEF Typed, OneMore

LEMMA RelayReaches ==
  ASSUME Typed, SeedInv, NEW m \in Members, NEW p \in Members, RelayTo(m, p) PROVE OneMore(p)
<1> DEFINE b == [relay[m] EXCEPT !.to = relay[m].to \ {p}]
<1>1. /\ p \in relay[m].to /\ Deliver(p, relay[m].frame)
      /\ relay' = [relay EXCEPT ![m] = b]
      /\ UNCHANGED <<registered, casts, cast, kicked, outq, own, said, known, fresh>>
  BY DEF RelayTo, clientVars, history
<1>2. /\ relay[m].frame \in Frame /\ b \in Broadcast
      /\ b.frame = relay[m].frame /\ b.to \subseteq relay[m].to
  BY DEF Typed, Broadcast
<1>3. MayReach(p, relay[m].frame) BY <1>1 DEF SeedInv
<1> HIDE DEF b
<1>4. QED BY <1>1, <1>2, <1>3 DEF Typed, OneMore

LEMMA DeliveryKeeps ==
  ASSUME Typed, SeedInv, NEW p \in Members, OneMore(p)
  PROVE  Typed' /\ SeedInv'
<1>1. /\ UNCHANGED <<registered, casts, kicked, outq, own, said, known, fresh>>
      /\ \E f \in Frame : MayReach(p, f) /\ Deliver(p, f)
      /\ cast' \in Broadcast /\ relay' \in [Members -> Broadcast]
      /\ cast'.frame = cast.frame /\ cast'.to \subseteq cast.to
      /\ \A m \in Members : relay'[m].frame = relay[m].frame /\ relay'[m].to \subseteq relay[m].to
  BY DEF OneMore
<1>2. PICK f \in Frame : MayReach(p, f) /\ Deliver(p, f) BY <1>1
<1>3. /\ down' \in [Members -> Seq(Frame)]
      /\ \A m \in Members : \A i \in 1..Len(down'[m]) : MayReach(m, down'[m][i])
  BY <1>2, Delivered
<1>4. Typed' BY <1>1, <1>3 DEF Typed
<1>5. SeedInv'
  <2>1. \A m \in Members : \A i \in 1..Len(down'[m]) : MayReach(m, down[m][i])'
    BY <1>1, <1>3 DEF MayReach, KeyMade
  <2>2. \A q \in Members : q \in cast'.to => MayReach(q, cast.frame)'
    BY <1>1 DEF SeedInv, MayReach, KeyMade
  <2>3. \A m, q \in Members : q \in relay'[m].to => MayReach(q, relay[m].frame)'
    BY <1>1 DEF SeedInv, MayReach, KeyMade
  <2>4. \A m \in Members : \A i \in 1..Len(outq[m]) :
          outq[m][i].type \in {"CHAT", "KEY"} /\ KeyMade(outq[m][i])'
    BY <1>1 DEF SeedInv, KeyMade
  <2>5. QED BY <1>1, <2>1, <2>2, <2>3, <2>4 DEF SeedInv, KickedLearnsNoSeed
<1>6. QED BY <1>4, <1>5

-----------------------------------------------------------------------------
(* The steps of the clients. *)

\* The frames on SendChan after one was added.
LEMMA OutqKeeps ==
  ASSUME Typed, SeedInv, NEW m \in Members, NEW f \in Frame, Enqueue(m, f),
         f.type \in {"CHAT", "KEY"}, KeyMade(f)',
         own' \in [Members -> Chain], \A h \in Members : own[h].gen <= own'[h].gen
  PROVE  \A h \in Members : \A i \in 1..Len(outq'[h]) :
           outq'[h][i].type \in {"CHAT", "KEY"} /\ KeyMade(outq[h][i])'
<1> SUFFICES ASSUME NEW h \in Members, NEW i \in 1..Len(outq'[h])
             PROVE  outq'[h][i].type \in {"CHAT", "KEY"} /\ KeyMade(outq[h][i])'
  OBVIOUS
<1>1. \/ i \in 1..Len(outq[h]) /\ outq'[h][i] = outq[h][i]
      \/ outq'[h][i] = f
  BY Enqueued
<1>2. CASE outq'[h][i] = f BY <1>2 DEF KeyMade
<1>3. CASE i \in 1..Len(outq[h]) /\ outq'[h][i] = outq[h][i]
  <2>1. PICK g \in Frame : g = outq[h][i] BY <1>3 DEF Typed
  <2>2. g.type \in {"CHAT", "KEY"} /\ KeyMade(g) BY <1>3, <2>1 DEF SeedInv
  <2>3. g.from \in Members /\ g.gen \in Nat BY DEF Frame
  <2>4. own[g.from].gen \in Nat /\ own'[g.from].gen \in Nat BY <2>3 DEF Typed, Chain
  <2>5. KeyMade(g)' BY <2>2, <2>3, <2>4 DEF KeyMade
  <2>6. QED BY <1>3, <2>1, <2>2, <2>5 DEF KeyMade
<1>4. QED BY <1>1, <1>2, <1>3

LEMMA SayKeeps ==
  ASSUME Typed, SeedInv, NEW m \in Members, Say(m) PROVE Typed' /\ SeedInv'
<1> DEFINE chat == [type |-> "CHAT", from |-> m, gen |-> 0, step |-> 0, body |-> said[m] + 1]
<1>1. /\ said' = [said EXCEPT ![m] = said[m] + 1]
      /\ outq' = [outq EXCEPT ![m] = Append(outq[m], chat)]
      /\ UNCHANGED <<registered, casts, cast, relay, kicked, down, own, known, fresh>>
  BY DEF Say, hubVars, clientVars, history
<1>2. PICK f \in Frame : f = chat
  <2>1. said[m] + 1 \in Nat BY DEF Typed
  <2>2. chat \in Frame BY <2>1 DEF Frame
  <2>3. QED BY <2>2
<1>3. f.type = "CHAT" /\ Enqueue(m, f) BY <1>1, <1>2 DEF Enqueue
<1> HIDE DEF chat
<1>4. outq' \in [Members -> Seq(Frame)] BY <1>3, Enqueued
<1>5. said' \in [Members -> Nat] BY <1>1 DEF Typed
<1>6. Typed' BY <1>1, <1>4, <1>5 DEF Typed
<1>7. \A h \in Members : own[h].gen <= own'[h].gen BY <1>1 DEF Typed, Chain
<1>8. KeyMade(f)' BY <1>3 DEF KeyMade
<1>9. \A h \in Members : \A i \in 1..Len(outq'[h]) :
        outq'[h][i].type \in {"CHAT", "KEY"} /\ KeyMade(outq[h][i])'
  BY <1>3, <1>6, <1>7, <1>8, OutqKeeps DEF Typed
<1>10. KickedLearnsNoSeed' BY <1>1 DEF SeedInv, KickedLearnsNoSeed
<1>11. /\ \A h, p \in Members : p \in relay'[h].to => MayReach(p, relay'[h].frame)
       /\ \A h \in Members : \A i \in 1..Len(down'[h]) : MayReach(h, down'[h][i])
       /\ \A h \in Members : \A s \in known'[h] : s[2] <= own'[s[1]].gen
       /\ \A s \in fresh' : s \in fresh \/ (kicked /\ own[s[1]].gen < s[2])
  BY <1>1 DEF SeedInv
<1>12. UNCHANGED <<registered, cast, kicked>> BY <1>1
<1>13. SeedInv' BY <1>6, <1>7, <1>9, <1>10, <1>11, <1>12, ClientStep
<1>14. QED BY <1>6, <1>13

LEMMA WriteKeeps ==
  ASSUME Typed, SeedInv, NEW m \in Members, WritePump(m) PROVE Typed' /\ SeedInv'
<1> DEFINE q == outq[m]  e == Encrypted(m, Head(outq[m]))
<1>1. /\ q # <<>> /\ relay' = [relay EXCEPT ![m] = Relayed(m, e)]
      /\ own' = IF Head(q).type = "CHAT" THEN [own EXCEPT ![m].step = own[m].step + 1] ELSE own
      /\ outq' = [outq EXCEPT ![m] = Tail(q)]
      /\ UNCHANGED <<registered, casts, cast, kicked, down, said, known, fresh>>
  BY DEF WritePump, history
<1>2. q \in Seq(Frame) BY DEF Typed
<1>3. /\ Head(q) \in Frame /\ Tail(q) \in Seq(Frame)
      /\ 1 \in 1..Len(q) /\ Head(q) = q[1]
      /\ \A i \in 1..Len(Tail(q)) : i + 1 \in 1..Len(q) /\ Tail(q)[i] = q[i + 1]
  BY <1>1, <1>2, TailLeft
<1>4. \A i \in 1..Len(q) : q[i].type \in {"CHAT", "KEY"} /\ KeyMade(q[i]) BY DEF SeedInv
<1>5. Head(q).type \in {"CHAT", "KEY"} /\ KeyMade(Head(q)) BY <1>3, <1>4
<1>6. own[m] \in Chain /\ own[m].gen \in Nat /\ own[m].step \in Nat BY DEF Typed, Chain
<1>7. e \in Frame /\ e.type \in {"CHAT", "KEY"} /\ KeyMade(e)
  <2>1. CASE Head(q).type = "CHAT"
    <3>1. e = [Head(q) EXCEPT !.gen = own[m].gen, !.step = own[m].step] BY <2>1 DEF Encrypted
    <3>2. e \in Frame /\ e.type = "CHAT" BY <1>3, <1>6, <2>1, <3>1 DEF Frame
    <3>3. QED BY <3>2 DEF KeyMade
  <2>2. CASE Head(q).type # "CHAT"
    <3>1. e = Head(q) BY <2>2 DEF Encrypted
    <3>2. QED BY <1>3, <1>5, <3>1
  <2>3. QED BY <2>1, <2>2
<1> HIDE DEF e
<1>8. /\ Relayed(m, e) \in Broadcast /\ Relayed(m, e).frame = e
      /\ Relayed(m, e).to \subseteq registered
  BY <1>7 DEF Relayed, Broadcast, Typed
<1>9. /\ relay' \in [Members -> Broadcast] /\ relay'[m].frame = e /\ relay'[m].to \subseteq registered
      /\ \A h \in Members : h # m => relay'[h] = relay[h]
  BY <1>1, <1>8 DEF Typed
<1>10. own' \in [Members -> Chain] /\ \A h \in Members : own'[h].gen = own[h].gen
  <2>1. [own[m] EXCEPT !.step = own[m].step + 1] \in Chain BY <1>6 DEF Chain
  <2>2. CASE Head(q).type = "CHAT"
    <3> DEFINE c == [own[m] EXCEPT !.step = own[m].step + 1]
    <3>1. own' = [own EXCEPT ![m] = c] BY <1>1, <2>2
    <3>2. c.gen = own[m].gen BY <1>6 DEF Chain
    <3> HIDE DEF c
    <3>3. QED BY <2>1, <3>1, <3>2 DEF Typed, c
  <2>3. CASE Head(q).type # "CHAT" BY <1>1, <2>3 DEF Typed
  <2>4. QED BY <2>2, <2>3
<1>11. /\ outq' \in [Members -> Seq(Frame)] /\ outq'[m] = Tail(q)
       /\ \A h \in Members : h # m => outq'[h] = outq[h]
  BY <1>1, <1>3 DEF Typed
<1>12. Typed' BY <1>1, <1>9, <1>10, <1>11 DEF Typed
<1>13. \A h \in Members : own[h].gen <= own'[h].gen BY <1>10 DEF Typed, Chain
<1>14. \A h, p \in Members : p \in relay'[h].to => MayReach(p, relay'[h].frame)
  <2>1. \A p \in registered : MayReach(p, e)
    <3> SUFFICES ASSUME NEW p \in registered PROVE MayReach(p, e) OBVIOUS
    <3>1. e.type # "EPOCH" BY <1>7
    <3>2. p = Target => fresh = {} BY DEF SeedInv
    <3>3. QED BY <1>7, <3>1, <3>2 DEF MayReach
  <2>2. QED BY <1>9, <2>1 DEF SeedInv
<1>15. \A h \in Members : \A i \in 1..Len(outq'[h]) :
         outq'[h][i].type \in {"CHAT", "KEY"} /\ KeyMade(outq[h][i])'
  <2> SUFFICES ASSUME NEW h \in Members, NEW i \in 1..Len(outq'[h])
               PROVE  outq'[h][i].type \in {"CHAT", "KEY"} /\ KeyMade(outq[h][i])'
    OBVIOUS
  <2>1. \E j \in 1..Len(outq[h]) : outq'[h][i] = outq[h][j]
    <3>1. CASE h = m BY <1>3, <1>11, <3>1
    <3>2. CASE h # m BY <1>11, <3>2
    <3>3. QED BY <3>1, <3>2
  <2>2. PICK j \in 1..Len(outq[h]) : outq'[h][i] = outq[h][j] BY <2>1
  <2>3. PICK g \in Frame : g = outq[h][j] BY DEF Typed
  <2>4. g.type \in {"CHAT", "KEY"} /\ KeyMade(g) BY <2>3 DEF SeedInv
  <2>5. KeyMade(g)' BY <1>10, <2>4 DEF KeyMade, Frame
  <2>6. QED BY <2>2, <2>3, <2>4, <2>5 DEF KeyMade
<1>16. KickedLearnsNoSeed' BY <1>1 DEF SeedInv, KickedLearnsNoSeed
<1>17. /\ \A h \in Members : \A i \in 1..Len(down'[h]) : MayReach(h, down'[h][i])
       /\ \A s \in fresh' : s \in fresh \/ (kicked /\ own[s[1]].gen < s[2])
  BY <1>1 DEF SeedInv
<1>18. \A h \in Members : \A s \in known'[h] : s[2] <= own'[s[1]].gen
  <2> SUFFICES ASSUME NEW h \in Members, NEW s \in known[h] PROVE s[2] <= own'[s[1]].gen
    BY <1>1
  <2>1. s \in Members \X Nat BY DEF Typed
  <2>2. s[1] \in Members BY <2>1
  <2>3. s[2] <= own[s[1]].gen BY DEF SeedInv
  <2>4. QED BY <1>10, <2>2, <2>3
<1>19. UNCHANGED <<registered, cast, kicked>> BY <1>1
<1>20. SeedInv' BY <1>12, <1>13, <1>14, <1>15, <1>16, <1>17, <1>18, <1>19, ClientStep
<1>21. QED BY <1>12, <1>20

\* A seed that a member puts on SendChan is one it has made.
LEMMA SeedSent ==
  ASSUME Typed, SeedInv, NEW m \in Members, NEW gen \in Nat, publishSenderKey(m, gen),
         own' \in [Members -> Chain], \A h \in Members : own[h].gen <= own'[h].gen,
         gen <= own'[m].gen
  PROVE  /\ outq' \in [Members -> Seq(Frame)]
         /\ \A h \in Members : \A i \in 1..Len(outq'[h]) :
              outq'[h][i].type \in {"CHAT", "KEY"} /\ KeyMade(outq[h][i])'
<1>1. PICK k \in Frame : k = KeyFrame(m, gen) /\ Enqueue(m, k) BY PublishEnqueues
<1>2. outq' \in [Members -> Seq(Frame)] BY <1>1, Enqueued
<1>3. k.type = "KEY" /\ k.from = m /\ k.gen = gen BY <1>1 DEF KeyFrame
<1>4. KeyMade(k)' BY <1>3 DEF KeyMade
<1>5. \A h \in Members : \A i \in 1..Len(outq'[h]) :
        outq'[h][i].type \in {"CHAT", "KEY"} /\ KeyMade(outq[h][i])'
  BY <1>1, <1>3, <1>4, OutqKeeps
<1>6. QED BY <1>2, <1>5

\* What a member does with a frame: it starts a new seed, or learns of one of
\* another member, or neither.
LEMMA ReceiveKeeps ==
  ASSUME Typed, SeedInv, NEW m \in Members, NEW f \in Frame, MayReach(m, f),
         \/ ReceiveEpoch(m, f) \/ ReceiveUserList(m, f) \/ ReceiveKey(m, f)
         \/ ReceiveChat(m, f) \/ ReceiveUnreadable(m, f)
  PROVE  /\ own' \in [Members -> Chain] /\ outq' \in [Members -> Seq(Frame)]
         /\ known' \in [Members -> SUBSET (Members \X Nat)] /\ fresh' \subseteq Members \X Nat
         /\ \A h \in Members : own[h].gen <= own'[h].gen
         /\ \A s \in fresh' : s \in fresh \/ (kicked /\ own[s[1]].gen < s[2])
         /\ \A h \in Members : \A s \in known'[h] : s[2] <= own'[s[1]].gen
         /\ KickedLearnsNoSeed'
         /\ \A h \in Members : \A i \in 1..Len(outq'[h]) :
              outq'[h][i].type \in {"CHAT", "KEY"} /\ KeyMade(outq[h][i])'
<1> DEFINE g == own[m].gen
<1>1. /\ own \in [Members -> Chain] /\ outq \in [Members -> Seq(Frame)]
      /\ known \in [Members -> SUBSET (Members \X Nat)] /\ fresh \subseteq Members \X Nat
      /\ g \in Nat /\ \A h \in Members : own[h].gen \in Nat
  BY DEF Typed, Chain
<1>2. f.from \in Members /\ f.gen \in Nat BY DEF Frame
<1>3. \A h \in Members : \A s \in known[h] :
        s[1] \in Members /\ s[2] \in Nat /\ s[2] <= own[s[1]].gen
  <2> SUFFICES ASSUME NEW h \in Members, NEW s \in known[h]
               PROVE  s[1] \in Members /\ s[2] \in Nat /\ s[2] <= own[s[1]].gen
    OBVIOUS
  <2>1. s \in Members \X Nat BY <1>1
  <2>2. QED BY <2>1 DEF SeedInv
<1>4. known[Target] \cap fresh = {} BY DEF SeedInv, KickedLearnsNoSeed
<1>5. ASSUME NEW gen \in Nat, publishSenderKey(m, gen), own' \in [Members -> Chain],
             \A h \in Members : own[h].gen <= own'[h].gen, gen <= own'[m].gen
      PROVE  /\ outq' \in [Members -> Seq(Frame)]
             /\ \A h \in Members : \A i \in 1..Len(outq'[h]) :
                  outq'[h][i].type \in {"CHAT", "KEY"} /\ KeyMade(outq[h][i])'
  BY <1>5, SeedSent
<1>6. ASSUME UNCHANGED <<own, outq>>
      PROVE  \A h \in Members : \A i \in 1..Len(outq'[h]) :
               outq'[h][i].type \in {"CHAT", "KEY"} /\ KeyMade(outq[h][i])'
  BY <1>6 DEF SeedInv, KeyMade
<1>7. CASE ReceiveEpoch(m, f)
  <2>1. /\ f.type = "EPOCH" /\ own' = [own EXCEPT ![m] = NewRatchet(g + 1)]
        /\ publishSenderKey(m, g + 1) /\ known' = known
        /\ fresh' = IF f.body = 1 THEN fresh \cup {<<m, g + 1>>} ELSE fresh
    BY <1>7 DEF ReceiveEpoch, PublishNewSeed
  <2>2. NewRatchet(g + 1) \in Chain /\ NewRatchet(g + 1).gen = g + 1
    BY <1>1 DEF NewRatchet, Chain
  <2>3. /\ own' \in [Members -> Chain] /\ own'[m].gen = g + 1
        /\ \A h \in Members : h # m => own'[h].gen = own[h].gen
    BY <1>1, <2>1, <2>2
  <2>4. \A h \in Members : own[h].gen <= own'[h].gen
    <3> SUFFICES ASSUME NEW h \in Members PROVE own[h].gen <= own'[h].gen OBVIOUS
    <3>1. CASE h = m BY <1>1, <2>3, <3>1
    <3>2. CASE h # m BY <1>1, <2>3, <3>2
    <3>3. QED BY <3>1, <3>2
  <2> HIDE DEF g
  <2>5. \A s \in fresh' : s \in fresh \/ s = <<m, g + 1>> BY <2>1
  <2>6. ASSUME NEW s \in fresh', s \notin fresh
        PROVE  kicked /\ m # Target /\ own[s[1]].gen < s[2]
    <3>1. s = <<m, g + 1>> BY <2>5, <2>6
    <3>2. f.body = 1 BY <2>1, <2>6
    <3>3. own[s[1]].gen < s[2] BY <1>1, <3>1 DEF g
    <3>4. QED BY <2>1, <3>2, <3>3 DEF MayReach
  <2>7. fresh' \subseteq Members \X Nat BY <1>1, <2>1
  <2>8. \A h \in Members : \A s \in known'[h] : s[2] <= own'[s[1]].gen
    <3> SUFFICES ASSUME NEW h \in Members, NEW s \in known[h] PROVE s[2] <= own'[s[1]].gen
      BY <2>1
    <3>1. s[1] \in Members /\ s[2] \in Nat /\ s[2] <= own[s[1]].gen BY <1>3
    <3>2. own[s[1]].gen <= own'[s[1]].gen BY <2>4, <3>1
    <3>3. own[s[1]].gen \in Nat /\ own'[s[1]].gen \in Nat BY <1>1, <2>3, <3>1 DEF Chain
    <3>4. QED BY <3>1, <3>2, <3>3
  <2>9. KickedLearnsNoSeed'
    <3> SUFFICES ASSUME NEW s \in known[Target], s \in fresh' PROVE FALSE
      BY <2>1 DEF KickedLearnsNoSeed
    <3>1. s \notin fresh BY <1>4
    <3>2. own[s[1]].gen < s[2] BY <2>6, <3>1
    <3>3. s[1] \in Members /\ s[2] \in Nat /\ s[2] <= own[s[1]].gen
      BY <1>3, SessionAssumption
    <3>4. own[s[1]].gen \in Nat BY <1>1, <3>3
    <3>5. QED BY <3>2, <3>3, <3>4
  <2>10. /\ outq' \in [Members -> Seq(Frame)]
         /\ \A h \in Members : \A i \in 1..Len(outq'[h]) :
              outq'[h][i].type \in {"CHAT", "KEY"} /\ KeyMade(outq[h][i])'
    <3>1. g + 1 \in Nat /\ g + 1 <= own'[m].gen BY <1>1, <2>3
    <3>2. QED BY <1>5, <2>1, <2>3, <2>4, <3>1
  <2>11. QED BY <1>1, <2>1, <2>3, <2>4, <2>6, <2>7, <2>8, <2>9, <2>10
<1>8. CASE ReceiveUserList(m, f) \/ ReceiveUnreadable(m, f)
  <2>1. publishSenderKey(m, g) /\ UNCHANGED <<own, known, fresh>>
    BY <1>8 DEF ReceiveUserList, ReceiveUnreadable, clientVars, history
  <2>2. own' \in [Members -> Chain] /\ g <= own'[m].gen
        /\ \A h \in Members : own[h].gen <= own'[h].gen
    BY <1>1, <2>1
  <2>3. KickedLearnsNoSeed' BY <1>4, <2>1 DEF KickedLearnsNoSeed
  <2>4. /\ outq' \in [Members -> Seq(Frame)]
        /\ \A h \in Members : \A i \in 1..Len(outq'[h]) :
             outq'[h][i].type \in {"CHAT", "KEY"} /\ KeyMade(outq[h][i])'
    BY <1>1, <1>5, <2>1, <2>2
  <2>5. QED BY <1>1, <1>3, <2>1, <2>2, <2>3, <2>4
<1>9. CASE ReceiveKey(m, f)
  <2>1. /\ f.type = "KEY" /\ UNCHANGED <<own, fresh, outq>>
        /\ known' = [known EXCEPT ![m] = known[m] \cup {<<f.from, f.gen>>}]
    BY <1>9 DEF ReceiveKey, AfterAdopt
  <2>2. known' \in [Members -> SUBSET (Members \X Nat)] BY <1>1, <1>2, <2>1
  <2>3. \A h \in Members : \A s \in known'[h] :
          s \in known[h] \/ (h = m /\ s = <<f.from, f.gen>>)
    BY <1>1, <2>1
  <2>4. f.gen <= own[f.from].gen /\ (m = Target => <<f.from, f.gen>> \notin fresh)
    BY <2>1 DEF MayReach, KeyMade
  <2>5. \A h \in Members : \A s \in known'[h] : s[2] <= own'[s[1]].gen
    <3> SUFFICES ASSUME NEW h \in Members, NEW s \in known'[h] PROVE s[2] <= own[s[1]].gen
      BY <2>1
    <3>1. CASE s \in known[h] BY <1>3, <3>1
    <3>2. CASE s = <<f.from, f.gen>> BY <2>4, <3>2
    <3>3. QED BY <2>3, <3>1, <3>2
  <2>6. KickedLearnsNoSeed'
    <3> SUFFICES ASSUME NEW s \in known'[Target], s \in fresh PROVE FALSE
      BY <2>1 DEF KickedLearnsNoSeed
    <3>1. s \in known[Target] \/ (m = Target /\ s = <<f.from, f.gen>>) BY <2>3, SessionAssumption
    <3>2. QED BY <1>4, <2>4, <3>1
  <2>7. \A h \in Members : own[h].gen <= own'[h].gen BY <1>1, <2>1
  <2>8. QED BY <1>1, <1>6, <2>1, <2>2, <2>5, <2>6, <2>7
<1>10. CASE ReceiveChat(m, f)
  <2>1. UNCHANGED <<own, fresh, outq, known>> BY <1>10 DEF ReceiveChat
  <2>2. KickedLearnsNoSeed' BY <1>4, <2>1 DEF KickedLearnsNoSeed
  <2>3. \A h \in Members : own[h].gen <= own'[h].gen BY <1>1, <2>1
  <2>4. QED BY <1>1, <1>3, <1>6, <2>1, <2>2, <2>3
<1>11. QED BY <1>7, <1>8, <1>9, <1>10

LEMMA ReadKeeps ==
  ASSUME Typed, SeedInv, NEW m \in Members, ReadPump(m) PROVE Typed' /\ SeedInv'
<1> DEFINE q == down[m]
<1>1. /\ q # <<>> /\ down' = [down EXCEPT ![m] = Tail(q)]
      /\ UNCHANGED <<registered, casts, cast, relay, kicked, said>>
  BY DEF ReadPump, hubVars
<1>2. q \in Seq(Frame) BY DEF Typed
<1>3. /\ Head(q) \in Frame /\ Tail(q) \in Seq(Frame)
      /\ 1 \in 1..Len(q) /\ Head(q) = q[1]
      /\ \A i \in 1..Len(Tail(q)) : i + 1 \in 1..Len(q) /\ Tail(q)[i] = q[i + 1]
  BY <1>1, <1>2, TailLeft
<1>4. \A h \in Members : \A i \in 1..Len(down[h]) : MayReach(h, down[h][i]) BY DEF SeedInv
<1>5. PICK f \in Frame : f = Head(q) BY <1>3
<1>6. /\ MayReach(m, f)
      /\ \/ ReceiveEpoch(m, f) \/ ReceiveUserList(m, f) \/ ReceiveKey(m, f)
         \/ ReceiveChat(m, f) \/ ReceiveUnreadable(m, f)
  BY <1>3, <1>4, <1>5 DEF ReadPump
<1>7. /\ own' \in [Members -> Chain] /\ outq' \in [Members -> Seq(Frame)]
      /\ known' \in [Members -> SUBSET (Members \X Nat)] /\ fresh' \subseteq Members \X Nat
      /\ \A h \in Members : own[h].gen <= own'[h].gen
      /\ \A s \in fresh' : s \in fresh \/ (kicked /\ own[s[1]].gen < s[2])
      /\ \A h \in Members : \A s \in known'[h] : s[2] <= own'[s[1]].gen
      /\ KickedLearnsNoSeed'
      /\ \A h \in Members : \A i \in 1..Len(outq'[h]) :
           outq'[h][i].type \in {"CHAT", "KEY"} /\ KeyMade(outq[h][i])'
  BY <1>6, ReceiveKeeps
<1>8. /\ down' \in [Members -> Seq(Frame)] /\ down'[m] = Tail(q)
      /\ \A h \in Members : h # m => down'[h] = down[h]
  BY <1>1, <1>3 DEF Typed
<1>9. Typed' BY <1>1, <1>7, <1>8 DEF Typed
<1>10. \A h \in Members : \A i \in 1..Len(down'[h]) : MayReach(h, down'[h][i])
  <2> SUFFICES ASSUME NEW h \in Members, NEW i \in 1..Len(down'[h]) PROVE MayReach(h, down'[h][i])
    OBVIOUS
  <2>1. CASE h = m
    <3>1. i \in 1..Len(Tail(q)) BY <1>8, <2>1
    <3>2. i + 1 \in 1..Len(q) /\ down'[h][i] = q[i + 1] BY <1>3, <1>8, <2>1, <3>1
    <3>3. QED BY <1>4, <2>1, <3>2
  <2>2. CASE h # m BY <1>4, <1>8, <2>2
  <2>3. QED BY <2>1, <2>2
<1>11. \A h, p \in Members : p \in relay'[h].to => MayReach(p, relay'[h].frame)
  BY <1>1 DEF SeedInv
<1>12. UNCHANGED <<registered, cast, kicked>> BY <1>1
<1>13. SeedInv' BY <1>7, <1>9, <1>10, <1>11, <1>12, ClientStep
<1>14. QED BY <1>9, <1>13

\* What a received frame makes a member send: its seed, or nothing.
LEMMA ReceiveSends ==
  ASSUME Typed, NEW m \in Members, NEW f \in Frame,
         \/ ReceiveEpoch(m, f) \/ ReceiveUserList(m, f) \/ ReceiveKey(m, f)
         \/ ReceiveChat(m, f) \/ ReceiveUnreadable(m, f)
  PROVE  \/ UNCHANGED <<own, outq, lost>>
         \/ UNCHANGED own /\ publishSenderKey(m, own[m].gen)
         \/ /\ own' = [own EXCEPT ![m] = NewRatchet(own[m].gen + 1)]
            /\ publishSenderKey(m, own[m].gen + 1)
<1>1. CASE ReceiveEpoch(m, f) BY <1>1 DEF ReceiveEpoch, PublishNewSeed
<1>2. CASE ReceiveUserList(m, f) BY <1>2 DEF ReceiveUserList, clientVars
<1>3. CASE ReceiveKey(m, f)
  <2>1. UNCHANGED <<own, outq, lost>> BY <1>3 DEF ReceiveKey, AfterAdopt
  <2>2. QED BY <2>1
<1>4. CASE ReceiveChat(m, f)
  <2>1. UNCHANGED <<own, outq, lost>> BY <1>4 DEF ReceiveChat
  <2>2. QED BY <2>1
<1>5. CASE ReceiveUnreadable(m, f) BY <1>5 DEF ReceiveUnreadable
<1>6. QED BY <1>1, <1>2, <1>3, <1>4, <1>5

\* What Connect's goroutine has read is a seed its member has made.
ExportInv ==
  /\ publishes \in [Members -> 0..Publishes] /\ exported \in [Members -> Nat]
  /\ \A m \in Members : /\ exported[m] <= own[m].gen
                        /\ exported[m] # 0 => publishes[m] > 0

LEMMA ExportInit == Init => ExportInv
<1> SUFFICES ASSUME Init PROVE ExportInv OBVIOUS
<1>1. publishes \in [Members -> 0..Publishes]
  <2>1. 0 \in 0..Publishes /\ Publishes \in 0..Publishes BY SessionAssumption
  <2>2. QED BY <2>1 DEF Init
<1>2. /\ exported \in [Members -> Nat]
      /\ \A m \in Members : exported[m] = 0 /\ own[m].gen = 1
  BY DEF Init, NewRatchet
<1>3. QED BY <1>1, <1>2 DEF ExportInv

\* A member's generations only rise.
LEMMA OwnRises ==
  ASSUME Typed, [Next]_vars PROVE \A h \in Members : own[h].gen <= own'[h].gen
<1>1. \A h \in Members : own[h] \in Chain /\ own[h].gen \in Nat BY DEF Typed, Chain
<1>2. ASSUME UNCHANGED own PROVE \A h \in Members : own[h].gen <= own'[h].gen
  BY <1>1, <1>2
<1>3. ASSUME NEW event \in Events, MembershipEvent(event) PROVE UNCHANGED own
  BY <1>3 DEF MembershipEvent, clientVars
<1>4. CASE Hub
  <2>1. UNCHANGED own BY <1>4 DEF Hub, StartCast, CastTo, RelayTo, clientVars
  <2>2. QED BY <1>2, <2>1
<1>5. ASSUME NEW m \in Members, Say(m) \/ ExportSeed(m) \/ EnqueueSeed(m) PROVE UNCHANGED own
  BY <1>5 DEF Say, ExportSeed, EnqueueSeed, clientVars
<1>6. ASSUME NEW m \in Members, WritePump(m)
      PROVE  \A h \in Members : own[h].gen <= own'[h].gen
  <2> DEFINE c == [own[m] EXCEPT !.step = own[m].step + 1]
  <2>1. own' = own \/ own' = [own EXCEPT ![m] = c] BY <1>6 DEF WritePump
  <2>2. c.gen = own[m].gen BY <1>1 DEF Chain
  <2> HIDE DEF c
  <2>3. \A h \in Members : own'[h].gen = own[h].gen BY <2>1, <2>2 DEF Typed
  <2>4. QED BY <1>1, <2>3
<1>7. ASSUME NEW m \in Members, ReadPump(m)
      PROVE  \A h \in Members : own[h].gen <= own'[h].gen
  <2>1. down[m] # <<>> /\ down[m] \in Seq(Frame) BY <1>7 DEF ReadPump, Typed
  <2>2. PICK f \in Frame : f = Head(down[m]) BY <2>1
  <2>3. \/ ReceiveEpoch(m, f) \/ ReceiveUserList(m, f) \/ ReceiveKey(m, f)
        \/ ReceiveChat(m, f) \/ ReceiveUnreadable(m, f)
    BY <1>7, <2>2 DEF ReadPump
  <2>4. own' = own \/ own' = [own EXCEPT ![m] = NewRatchet(own[m].gen + 1)]
    BY <2>3, ReceiveSends
  <2>5. NewRatchet(own[m].gen + 1).gen = own[m].gen + 1 BY DEF NewRatchet
  <2>6. \A h \in Members : own'[h].gen = own[h].gen \/ own'[h].gen = own[h].gen + 1
    BY <2>4, <2>5 DEF Typed
  <2>7. QED BY <1>1, <2>6
<1>8. CASE UNCHANGED vars BY <1>2, <1>8 DEF vars, clientVars
<1>9. QED BY <1>2, <1>3, <1>4, <1>5, <1>6, <1>7, <1>8 DEF Next

LEMMA ExportStep ==
  Typed /\ Typed' /\ ExportInv /\ [Next]_vars => ExportInv'
<1> SUFFICES ASSUME Typed, Typed', ExportInv, [Next]_vars PROVE ExportInv' OBVIOUS
<1>1. \A h \in Members : /\ own[h].gen <= own'[h].gen /\ own[h].gen \in Nat /\ own'[h].gen \in Nat
                         /\ exported[h] \in Nat /\ publishes[h] \in 0..Publishes
  BY OwnRises DEF Typed, Chain, ExportInv
<1>2. ASSUME UNCHANGED starter PROVE ExportInv'
  <2>1. UNCHANGED <<publishes, exported>> BY <1>2 DEF starter
  <2>2. \A h \in Members : exported[h] <= own'[h].gen BY <1>1 DEF ExportInv
  <2>3. QED BY <2>1, <2>2 DEF ExportInv
<1>3. ASSUME NEW m \in Members, ExportSeed(m) PROVE ExportInv'
  <2>1. /\ publishes[m] > 0 /\ exported' = [exported EXCEPT ![m] = own[m].gen]
        /\ UNCHANGED <<publishes, own>>
    BY <1>3 DEF ExportSeed, clientVars
  <2>2. QED BY <1>1, <2>1 DEF ExportInv
<1>4. ASSUME NEW m \in Members, EnqueueSeed(m) PROVE ExportInv'
  <2>1. /\ exported[m] # 0 /\ exported' = [exported EXCEPT ![m] = 0]
        /\ publishes' = [publishes EXCEPT ![m] = publishes[m] - 1]
        /\ UNCHANGED own
    BY <1>4 DEF EnqueueSeed, clientVars
  <2>2. publishes[m] > 0 BY <2>1 DEF ExportInv
  <2>3. publishes[m] - 1 \in 0..Publishes BY <1>1, <2>2, SessionAssumption
  <2>4. publishes' \in [Members -> 0..Publishes] /\ exported' \in [Members -> Nat]
    BY <2>1, <2>3 DEF ExportInv
  <2>5. exported'[m] = 0 /\ \A h \in Members : h # m =>
          exported'[h] = exported[h] /\ publishes'[h] = publishes[h]
    BY <2>1 DEF ExportInv
  <2>6. \A h \in Members : exported'[h] <= own'[h].gen /\ (exported'[h] # 0 => publishes'[h] > 0)
    BY <1>1, <2>1, <2>5 DEF ExportInv
  <2>7. QED BY <2>4, <2>6 DEF ExportInv
<1>5. ASSUME NEW event \in Events, MembershipEvent(event) PROVE UNCHANGED starter
  BY <1>5 DEF MembershipEvent
<1>6. CASE Hub
  <2>1. UNCHANGED starter BY <1>6 DEF Hub, StartCast, CastTo, RelayTo
  <2>2. QED BY <1>2, <2>1
<1>7. ASSUME NEW m \in Members, Say(m) \/ WritePump(m) \/ ReadPump(m) PROVE UNCHANGED starter
  BY <1>7 DEF Say, WritePump, ReadPump
<1>8. CASE UNCHANGED vars BY <1>2, <1>8 DEF vars
<1>9. QED BY <1>2, <1>3, <1>4, <1>5, <1>6, <1>7, <1>8 DEF Next

\* Connect's goroutine reads the seed, and sends it later.
LEMMA StarterKeeps ==
  ASSUME Typed, SeedInv, ExportInv, NEW m \in Members, ExportSeed(m) \/ EnqueueSeed(m)
  PROVE  Typed' /\ SeedInv'
<1>1. CASE ExportSeed(m)
  <2>1. UNCHANGED <<registered, casts, cast, relay, kicked, down, outq, own, said, known, fresh>>
    BY <1>1 DEF ExportSeed, hubVars, clientVars, history
  <2>2. QED BY <2>1 DEF Typed, SeedInv, MayReach, KeyMade, KickedLearnsNoSeed
<1>2. CASE EnqueueSeed(m)
  <2>1. /\ UNCHANGED <<registered, casts, cast, relay, kicked, down, own, said, known, fresh>>
        /\ publishSenderKey(m, exported[m])
    BY <1>2 DEF EnqueueSeed, hubVars, clientVars, history
  <2>2. exported[m] \in Nat /\ exported[m] <= own'[m].gen BY <2>1 DEF ExportInv
  <2>3. own' \in [Members -> Chain] /\ \A h \in Members : own[h].gen <= own'[h].gen
    BY <2>1 DEF Typed, Chain
  <2>4. /\ outq' \in [Members -> Seq(Frame)]
        /\ \A h \in Members : \A i \in 1..Len(outq'[h]) :
             outq'[h][i].type \in {"CHAT", "KEY"} /\ KeyMade(outq[h][i])'
    BY <2>1, <2>2, <2>3, SeedSent
  <2>5. Typed' BY <2>1, <2>4 DEF Typed
  <2>6. KickedLearnsNoSeed' BY <2>1 DEF SeedInv, KickedLearnsNoSeed
  <2>7. /\ \A h, p \in Members : p \in relay'[h].to => MayReach(p, relay'[h].frame)
        /\ \A h \in Members : \A i \in 1..Len(down'[h]) : MayReach(h, down'[h][i])
        /\ \A h \in Members : \A s \in known'[h] : s[2] <= own'[s[1]].gen
        /\ \A s \in fresh' : s \in fresh \/ (kicked /\ own[s[1]].gen < s[2])
    BY <2>1 DEF SeedInv
  <2>8. UNCHANGED <<registered, cast, kicked>> BY <2>1
  <2>9. SeedInv' BY <2>3, <2>4, <2>5, <2>6, <2>7, <2>8, ClientStep
  <2>10. QED BY <2>5, <2>9
<1>3. QED BY <1>1, <1>2

LEMMA GroupStep ==
  Typed /\ SeedInv /\ ExportInv /\ [Next]_vars => Typed' /\ SeedInv' /\ ExportInv'
<1> SUFFICES ASSUME Typed, SeedInv, ExportInv, [Next]_vars PROVE Typed' /\ SeedInv'
  BY ExportStep
<1>1. ASSUME NEW event \in Events, MembershipEvent(event) PROVE Typed' /\ SeedInv'
  BY <1>1, EventKeeps
<1>2. CASE StartCast BY <1>2, StartCastKeeps
<1>3. ASSUME NEW p \in Members, CastTo(p) PROVE Typed' /\ SeedInv'
  BY <1>3, CastReaches, DeliveryKeeps
<1>4. ASSUME NEW p \in Members, NEW m \in Members, RelayTo(m, p) PROVE Typed' /\ SeedInv'
  BY <1>4, RelayReaches, DeliveryKeeps
<1>5. ASSUME NEW m \in Members, Say(m) PROVE Typed' /\ SeedInv' BY <1>5, SayKeeps
<1>6. ASSUME NEW m \in Members, WritePump(m) PROVE Typed' /\ SeedInv' BY <1>6, WriteKeeps
<1>7. ASSUME NEW m \in Members, ReadPump(m) PROVE Typed' /\ SeedInv' BY <1>7, ReadKeeps
<1>8. CASE UNCHANGED vars
  <2>1. UNCHANGED <<registered, casts, cast, relay, kicked, down, outq, own, said, known, fresh>>
    BY <1>8 DEF vars, hubVars, clientVars, history
  <2>2. QED BY <2>1 DEF Typed, SeedInv, MayReach, KeyMade, KickedLearnsNoSeed
<1>9. ASSUME NEW m \in Members, ExportSeed(m) \/ EnqueueSeed(m) PROVE Typed' /\ SeedInv'
  BY <1>9, StarterKeeps
<1>10. QED BY <1>1, <1>2, <1>3, <1>4, <1>5, <1>6, <1>7, <1>8, <1>9 DEF Next, Hub

\* "A kicked client should not decrypt new traffic if members rotated"
\* (THREAT_MODEL.md:39), for every group, queue size and number of changes: the
\* hub takes the kicked client from its table before it broadcasts EPOCH, so a
\* seed made for that EPOCH is relayed to a table without it.
THEOREM KickedGetsNoSeed == Spec => []KickedLearnsNoSeed
<1>1. SeedInv => KickedLearnsNoSeed BY DEF SeedInv
<1>2. QED BY <1>1, GroupInit, ExportInit, GroupStep, PTL DEF Spec

-----------------------------------------------------------------------------
(* What flushPending computes: a loop over the queue, by induction. *)

LEMMA LeastOf ==
  ASSUME NEW T, T \subseteq Nat, T # {} PROVE \E x \in T : \A y \in T : x <= y
<1> DEFINE R == OpToRel(<, Nat)
<1>1. IsWellFoundedOn(R, Nat) BY NatLessThanWellFounded
<1> HIDE DEF R
<1>2. PICK x \in T : \A y \in T : ~(<<y, x>> \in R) BY <1>1, WFMin
<1>3. ASSUME NEW y \in T PROVE x <= y
  <2>1. <<y, x>> \notin R BY <1>2
  <2>2. ~(y < x) BY <2>1 DEF R, OpToRel
  <2>3. QED BY <2>2
<1>4. QED BY <1>3

Progress == [chain : Chain, read : Seq(Frame), left : Seq(Frame)]
AtStart(gen) == [chain |-> NewRatchet(gen), read |-> <<>>, left |-> <<>>]

\* r holds the loop's progress after each of the first n frames of the queue.
Loop(r, q, p, gen, n) ==
  r = [i \in 0..n |-> IF i = 0 THEN AtStart(gen) ELSE TryOne(r[i - 1], p, q[i])]

LEMMA StartTyped == ASSUME NEW gen \in Nat PROVE AtStart(gen) \in Progress
<1>1. NewRatchet(gen) \in Chain BY DEF NewRatchet, Chain
<1>2. <<>> \in Seq(Frame) OBVIOUS
<1>3. QED BY <1>1, <1>2 DEF AtStart, Progress

LEMMA AdvancedTyped ==
  ASSUME NEW ch \in Chain, NEW n \in Nat
  PROVE  Advanced(ch, n) \in Chain /\ Advanced(ch, n).gen = ch.gen
<1>1. ch.gen \in Nat /\ ch.step \in Nat /\ ch.skipped \subseteq Nat BY DEF Chain
<1>2. ch.skipped \ {n} \in SUBSET Nat /\ ch.skipped \cup (ch.step..(n - 1)) \in SUBSET Nat /\ n + 1 \in Nat
  BY <1>1
<1>3. CASE n \in ch.skipped
  <2>1. Advanced(ch, n) = [ch EXCEPT !.skipped = ch.skipped \ {n}] BY <1>3 DEF Advanced
  <2>2. QED BY <1>2, <2>1 DEF Chain
<1>4. CASE n \notin ch.skipped
  <2> DEFINE sk == ch.skipped \cup (ch.step..(n - 1))
  <2>1. Advanced(ch, n) = [ch EXCEPT !.step = n + 1, !.skipped = sk]
    BY <1>4 DEF Advanced
  <2>2. sk \in SUBSET Nat BY <1>2
  <2> HIDE DEF sk
  <2>3. QED BY <1>2, <2>1, <2>2 DEF Chain
<1>5. QED BY <1>3, <1>4

\* One message: it is left, or dropped, or read.
LEMMA TryOneDoes ==
  ASSUME NEW a \in Progress, NEW p \in Members, NEW f \in Frame
  PROVE  /\ TryOne(a, p, f) \in Progress
         /\ TryOne(a, p, f).chain.gen = a.chain.gen
         /\ \/ /\ f.from # p
               /\ TryOne(a, p, f).left = Append(a.left, f) /\ TryOne(a, p, f).read = a.read
            \/ /\ f.from = p /\ TryOne(a, p, f).left = a.left
               /\ \/ TryOne(a, p, f).read = a.read
                  \/ TryOne(a, p, f).read = Append(a.read, f)
<1>1. a.chain \in Chain /\ a.read \in Seq(Frame) /\ a.left \in Seq(Frame) BY DEF Progress
<1>2. Append(a.read, f) \in Seq(Frame) /\ Append(a.left, f) \in Seq(Frame) BY <1>1
<1>3. f.step \in Nat BY DEF Frame
<1>4. CASE f.from # p
  <2> DEFINE l == Append(a.left, f)
  <2>1. TryOne(a, p, f) = [a EXCEPT !.left = l] BY <1>4 DEF TryOne
  <2>2. l \in Seq(Frame) BY <1>2
  <2> HIDE DEF l
  <2>3. QED BY <1>4, <2>1, <2>2 DEF Progress, l
<1>5. CASE f.from = p /\ ~Usable(a.chain, f.step)
  <2>1. TryOne(a, p, f) = a BY <1>5 DEF TryOne
  <2>2. QED BY <1>5, <2>1
<1>6. CASE f.from = p /\ Usable(a.chain, f.step)
  <2> DEFINE c == Advanced(a.chain, f.step)
             r == IF Decrypts(a.chain, f) THEN Append(a.read, f) ELSE a.read
  <2>1. TryOne(a, p, f) = [a EXCEPT !.chain = c, !.read = r] BY <1>6 DEF TryOne
  <2>2. c \in Chain /\ c.gen = a.chain.gen BY <1>1, <1>3, AdvancedTyped
  <2>3. r \in Seq(Frame) /\ (r = a.read \/ r = Append(a.read, f)) BY <1>1, <1>2
  <2> HIDE DEF c, r
  <2>4. QED BY <1>6, <2>1, <2>2, <2>3 DEF Progress
<1>7. QED BY <1>4, <1>5, <1>6

LEMMA LoopTyped ==
  ASSUME NEW q \in Seq(Frame), NEW p \in Members, NEW gen \in Nat, NEW n \in 0..Len(q),
         NEW r, Loop(r, q, p, gen, n)
  PROVE  /\ r[0] = AtStart(gen)
         /\ \A i \in 1..n : r[i] = TryOne(r[i - 1], p, q[i])
         /\ \A i \in 0..n : r[i] \in Progress
<1>1. r[0] = AtStart(gen) BY DEF Loop
<1>2. \A i \in 1..n : r[i] = TryOne(r[i - 1], p, q[i]) BY DEF Loop
<1>3. \A i \in 1..n : q[i] \in Frame BY ElementOfSeq
<1> DEFINE T == {i \in 0..n : r[i] \notin Progress}
<1>4. ASSUME T # {} PROVE FALSE
  <2>1. PICK x \in T : \A y \in T : x <= y
    <3>1. T \subseteq Nat OBVIOUS
    <3> HIDE DEF T
    <3>2. QED BY <1>4, <3>1, LeastOf
  <2>2. x # 0 BY <1>1, StartTyped
  <2>3. x \in 1..n /\ x - 1 \in 0..n /\ x - 1 < x BY <2>2
  <2>4. r[x - 1] \in Progress BY <2>1, <2>3
  <2>5. r[x] \in Progress BY <1>2, <1>3, <2>3, <2>4, TryOneDoes
  <2>6. QED BY <2>5
<1>5. QED BY <1>1, <1>2, <1>4

LEMMA LoopRuns ==
  ASSUME NEW q \in Seq(Frame), NEW p \in Members, NEW gen \in Nat
  PROVE  \E r : Loop(r, q, p, gen, Len(q))
<1> DEFINE n == Len(q)
           T == {i \in 0..n : ~\E r : Loop(r, q, p, gen, i)}
<1>1. n \in Nat OBVIOUS
<1> HIDE DEF n
<1>2. ASSUME T # {} PROVE FALSE
  <2>1. PICK x \in T : \A y \in T : x <= y
    <3>1. T \subseteq Nat BY <1>1
    <3> HIDE DEF T
    <3>2. QED BY <1>2, <3>1, LeastOf
  <2>2. x \in 0..n /\ ~\E r : Loop(r, q, p, gen, x) OBVIOUS
  <2>3. CASE x = 0
    <3> DEFINE r == [i \in 0..0 |-> AtStart(gen)]
    <3>1. r = [i \in 0..0 |-> IF i = 0 THEN AtStart(gen) ELSE TryOne(r[i - 1], p, q[i])]
      OBVIOUS
    <3>2. Loop(r, q, p, gen, 0) BY <3>1 DEF Loop
    <3>3. QED BY <2>2, <2>3, <3>2
  <2>4. CASE x # 0
    <3>1. x - 1 \in 0..n /\ x - 1 < x /\ x \in Nat BY <1>1, <2>2, <2>4
    <3>2. PICK r : Loop(r, q, p, gen, x - 1) BY <2>1, <3>1
    <3> DEFINE e == [i \in 0..x |-> IF i = x THEN TryOne(r[x - 1], p, q[x]) ELSE r[i]]
    <3>3. ASSUME NEW i \in 0..x
          PROVE  e[i] = IF i = 0 THEN AtStart(gen) ELSE TryOne(e[i - 1], p, q[i])
      <4>1. CASE i = x
        <5>1. e[i] = TryOne(r[x - 1], p, q[x]) /\ e[x - 1] = r[x - 1] BY <2>4, <3>1, <4>1
        <5>2. QED BY <2>4, <4>1, <5>1
      <4>2. CASE i # x /\ i # 0
        <5>1. i \in 0..(x - 1) /\ i - 1 \in 0..x /\ i - 1 # x BY <3>1, <4>2
        <5>2. e[i] = r[i] /\ e[i - 1] = r[i - 1] BY <4>2, <5>1
        <5>3. r[i] = TryOne(r[i - 1], p, q[i]) BY <3>2, <4>2, <5>1 DEF Loop
        <5>4. QED BY <4>2, <5>2, <5>3
      <4>3. CASE i = 0
        <5>1. 0 \in 0..(x - 1) BY <2>4, <3>1
        <5>2. r[0] = AtStart(gen) BY <3>2, <5>1 DEF Loop
        <5>3. QED BY <2>4, <4>3, <5>2
      <4>4. QED BY <4>1, <4>2, <4>3
    <3>4. e = [i \in 0..x |-> e[i]] OBVIOUS
    <3> HIDE DEF e
    <3>5. Loop(e, q, p, gen, x) BY <3>3, <3>4 DEF Loop
    <3>6. QED BY <2>2, <3>5
  <2>5. QED BY <2>3, <2>4
<1>3. QED BY <1>1, <1>2 DEF n

\* s is some of the first n frames of q, in their order.
Part(s, q, n) ==
  \E h \in [1..Len(s) -> 1..n] :
    /\ \A i, j \in 1..Len(s) : i < j => h[i] < h[j]
    /\ \A i \in 1..Len(s) : s[i] = q[h[i]]

LEMMA PartGrows ==
  ASSUME NEW q, NEW n \in Nat, NEW s \in Seq(Frame), Part(s, q, n)
  PROVE  Part(s, q, n + 1)
<1> DEFINE l == Len(s)
<1>1. PICK h \in [1..l -> 1..n] : /\ \A i, j \in 1..l : i < j => h[i] < h[j]
                                  /\ \A i \in 1..l : s[i] = q[h[i]]
  BY DEF Part
<1>2. h \in [1..l -> 1..(n + 1)] OBVIOUS
<1>3. QED BY <1>1, <1>2 DEF Part

LEMMA PartAppends ==
  ASSUME NEW q \in Seq(Frame), NEW n \in Nat, NEW s \in Seq(Frame), Part(s, q, n),
         n + 1 \in 1..Len(q)
  PROVE  Part(Append(s, q[n + 1]), q, n + 1)
<1> DEFINE l == Len(s)  t == Append(s, q[n + 1])
<1>1. PICK h \in [1..l -> 1..n] : /\ \A i, j \in 1..l : i < j => h[i] < h[j]
                                  /\ \A i \in 1..l : s[i] = q[h[i]]
  BY DEF Part
<1>2. q[n + 1] \in Frame BY ElementOfSeq
<1>3. /\ l \in Nat /\ t \in Seq(Frame) /\ Len(t) = l + 1 /\ t[l + 1] = q[n + 1]
      /\ \A i \in 1..l : t[i] = s[i]
  BY <1>2, AppendProperties
<1> HIDE DEF l, t
<1> DEFINE e == [i \in 1..(l + 1) |-> IF i = l + 1 THEN n + 1 ELSE h[i]]
<1>4. ASSUME NEW i \in 1..(l + 1) PROVE i = l + 1 \/ (i \in 1..l /\ i # l + 1) BY <1>3
<1>5. e[l + 1] = n + 1 /\ \A i \in 1..l : e[i] = h[i] /\ h[i] \in 1..n BY <1>3
<1>6. e \in [1..(l + 1) -> 1..(n + 1)]
  <2>1. e = [i \in 1..(l + 1) |-> e[i]] OBVIOUS
  <2> HIDE DEF e
  <2>2. ASSUME NEW i \in 1..(l + 1) PROVE e[i] \in 1..(n + 1)
    <3>1. CASE i = l + 1 BY <1>5, <3>1
    <3>2. CASE i \in 1..l
      <4>1. e[i] \in 1..n BY <1>5, <3>2
      <4>2. QED BY <4>1
    <3>3. QED BY <1>4, <3>1, <3>2
  <2>3. QED BY <2>1, <2>2
<1> HIDE DEF e
<1>7. ASSUME NEW i \in 1..(l + 1), NEW j \in 1..(l + 1), i < j PROVE e[i] < e[j]
  <2>1. i \in 1..l BY <1>3, <1>7
  <2>2. CASE j = l + 1 BY <1>5, <2>1, <2>2
  <2>3. CASE j \in 1..l BY <1>1, <1>5, <1>7, <2>1, <2>3
  <2>4. QED BY <1>4, <2>2, <2>3
<1>8. \A i \in 1..(l + 1) : t[i] = q[e[i]] BY <1>1, <1>3, <1>4, <1>5
<1>9. Part(t, q, n + 1) BY <1>3, <1>6, <1>7, <1>8 DEF Part
<1>10. QED BY <1>9 DEF t

\* The loop's invariant after n frames.
Tried(a, q, p, gen, n) ==
  /\ a.chain.gen = gen
  /\ Part(a.read, q, n) /\ Part(a.left, q, n)
  /\ \A i \in 1..Len(a.read) : a.read[i].from = p
  /\ \A i \in 1..Len(a.left) : a.left[i].from # p

LEMMA TriedAtStart ==
  ASSUME NEW q, NEW p, NEW gen \in Nat PROVE Tried(AtStart(gen), q, p, gen, 0)
<1> DEFINE a == AtStart(gen)
<1>1. a.chain.gen = gen /\ a.read = <<>> /\ a.left = <<>> BY DEF AtStart, NewRatchet
<1>2. Part(<<>>, q, 0)
  <2>1. Len(<<>>) = 0 /\ \A i : i \notin 1..0 OBVIOUS
  <2>2. [i \in 1..0 |-> i] \in [1..0 -> 1..0] OBVIOUS
  <2>3. QED BY <2>1, <2>2 DEF Part
<1>3. \A i : i \notin 1..Len(<<>>) OBVIOUS
<1> HIDE DEF a
<1>4. QED BY <1>1, <1>2, <1>3 DEF Tried, a

LEMMA TriedNext ==
  ASSUME NEW q \in Seq(Frame), NEW p \in Members, NEW gen \in Nat, NEW n \in Nat,
         n + 1 \in 1..Len(q), NEW a \in Progress, Tried(a, q, p, gen, n)
  PROVE  Tried(TryOne(a, p, q[n + 1]), q, p, gen, n + 1)
<1>1. PICK f \in Frame : f = q[n + 1] BY ElementOfSeq
<1>2. a.read \in Seq(Frame) /\ a.left \in Seq(Frame) BY DEF Progress
<1>3. PICK t \in Progress :
        /\ t = TryOne(a, p, f) /\ t.chain.gen = a.chain.gen
        /\ \/ f.from # p /\ t.left = Append(a.left, f) /\ t.read = a.read
           \/ f.from = p /\ t.left = a.left /\ (t.read = a.read \/ t.read = Append(a.read, f))
  BY TryOneDoes
<1>4. /\ Part(a.read, q, n + 1) /\ Part(a.left, q, n + 1)
      /\ Part(Append(a.read, f), q, n + 1) /\ Part(Append(a.left, f), q, n + 1)
  BY <1>1, <1>2, PartGrows, PartAppends DEF Tried
<1>5. Part(t.read, q, n + 1) /\ Part(t.left, q, n + 1) BY <1>3, <1>4
<1>6. ASSUME NEW s \in Seq(Frame), NEW i \in 1..Len(Append(s, f))
      PROVE  (i \in 1..Len(s) /\ Append(s, f)[i] = s[i]) \/ Append(s, f)[i] = f
  <2>1. /\ Len(s) \in Nat /\ Len(Append(s, f)) = Len(s) + 1 /\ Append(s, f)[Len(s) + 1] = f
        /\ \A j \in 1..Len(s) : Append(s, f)[j] = s[j]
    BY AppendProperties
  <2> DEFINE l == Len(s)
  <2>2. i \in 1..(l + 1) BY <2>1
  <2>3. i \in 1..l \/ i = l + 1
    <3>1. l \in Nat BY <2>1
    <3> HIDE DEF l
    <3>2. QED BY <2>2, <3>1
  <2>4. QED BY <2>1, <2>3
<1>7. \A i \in 1..Len(t.read) : t.read[i].from = p
  <2>1. CASE t.read = a.read BY <2>1 DEF Tried
  <2>2. CASE f.from = p /\ t.read = Append(a.read, f)
    <3> DEFINE s == a.read
    <3>1. \A i \in 1..Len(s) : s[i].from = p /\ s \in Seq(Frame) BY <1>2 DEF Tried
    <3>2. \A i \in 1..Len(Append(s, f)) :
            (i \in 1..Len(s) /\ Append(s, f)[i] = s[i]) \/ Append(s, f)[i] = f
      BY <1>2, <1>6
    <3> HIDE DEF s
    <3>3. \A i \in 1..Len(Append(s, f)) : Append(s, f)[i].from = p BY <2>2, <3>1, <3>2
    <3>4. QED BY <2>2, <3>3 DEF s
  <2>3. QED BY <1>3, <2>1, <2>2
<1>8. \A i \in 1..Len(t.left) : t.left[i].from # p
  <2>1. CASE t.left = a.left BY <2>1 DEF Tried
  <2>2. CASE f.from # p /\ t.left = Append(a.left, f)
    <3> DEFINE s == a.left
    <3>1. \A i \in 1..Len(s) : s[i].from # p BY DEF Tried
    <3>2. \A i \in 1..Len(Append(s, f)) :
            (i \in 1..Len(s) /\ Append(s, f)[i] = s[i]) \/ Append(s, f)[i] = f
      BY <1>2, <1>6
    <3> HIDE DEF s
    <3>3. \A i \in 1..Len(Append(s, f)) : Append(s, f)[i].from # p BY <2>2, <3>1, <3>2
    <3>4. QED BY <2>2, <3>3 DEF s
  <2>3. QED BY <1>3, <2>1, <2>2
<1>9. Tried(t, q, p, gen, n + 1) BY <1>3, <1>5, <1>7, <1>8 DEF Tried
<1>10. QED BY <1>1, <1>3, <1>9

\* flushPending: the new chain keeps the seed it was given; what it reads are
\* messages of that sender and what it leaves those of the others, in order.
LEMMA FlushedDoes ==
  ASSUME NEW q \in Seq(Frame), NEW p \in Members, NEW gen \in Nat
  PROVE  Flushed(q, p, gen) \in Progress /\ Tried(Flushed(q, p, gen), q, p, gen, Len(q))
<1> DEFINE n == Len(q)
           r == CHOOSE f : Loop(f, q, p, gen, n)
<1>1. n \in Nat /\ n \in 0..n OBVIOUS
<1>2. Loop(r, q, p, gen, n) BY LoopRuns
<1>3. Flushed(q, p, gen) = r[n] BY DEF Flushed, Loop, AtStart
<1> HIDE DEF r
<1>4. /\ r[0] = AtStart(gen)
      /\ \A i \in 1..n : r[i] = TryOne(r[i - 1], p, q[i])
      /\ \A i \in 0..n : r[i] \in Progress
  BY <1>1, <1>2, LoopTyped
<1> DEFINE T == {i \in 0..n : ~Tried(r[i], q, p, gen, i)}
<1>5. ASSUME T # {} PROVE FALSE
  <2>1. PICK x \in T : \A y \in T : x <= y
    <3>1. T \subseteq Nat OBVIOUS
    <3> HIDE DEF T
    <3>2. QED BY <1>5, <3>1, LeastOf
  <2>2. x \in 0..n /\ ~Tried(r[x], q, p, gen, x) OBVIOUS
  <2>3. x # 0 BY <1>4, <2>2, TriedAtStart
  <2>4. PICK k \in Nat : x = k + 1
    <3>1. x - 1 \in Nat /\ x = (x - 1) + 1 BY <2>2, <2>3
    <3>2. QED BY <3>1
  <2>5. k \in 0..n /\ k < x /\ k + 1 \in 1..n /\ (k + 1) - 1 = k BY <1>1, <2>2, <2>4
  <2>6. Tried(r[k], q, p, gen, k) BY <2>1, <2>5
  <2>7. r[k + 1] = TryOne(r[k], p, q[k + 1]) BY <1>4, <2>5
  <2>8. r[k] \in Progress BY <1>4, <2>5
  <2>9. Tried(r[k + 1], q, p, gen, k + 1) BY <2>5, <2>6, <2>7, <2>8, TriedNext
  <2>10. QED BY <2>2, <2>4, <2>9
<1>6. Tried(r[n], q, p, gen, n) BY <1>1, <1>5
<1>7. QED BY <1>1, <1>3, <1>4, <1>6

-----------------------------------------------------------------------------
(* The types of the whole state. *)

Name(f) == <<f.from, f.body>>

ReadingTyped ==
  /\ chains \in [Members -> [Members -> Chain]]
  /\ pending \in [Members -> Seq(Frame)] /\ shown \in [Members -> Seq(Members \X Nat)]
  /\ lost \subseteq Members

LEMMA BodiesAre ==
  ASSUME NEW s \in Seq(Frame)
  PROVE  /\ Bodies(s) \in Seq(Members \X Nat) /\ Len(Bodies(s)) = Len(s)
         /\ \A i \in 1..Len(s) : Bodies(s)[i] = Name(s[i])
<1> DEFINE n == Len(s)  t == [i \in 1..n |-> <<s[i].from, s[i].body>>]
<1>1. n \in Nat OBVIOUS
<1>2. \A i \in 1..n : s[i] \in Frame BY ElementOfSeq
<1>3. \A i \in 1..n : <<s[i].from, s[i].body>> \in Members \X Nat BY <1>2 DEF Frame
<1>4. t \in [1..n -> Members \X Nat] BY <1>3
<1>5. \A i \in 1..n : t[i] = Name(s[i]) BY DEF Name
<1>6. Bodies(s) = t BY DEF Bodies
<1> HIDE DEF n, t
<1>7. t \in Seq(Members \X Nat) /\ Len(t) = n BY <1>1, <1>4
<1>8. QED BY <1>5, <1>6, <1>7 DEF n

LEMMA LostTyped ==
  ASSUME ReadingTyped, NEW f \in Frame, UNCHANGED lost \/ Dropped(f)
  PROVE  lost' \subseteq Members
<1>1. f.from \in Members BY DEF Frame
<1>2. QED BY <1>1 DEF ReadingTyped, Dropped

LEMMA LostSeedTyped ==
  ASSUME ReadingTyped, NEW m \in Members, NEW gen \in Nat, publishSenderKey(m, gen)
  PROVE  lost' \subseteq Members
<1>1. KeyFrame(m, gen) \in Frame BY DEF KeyFrame, Frame
<1>2. lost' \in {lost \ {m}, lost \cup {m}} \/ Dropped(KeyFrame(m, gen)) BY DEF publishSenderKey
<1>3. CASE lost' \in {lost \ {m}, lost \cup {m}} BY <1>3 DEF ReadingTyped
<1>4. QED BY <1>1, <1>2, <1>3, LostTyped

\* What a member has queued and shown after a frame f: nothing new, or f's
\* message shown, or f queued, or what flushPending makes of the queue.
Handles(m, f) ==
  \/ UNCHANGED <<pending, shown>>
  \/ /\ f.type = "CHAT" /\ UNCHANGED pending
     /\ shown' = [shown EXCEPT ![m] = Append(shown[m], Name(f))]
  \/ /\ f.type = "CHAT" /\ UNCHANGED shown
     /\ pending' = [pending EXCEPT ![m] = Queued(pending[m], f)]
  \/ /\ f.type = "KEY"
     /\ pending' = [pending EXCEPT ![m] = Flushed(pending[m], f.from, f.gen).left]
     /\ shown' = [shown EXCEPT
                    ![m] = shown[m] \o Bodies(Flushed(pending[m], f.from, f.gen).read)]

\* What its chains are afterwards: a seed is forgotten, or replaced by f's.
Rechains(m, f) ==
  /\ \A h \in Members : h # m => chains'[h] = chains[h]
  /\ \A p \in Members :
       IF f.type = "KEY" /\ f.from = p THEN chains'[m][p].gen = f.gen
       ELSE chains'[m][p].gen \in {0, chains[m][p].gen}

LEMMA ReceiveDoes ==
  ASSUME Typed, ReadingTyped, NEW m \in Members, NEW f \in Frame,
         \/ ReceiveEpoch(m, f) \/ ReceiveUserList(m, f) \/ ReceiveKey(m, f)
         \/ ReceiveChat(m, f) \/ ReceiveUnreadable(m, f)
  PROVE  ReadingTyped' /\ Handles(m, f) /\ Rechains(m, f)
<1>1. /\ chains \in [Members -> [Members -> Chain]]
      /\ pending \in [Members -> Seq(Frame)] /\ shown \in [Members -> Seq(Members \X Nat)]
      /\ lost \subseteq Members
  BY DEF ReadingTyped
<1>2. f.from \in Members /\ f.gen \in Nat /\ f.step \in Nat /\ f.body \in Nat BY DEF Frame
<1>3. own[m].gen \in Nat BY DEF Typed, Chain
<1>4. ASSUME NEW gen \in Nat, publishSenderKey(m, gen) PROVE lost' \subseteq Members
  BY <1>4, LostSeedTyped
<1>5. CASE ReceiveEpoch(m, f)
  <2>1. /\ f.type # "KEY" /\ chains' = [chains EXCEPT ![m] = [p \in Members |-> NoChain]]
        /\ publishSenderKey(m, own[m].gen + 1) /\ UNCHANGED <<pending, shown>>
    BY <1>5 DEF ReceiveEpoch, PublishNewSeed
  <2>2. NoChain \in Chain /\ NoChain.gen = 0 BY DEF NoChain, Chain
  <2> DEFINE c == [p \in Members |-> NoChain]
  <2>3. c \in [Members -> Chain] /\ \A p \in Members : c[p].gen = 0 BY <2>2
  <2> HIDE DEF c
  <2>4. chains' \in [Members -> [Members -> Chain]] /\ chains'[m] = c
        /\ \A h \in Members : h # m => chains'[h] = chains[h]
    BY <1>1, <2>1, <2>3 DEF c
  <2>5. lost' \subseteq Members BY <1>3, <1>4, <2>1
  <2>6. Rechains(m, f) BY <2>1, <2>3, <2>4 DEF Rechains
  <2>7. QED BY <1>1, <2>1, <2>4, <2>5, <2>6 DEF ReadingTyped, Handles
<1>6. CASE ReceiveUserList(m, f)
  <2>1. /\ f.type # "KEY" /\ publishSenderKey(m, own[m].gen)
        /\ UNCHANGED <<chains, pending, shown>>
    BY <1>6 DEF ReceiveUserList, clientVars
  <2>2. lost' \subseteq Members BY <1>3, <1>4, <2>1
  <2>3. QED BY <1>1, <2>1, <2>2 DEF ReadingTyped, Handles, Rechains
<1>7. CASE ReceiveKey(m, f)
  <2> DEFINE d == Flushed(pending[m], f.from, f.gen)
  <2>1. /\ f.type = "KEY" /\ chains' = [chains EXCEPT ![m][f.from] = d.chain]
        /\ pending' = [pending EXCEPT ![m] = d.left]
        /\ shown' = [shown EXCEPT ![m] = shown[m] \o Bodies(d.read)] /\ UNCHANGED lost
    BY <1>7 DEF ReceiveKey, LeftPending, AfterAdopt
  <2>2. d \in Progress /\ d.chain.gen = f.gen BY <1>1, <1>2, FlushedDoes DEF Tried
  <2>3. Handles(m, f) BY <2>1 DEF Handles
  <2> HIDE DEF d
  <2>4. d.chain \in Chain /\ d.left \in Seq(Frame) /\ d.read \in Seq(Frame)
    BY <2>2 DEF Progress
  <2>5. shown[m] \o Bodies(d.read) \in Seq(Members \X Nat)
    BY <1>1, <2>4, BodiesAre, ConcatProperties
  <2>6. pending' \in [Members -> Seq(Frame)] /\ shown' \in [Members -> Seq(Members \X Nat)]
    BY <1>1, <2>1, <2>4, <2>5
  <2> DEFINE c == [chains[m] EXCEPT ![f.from] = d.chain]
  <2>7. chains' = [chains EXCEPT ![m] = c] BY <1>1, <2>1
  <2>8. /\ c \in [Members -> Chain] /\ c[f.from].gen = f.gen
        /\ \A p \in Members : p # f.from => c[p] = chains[m][p]
    BY <1>1, <1>2, <2>2, <2>4
  <2> HIDE DEF c
  <2>9. chains' \in [Members -> [Members -> Chain]] /\ chains'[m] = c
        /\ \A h \in Members : h # m => chains'[h] = chains[h]
    BY <1>1, <2>7, <2>8
  <2>10. Rechains(m, f) BY <2>1, <2>8, <2>9 DEF Rechains
  <2>11. QED BY <1>1, <2>1, <2>3, <2>6, <2>9, <2>10 DEF ReadingTyped
<1>8. CASE ReceiveChat(m, f)
  <2> DEFINE a == Advanced(chains[m][f.from], f.step)
  <2>1. /\ f.type = "CHAT" /\ chains' = [chains EXCEPT ![m][f.from] = a]
        /\ UNCHANGED <<pending, lost>>
        /\ \/ shown' = [shown EXCEPT ![m] = Append(shown[m], Name(f))]
           \/ UNCHANGED shown
    BY <1>8 DEF ReceiveChat, Name
  <2>2. a \in Chain /\ a.gen = chains[m][f.from].gen BY <1>1, <1>2, AdvancedTyped
  <2> HIDE DEF a
  <2>3. Handles(m, f) BY <2>1 DEF Handles
  <2>4. Name(f) \in Members \X Nat BY <1>2 DEF Name
  <2>5. Append(shown[m], Name(f)) \in Seq(Members \X Nat) BY <1>1, <2>4
  <2>6. shown' \in [Members -> Seq(Members \X Nat)] BY <1>1, <2>1, <2>5
  <2> DEFINE c == [chains[m] EXCEPT ![f.from] = a]
  <2>7. chains' = [chains EXCEPT ![m] = c] BY <1>1, <2>1
  <2>8. /\ c \in [Members -> Chain]
        /\ \A p \in Members : c[p].gen = chains[m][p].gen
    BY <1>1, <1>2, <2>2
  <2> HIDE DEF c
  <2>9. chains' \in [Members -> [Members -> Chain]] /\ chains'[m] = c
        /\ \A h \in Members : h # m => chains'[h] = chains[h]
    BY <1>1, <2>7, <2>8
  <2>10. Rechains(m, f) BY <2>1, <2>8, <2>9 DEF Rechains
  <2>11. QED BY <1>1, <2>1, <2>3, <2>6, <2>9, <2>10 DEF ReadingTyped
<1>9. CASE ReceiveUnreadable(m, f)
  <2>1. /\ f.type = "CHAT" /\ pending' = [pending EXCEPT ![m] = Queued(pending[m], f)]
        /\ publishSenderKey(m, own[m].gen) /\ UNCHANGED <<chains, shown>>
    BY <1>9 DEF ReceiveUnreadable
  <2>2. Queued(pending[m], f) \in Seq(Frame)
    <3>1. pending[m] \in Seq(Frame) BY <1>1
    <3>2. CASE Len(pending[m]) > PendingMax
      <4>1. pending[m] # <<>> BY <3>2, SessionAssumption
      <4>2. Tail(pending[m]) \in Seq(Frame) BY <3>1, <4>1
      <4>3. QED BY <3>2, <4>2 DEF Queued
    <3>3. CASE ~(Len(pending[m]) > PendingMax) BY <3>1, <3>3 DEF Queued
    <3>4. QED BY <3>2, <3>3
  <2>3. pending' \in [Members -> Seq(Frame)] BY <1>1, <2>1, <2>2
  <2>4. lost' \subseteq Members BY <1>3, <1>4, <2>1
  <2>5. QED BY <1>1, <2>1, <2>3, <2>4 DEF ReadingTyped, Handles, Rechains
<1>10. QED BY <1>5, <1>6, <1>7, <1>8, <1>9

\* Every other step leaves what clients have read alone.
LEMMA ReadingStep == Typed /\ ExportInv /\ ReadingTyped /\ [Next]_vars => ReadingTyped'
<1> SUFFICES ASSUME Typed, ExportInv, ReadingTyped, [Next]_vars PROVE ReadingTyped' OBVIOUS
<1>1. ASSUME UNCHANGED <<chains, pending, shown>>, lost' \subseteq Members PROVE ReadingTyped'
  BY <1>1 DEF ReadingTyped
<1>2. ASSUME NEW event \in Events, MembershipEvent(event) PROVE ReadingTyped'
  BY <1>2, <1>1 DEF MembershipEvent, clientVars, ReadingTyped
<1>3. CASE StartCast BY <1>3, <1>1 DEF StartCast, clientVars, ReadingTyped
<1>4. ASSUME NEW p \in Members, NEW f \in Frame, Deliver(p, f) PROVE lost' \subseteq Members
  <2>1. UNCHANGED lost \/ Dropped(f) BY <1>4 DEF Deliver
  <2>2. QED BY <2>1, LostTyped
<1>5. ASSUME NEW p \in Members, CastTo(p) PROVE ReadingTyped'
  <2>1. cast.frame \in Frame BY DEF Typed, Broadcast
  <2>2. Deliver(p, cast.frame) /\ UNCHANGED <<chains, pending, shown>>
    BY <1>5 DEF CastTo, clientVars
  <2>3. QED BY <1>1, <1>4, <2>1, <2>2
<1>6. ASSUME NEW p \in Members, NEW m \in Members, RelayTo(m, p) PROVE ReadingTyped'
  <2>1. relay[m].frame \in Frame BY DEF Typed, Broadcast
  <2>2. Deliver(p, relay[m].frame) /\ UNCHANGED <<chains, pending, shown>>
    BY <1>6 DEF RelayTo, clientVars
  <2>3. QED BY <1>1, <1>4, <2>1, <2>2
<1>7. ASSUME NEW m \in Members, Say(m) PROVE ReadingTyped'
  BY <1>7, <1>1 DEF Say, clientVars, ReadingTyped
<1>8. ASSUME NEW m \in Members, WritePump(m) PROVE ReadingTyped'
  BY <1>8, <1>1 DEF WritePump, ReadingTyped
<1>9. ASSUME NEW m \in Members, ReadPump(m) PROVE ReadingTyped'
  <2>1. down[m] # <<>> /\ down[m] \in Seq(Frame) BY <1>9 DEF ReadPump, Typed
  <2>2. PICK f \in Frame : f = Head(down[m]) BY <2>1
  <2>3. \/ ReceiveEpoch(m, f) \/ ReceiveUserList(m, f) \/ ReceiveKey(m, f)
        \/ ReceiveChat(m, f) \/ ReceiveUnreadable(m, f)
    BY <1>9, <2>2 DEF ReadPump
  <2>4. QED BY <2>3, ReceiveDoes
<1>10. ASSUME NEW m \in Members, ExportSeed(m) PROVE ReadingTyped'
  BY <1>10, <1>1 DEF ExportSeed, clientVars, ReadingTyped
<1>11. ASSUME NEW m \in Members, EnqueueSeed(m) PROVE ReadingTyped'
  <2>1. publishSenderKey(m, exported[m]) /\ UNCHANGED <<chains, pending, shown>>
    BY <1>11 DEF EnqueueSeed, clientVars
  <2>2. exported[m] \in Nat BY DEF ExportInv
  <2>3. QED BY <1>1, <2>1, <2>2, LostSeedTyped
<1>12. CASE UNCHANGED vars BY <1>12 DEF vars, clientVars, ReadingTyped
<1>13. QED BY <1>2, <1>3, <1>5, <1>6, <1>7, <1>8, <1>9, <1>10, <1>11, <1>12 DEF Next, Hub

LEMMA ReadingInit == Init => ReadingTyped
<1> SUFFICES ASSUME Init PROVE ReadingTyped OBVIOUS
<1>1. NewRatchet(1) \in Chain BY DEF NewRatchet, Chain
<1>2. chains \in [Members -> [Members -> Chain]] BY <1>1 DEF Init
<1>3. pending \in [Members -> Seq(Frame)] /\ shown \in [Members -> Seq(Members \X Nat)]
  BY DEF Init
<1>4. QED BY <1>2, <1>3 DEF Init, ReadingTyped

\* The pumps, the chains and the hub's relay keep their types, for every group,
\* window and queue size; what flushPending makes of the queued messages too.
THEOREM GroupTyped == Spec => []TypeOK
<1>1. Typed /\ ExportInv /\ ReadingTyped => TypeOK BY DEF Typed, ExportInv, ReadingTyped, TypeOK
<1>2. QED BY <1>1, GroupInit, ExportInit, GroupStep, ReadingInit, ReadingStep, PTL DEF Spec

-----------------------------------------------------------------------------
(* No message is shown twice. *)

\* What has passed a member's SendChan o and its handler's relay r to m, of the
\* top messages it has typed: the ones on their way have later numbers.
Before(num, m, o, r, top) ==
  /\ num <= top
  /\ \A i \in 1..Len(o) : o[i].type = "CHAT" => num < o[i].body
  /\ m \in r.to /\ r.frame.type = "CHAT" => num < r.frame.body
Passed(m, p, num) == Before(num, m, outq[p], relay[p], said[p])

\* p's messages leave it in the order of their numbers.
SentInOrder(p, o, r, top) ==
  /\ \A i \in 1..Len(o) : o[i].from = p /\ (o[i].type = "CHAT" => o[i].body <= top)
  /\ \A i, j \in 1..Len(o) :
       i < j /\ o[i].type = "CHAT" /\ o[j].type = "CHAT" => o[i].body < o[j].body
  /\ r.to # {} =>
       /\ r.frame.from = p
       /\ r.frame.type = "CHAT" =>
            /\ r.frame.body <= top
            /\ \A i \in 1..Len(o) : o[i].type = "CHAT" => r.frame.body < o[i].body

\* A message that has reached m is in one place there.
Apart(D, P, S) ==
  /\ \A i, j \in 1..Len(D) :
       D[i].type = "CHAT" /\ D[j].type = "CHAT" /\ Name(D[i]) = Name(D[j]) => i = j
  /\ \A i, j \in 1..Len(P) : Name(P[i]) = Name(P[j]) => i = j
  /\ \A i, j \in 1..Len(S) : S[i] = S[j] => i = j
  /\ \A i \in 1..Len(D), j \in 1..Len(P) : D[i].type = "CHAT" => Name(D[i]) # Name(P[j])
  /\ \A i \in 1..Len(D), j \in 1..Len(S) : D[i].type = "CHAT" => Name(D[i]) # S[j]
  /\ \A i \in 1..Len(P), j \in 1..Len(S) : Name(P[i]) # S[j]

Arrived(m) ==
  /\ \A i \in 1..Len(down[m]) :
       down[m][i].type = "CHAT" => Passed(m, down[m][i].from, down[m][i].body)
  /\ \A i \in 1..Len(pending[m]) : Passed(m, pending[m][i].from, pending[m][i].body)
  /\ \A i \in 1..Len(shown[m]) : Passed(m, shown[m][i][1], shown[m][i][2])

OnceInv ==
  /\ cast.to # {} => cast.frame.type \in {"EPOCH", "USER_LIST"}
  /\ \A p \in Members : SentInOrder(p, outq[p], relay[p], said[p])
  /\ \A m \in Members : Arrived(m) /\ Apart(down[m], pending[m], shown[m])

LEMMA AppendAt ==
  ASSUME NEW A, NEW s \in Seq(A), NEW x \in A
  PROVE  /\ Append(s, x) \in Seq(A) /\ Len(s) \in Nat /\ Len(Append(s, x)) = Len(s) + 1
         /\ \A i \in 1..Len(Append(s, x)) :
              \/ i \in 1..Len(s) /\ Append(s, x)[i] = s[i]
              \/ i = Len(s) + 1 /\ Append(s, x)[i] = x
<1> DEFINE n == Len(s)  t == Append(s, x)
<1>1. /\ t \in Seq(A) /\ n \in Nat /\ Len(t) = n + 1 /\ t[n + 1] = x
      /\ \A i \in 1..n : t[i] = s[i]
  BY AppendProperties
<1> HIDE DEF n, t
<1>2. \A i \in 1..(n + 1) : i \in 1..n \/ i = n + 1 BY <1>1
<1>3. \A i \in 1..Len(t) : (i \in 1..n /\ t[i] = s[i]) \/ (i = n + 1 /\ t[i] = x)
  BY <1>1, <1>2
<1>4. QED BY <1>1, <1>3 DEF n, t

\* The head of m's queue is read.
LEMMA ApartTail ==
  ASSUME NEW D \in Seq(Frame), NEW P \in Seq(Frame), NEW S \in Seq(Members \X Nat),
         Apart(D, P, S), D # <<>>
  PROVE  /\ Apart(Tail(D), P, S)
         /\ Head(D).type = "CHAT" =>
              /\ \A i \in 1..Len(Tail(D)) :
                   Tail(D)[i].type = "CHAT" => Name(Tail(D)[i]) # Name(Head(D))
              /\ \A i \in 1..Len(P) : Name(P[i]) # Name(Head(D))
              /\ \A i \in 1..Len(S) : S[i] # Name(Head(D))
<1> DEFINE T == Tail(D)  x == Head(D)
<1>1. /\ 1 \in 1..Len(D) /\ x = D[1]
      /\ \A i \in 1..Len(T) : i + 1 \in 1..Len(D) /\ T[i] = D[i + 1]
  BY TailLeft
<1>2. \A i \in 1..Len(T) : i \in Nat /\ i + 1 # 1
  <2>1. Len(T) \in Nat BY TailLeft
  <2>2. QED BY <2>1
<1>3. \A i, j \in 1..Len(T) : i + 1 = j + 1 => i = j BY <1>2
<1> HIDE DEF T, x
<1>4. Apart(T, P, S)
  <2>1. ASSUME NEW i \in 1..Len(T), NEW j \in 1..Len(T), T[i].type = "CHAT",
               T[j].type = "CHAT", Name(T[i]) = Name(T[j])
        PROVE  i = j
    <3>1. /\ i + 1 \in 1..Len(D) /\ T[i] = D[i + 1]
          /\ j + 1 \in 1..Len(D) /\ T[j] = D[j + 1]
      BY <1>1
    <3>2. \A a, b \in 1..Len(D) :
            D[a].type = "CHAT" /\ D[b].type = "CHAT" /\ Name(D[a]) = Name(D[b]) => a = b
      BY DEF Apart
    <3>3. D[i + 1].type = "CHAT" /\ D[j + 1].type = "CHAT" /\ Name(D[i + 1]) = Name(D[j + 1])
      BY <2>1, <3>1
    <3>4. i + 1 = j + 1 BY <3>1, <3>2, <3>3, Zenon
    <3>5. QED BY <1>3, <3>4
  <2>2. ASSUME NEW i \in 1..Len(T), T[i].type = "CHAT"
        PROVE  /\ \A j \in 1..Len(P) : Name(T[i]) # Name(P[j])
               /\ \A j \in 1..Len(S) : Name(T[i]) # S[j]
    <3>1. PICK k \in 1..Len(D) : T[i] = D[k] BY <1>1
    <3>2. QED BY <2>2, <3>1 DEF Apart
  <2>3. QED BY <2>1, <2>2 DEF Apart
<1>5. x.type = "CHAT" => /\ \A i \in 1..Len(T) : T[i].type = "CHAT" => Name(T[i]) # Name(x)
                         /\ \A i \in 1..Len(P) : Name(P[i]) # Name(x)
                         /\ \A i \in 1..Len(S) : S[i] # Name(x)
  BY <1>1, <1>2 DEF Apart
<1>6. QED BY <1>4, <1>5 DEF T, x

\* A message that is nowhere is put at the end of one of the three.
LEMMA ApartGrows ==
  ASSUME NEW D \in Seq(Frame), NEW P \in Seq(Frame), NEW S \in Seq(Members \X Nat),
         Apart(D, P, S), NEW f \in Frame,
         f.type = "CHAT" =>
           /\ \A i \in 1..Len(D) : D[i].type = "CHAT" => Name(D[i]) # Name(f)
           /\ \A i \in 1..Len(P) : Name(P[i]) # Name(f)
           /\ \A i \in 1..Len(S) : S[i] # Name(f)
  PROVE  /\ Apart(Append(D, f), P, S)
         /\ f.type = "CHAT" => Apart(D, Append(P, f), S) /\ Apart(D, P, Append(S, Name(f)))
<1>1. Name(f) \in Members \X Nat BY DEF Name, Frame
<1>2. Apart(Append(D, f), P, S)
  <2> DEFINE E == Append(D, f)  n == Len(D)
  <2>1. \A i \in 1..Len(E) : (i \in 1..n /\ E[i] = D[i]) \/ (i = n + 1 /\ E[i] = f)
    BY AppendAt
  <2>2. n \in Nat BY AppendAt
  <2> HIDE DEF E, n
  <2>3. \A i \in 1..n : i # n + 1 BY <2>2
  <2>4. Apart(E, P, S)
    <3>1. ASSUME NEW i \in 1..Len(E), NEW j \in 1..Len(E), E[i].type = "CHAT",
                 E[j].type = "CHAT", Name(E[i]) = Name(E[j])
          PROVE  i = j
      <4>1. CASE i \in 1..n /\ E[i] = D[i] /\ j \in 1..n /\ E[j] = D[j]
        BY <3>1, <4>1 DEF Apart, n
      <4>2. CASE i = n + 1 /\ j = n + 1 BY <4>2
      <4>3. CASE i = n + 1 /\ E[i] = f /\ j \in 1..n /\ E[j] = D[j] BY <3>1, <4>3 DEF n
      <4>4. CASE j = n + 1 /\ E[j] = f /\ i \in 1..n /\ E[i] = D[i] BY <3>1, <4>4 DEF n
      <4>5. QED BY <2>1, <4>1, <4>2, <4>3, <4>4
    <3>2. ASSUME NEW i \in 1..Len(E), E[i].type = "CHAT"
          PROVE  /\ \A j \in 1..Len(P) : Name(E[i]) # Name(P[j])
                 /\ \A j \in 1..Len(S) : Name(E[i]) # S[j]
      <4>1. CASE i \in 1..n /\ E[i] = D[i] BY <3>2, <4>1 DEF Apart, n
      <4>2. CASE E[i] = f BY <3>2, <4>2
      <4>3. QED BY <2>1, <4>1, <4>2
    <3>3. QED BY <3>1, <3>2 DEF Apart
  <2>5. QED BY <2>4 DEF E
<1>3. ASSUME f.type = "CHAT" PROVE Apart(D, Append(P, f), S)
  <2> DEFINE E == Append(P, f)  n == Len(P)
  <2>1. \A i \in 1..Len(E) : (i \in 1..n /\ E[i] = P[i]) \/ (i = n + 1 /\ E[i] = f)
    BY AppendAt
  <2> HIDE DEF E, n
  <2>2. Apart(D, E, S) BY <1>3, <2>1 DEF Apart, n
  <2>3. QED BY <2>2 DEF E
<1>4. ASSUME f.type = "CHAT" PROVE Apart(D, P, Append(S, Name(f)))
  <2> DEFINE x == Name(f)  E == Append(S, x)  n == Len(S)
  <2>1. \A i \in 1..Len(E) : (i \in 1..n /\ E[i] = S[i]) \/ (i = n + 1 /\ E[i] = x)
    BY <1>1, AppendAt
  <2> HIDE DEF E, n
  <2>2. Apart(D, P, E) BY <1>3, <1>4, <2>1 DEF Apart, n
  <2>3. QED BY <2>2 DEF E
<1>5. QED BY <1>2, <1>3, <1>4

\* queuePending drops the oldest.
LEMMA ApartQueued ==
  ASSUME NEW D \in Seq(Frame), NEW P \in Seq(Frame), NEW S \in Seq(Members \X Nat),
         Apart(D, P, S), P # <<>>
  PROVE  Apart(D, Tail(P), S)
<1> DEFINE T == Tail(P)
<1>1. \A i \in 1..Len(T) : i + 1 \in 1..Len(P) /\ T[i] = P[i + 1] BY TailLeft
<1>2. Len(T) \in Nat BY TailLeft
<1> HIDE DEF T
<1>3. \A i, j \in 1..Len(T) : i + 1 = j + 1 => i = j BY <1>2
<1>4. Apart(D, T, S) BY <1>1, <1>3 DEF Apart
<1>5. QED BY <1>4 DEF T

\* flushPending shows some of the sender's messages and leaves the others'.
LEMMA ApartFlushed ==
  ASSUME NEW D \in Seq(Frame), NEW P \in Seq(Frame), NEW S \in Seq(Members \X Nat),
         Apart(D, P, S), NEW p \in Members, NEW gen \in Nat, NEW d \in Progress,
         Tried(d, P, p, gen, Len(P))
  PROVE  Apart(D, d.left, S \o Bodies(d.read))
<1> DEFINE L == d.left  R == d.read  B == Bodies(d.read)  T == S \o B  n == Len(S)
<1>1. L \in Seq(Frame) /\ R \in Seq(Frame) BY DEF Progress
<1>2. B \in Seq(Members \X Nat) /\ Len(B) = Len(R) /\ \A i \in 1..Len(R) : B[i] = Name(R[i])
  BY <1>1, BodiesAre
<1>3. /\ n \in Nat /\ Len(R) \in Nat /\ Len(T) = n + Len(R)
      /\ \A i \in 1..(n + Len(R)) : T[i] = IF i <= n THEN S[i] ELSE B[i - n]
  <2>1. S \in Seq(Members \X Nat) /\ B \in Seq(Members \X Nat) BY <1>2
  <2> HIDE DEF B
  <2>2. /\ Len(S \o B) = Len(S) + Len(B)
        /\ \A i \in 1..(Len(S) + Len(B)) : (S \o B)[i] = IF i <= Len(S) THEN S[i] ELSE B[i - Len(S)]
    BY <2>1, ConcatProperties
  <2>3. Len(S) \in Nat /\ Len(R) \in Nat BY <1>1
  <2>4. QED BY <1>2, <2>2, <2>3
<1>4. PICK hl \in [1..Len(L) -> 1..Len(P)] :
        /\ \A i, j \in 1..Len(L) : i < j => hl[i] < hl[j]
        /\ \A i \in 1..Len(L) : L[i] = P[hl[i]]
  BY DEF Tried, Part
<1>5. PICK hr \in [1..Len(R) -> 1..Len(P)] :
        /\ \A i, j \in 1..Len(R) : i < j => hr[i] < hr[j]
        /\ \A i \in 1..Len(R) : R[i] = P[hr[i]]
  BY DEF Tried, Part
<1>6. /\ \A i \in 1..Len(R) : R[i].from = p
      /\ \A i \in 1..Len(L) : L[i].from # p
  BY DEF Tried
<1>7. Len(L) \in Nat /\ Len(P) \in Nat BY <1>1
<1> HIDE DEF L, R, B, T, n
<1>8. ASSUME NEW i \in 1..Len(L), NEW j \in 1..Len(L), hl[i] = hl[j] PROVE i = j
  <2>1. hl[i] \in Nat
    <3>1. hl[i] \in 1..Len(P) OBVIOUS
    <3>2. QED BY <1>7, <3>1
  <2>2. ~(i < j) /\ ~(j < i)
    <3>1. (i < j => hl[i] < hl[j]) /\ (j < i => hl[j] < hl[i]) BY <1>4
    <3>2. ~(hl[i] < hl[j]) /\ ~(hl[j] < hl[i]) BY <1>8, <2>1
    <3>3. QED BY <3>1, <3>2
  <2>3. QED BY <1>7, <2>2
<1>9. ASSUME NEW i \in 1..Len(R), NEW j \in 1..Len(R), hr[i] = hr[j] PROVE i = j
  <2>1. hr[i] \in Nat
    <3>1. hr[i] \in 1..Len(P) OBVIOUS
    <3>2. QED BY <1>7, <3>1
  <2>2. ~(i < j) /\ ~(j < i)
    <3>1. (i < j => hr[i] < hr[j]) /\ (j < i => hr[j] < hr[i]) BY <1>5
    <3>2. ~(hr[i] < hr[j]) /\ ~(hr[j] < hr[i]) BY <1>9, <2>1
    <3>3. QED BY <3>1, <3>2
  <2>3. QED BY <1>3, <2>2
<1>10. ASSUME NEW i \in 1..Len(T)
       PROVE  \/ i \in 1..n /\ T[i] = S[i]
              \/ ~(i <= n) /\ i - n \in 1..Len(R) /\ T[i] = Name(R[i - n])
  <2>1. i \in 1..(n + Len(R)) BY <1>3
  <2>2. CASE i <= n BY <1>3, <2>1, <2>2
  <2>3. CASE ~(i <= n)
    <3>1. i - n \in 1..Len(R) BY <1>3, <2>1, <2>3
    <3>2. QED BY <1>2, <1>3, <2>1, <2>3, <3>1
  <2>4. QED BY <2>2, <2>3
<1>11. \A i \in 1..Len(P), j \in 1..n : Name(P[i]) # S[j] BY DEF Apart, n
<1>12. \A i, j \in 1..Len(P) : Name(P[i]) = Name(P[j]) => i = j BY DEF Apart
<1>13. ASSUME NEW i \in 1..Len(L), NEW j \in 1..Len(L), Name(L[i]) = Name(L[j]) PROVE i = j
  <2>1. hl[i] \in 1..Len(P) /\ hl[j] \in 1..Len(P) /\ Name(P[hl[i]]) = Name(P[hl[j]])
    BY <1>4, <1>13
  <2>2. QED BY <1>8, <1>12, <2>1
<1>14. ASSUME NEW i \in 1..Len(R), NEW j \in 1..Len(R), Name(R[i]) = Name(R[j]) PROVE i = j
  <2>1. hr[i] \in 1..Len(P) /\ hr[j] \in 1..Len(P) /\ Name(P[hr[i]]) = Name(P[hr[j]])
    BY <1>5, <1>14
  <2>2. QED BY <1>9, <1>12, <2>1
<1>15. ASSUME NEW i \in 1..Len(T), NEW j \in 1..Len(T), T[i] = T[j] PROVE i = j
  <2>1. CASE i \in 1..n /\ T[i] = S[i] /\ j \in 1..n /\ T[j] = S[j]
    BY <1>15, <2>1 DEF Apart, n
  <2>2. CASE /\ i - n \in 1..Len(R) /\ T[i] = Name(R[i - n])
             /\ j - n \in 1..Len(R) /\ T[j] = Name(R[j - n])
    <3>1. i - n = j - n BY <1>14, <1>15, <2>2
    <3>2. i \in Int /\ j \in Int BY <1>3
    <3>3. QED BY <1>3, <3>1, <3>2
  <2>3. CASE i \in 1..n /\ T[i] = S[i] /\ j - n \in 1..Len(R) /\ T[j] = Name(R[j - n])
    <3>1. hr[j - n] \in 1..Len(P) /\ T[j] = Name(P[hr[j - n]]) BY <1>5, <2>3
    <3>2. QED BY <1>11, <1>15, <2>3, <3>1
  <2>4. CASE j \in 1..n /\ T[j] = S[j] /\ i - n \in 1..Len(R) /\ T[i] = Name(R[i - n])
    <3>1. hr[i - n] \in 1..Len(P) /\ T[i] = Name(P[hr[i - n]]) BY <1>5, <2>4
    <3>2. QED BY <1>11, <1>15, <2>4, <3>1
  <2>5. QED BY <1>10, <2>1, <2>2, <2>3, <2>4
<1>16. ASSUME NEW i \in 1..Len(D), NEW j \in 1..Len(L), D[i].type = "CHAT"
       PROVE  Name(D[i]) # Name(L[j])
  <2>1. hl[j] \in 1..Len(P) /\ Name(L[j]) = Name(P[hl[j]]) BY <1>4
  <2>2. QED BY <1>16, <2>1 DEF Apart
<1>17. ASSUME NEW i \in 1..Len(D), NEW j \in 1..Len(T), D[i].type = "CHAT" PROVE Name(D[i]) # T[j]
  <2>1. CASE j \in 1..n /\ T[j] = S[j] BY <1>17, <2>1 DEF Apart, n
  <2>2. CASE j - n \in 1..Len(R) /\ T[j] = Name(R[j - n])
    <3>1. hr[j - n] \in 1..Len(P) /\ T[j] = Name(P[hr[j - n]]) BY <1>5, <2>2
    <3>2. QED BY <1>17, <3>1 DEF Apart
  <2>3. QED BY <1>10, <2>1, <2>2
<1>18. ASSUME NEW i \in 1..Len(L), NEW j \in 1..Len(T) PROVE Name(L[i]) # T[j]
  <2>1. CASE j \in 1..n /\ T[j] = S[j] BY <1>4, <1>11, <2>1
  <2>2. CASE j - n \in 1..Len(R) /\ T[j] = Name(R[j - n])
    <3>1. Name(L[i])[1] = L[i].from /\ T[j][1] = R[j - n].from BY <2>2 DEF Name
    <3>2. QED BY <1>6, <2>2, <3>1
  <2>3. QED BY <1>10, <2>1, <2>2
<1>19. Apart(D, L, T) BY <1>13, <1>15, <1>16, <1>17, <1>18 DEF Apart
<1>20. QED BY <1>19 DEF L, T, B

LEMMA OrderEnqueued ==
  ASSUME NEW p \in Members, NEW o \in Seq(Frame), NEW r \in Broadcast, NEW top \in Nat,
         NEW now \in Nat, SentInOrder(p, o, r, top), NEW f \in Frame, f.from = p, top <= now,
         f.type = "CHAT" => f.body = top + 1 /\ now = top + 1
  PROVE  /\ SentInOrder(p, Append(o, f), r, now)
         /\ \A m \in Members, num \in Nat :
              Before(num, m, o, r, top) => Before(num, m, Append(o, f), r, now)
<1> DEFINE t == Append(o, f)  n == Len(o)
<1>1. \A i \in 1..Len(t) : (i \in 1..n /\ t[i] = o[i]) \/ (i = n + 1 /\ t[i] = f) BY AppendAt
<1>2. n \in Nat /\ Len(t) = n + 1 BY AppendAt
<1>3. \A i \in 1..n : o[i] \in Frame BY ElementOfSeq
<1>4. \A i \in 1..n : o[i].body \in Nat BY <1>3 DEF Frame
<1>5. f.body \in Nat /\ r.frame.body \in Nat BY DEF Frame, Broadcast
<1>6. \A i \in 1..n : o[i].from = p /\ (o[i].type = "CHAT" => o[i].body <= top)
  BY DEF SentInOrder
<1> HIDE DEF t
<1>7. ASSUME NEW i \in 1..Len(t) PROVE t[i].from = p /\ (t[i].type = "CHAT" => t[i].body <= now)
  <2>1. CASE i \in 1..n /\ t[i] = o[i] BY <1>4, <1>6, <2>1
  <2>2. CASE t[i] = f BY <2>2
  <2>3. QED BY <1>1, <2>1, <2>2
<1>8. ASSUME NEW i \in 1..Len(t), NEW j \in 1..Len(t), i < j, t[i].type = "CHAT", t[j].type = "CHAT"
      PROVE  t[i].body < t[j].body
  <2>1. i \in 1..n /\ t[i] = o[i]
    <3>1. i # n + 1 BY <1>2, <1>8
    <3>2. QED BY <1>1, <3>1
  <2>2. CASE j \in 1..n /\ t[j] = o[j] BY <1>8, <2>1, <2>2 DEF SentInOrder
  <2>3. CASE t[j] = f
    <3>1. o[i].body \in Nat /\ o[i].body <= top BY <1>4, <1>6, <1>8, <2>1
    <3>2. f.body = top + 1 BY <1>8, <2>3
    <3>3. QED BY <2>1, <2>3, <3>1, <3>2
  <2>4. QED BY <1>1, <2>2, <2>3
<1>9. ASSUME NEW num \in Nat, num <= top, \A i \in 1..n : o[i].type = "CHAT" => num < o[i].body
      PROVE  num <= now /\ \A i \in 1..Len(t) : t[i].type = "CHAT" => num < t[i].body
  <2>1. num <= now BY <1>9
  <2>2. ASSUME NEW i \in 1..Len(t), t[i].type = "CHAT" PROVE num < t[i].body
    <3>1. CASE i \in 1..n /\ t[i] = o[i] BY <1>9, <2>2, <3>1
    <3>2. CASE t[i] = f
      <4>1. f.body = top + 1 BY <2>2, <3>2
      <4>2. QED BY <1>9, <3>2, <4>1
    <3>3. QED BY <1>1, <3>1, <3>2
  <2>3. QED BY <2>1, <2>2
<1>10. r.to # {} => /\ r.frame.from = p
                    /\ r.frame.type = "CHAT" =>
                         /\ r.frame.body <= now
                         /\ \A i \in 1..Len(t) : t[i].type = "CHAT" => r.frame.body < t[i].body
  <2> SUFFICES ASSUME r.to # {}
               PROVE  /\ r.frame.from = p
                      /\ r.frame.type = "CHAT" =>
                           /\ r.frame.body <= now
                           /\ \A i \in 1..Len(t) : t[i].type = "CHAT" => r.frame.body < t[i].body
    OBVIOUS
  <2>1. r.frame.from = p BY DEF SentInOrder
  <2>2. r.frame.type = "CHAT" =>
          r.frame.body <= top /\ \A i \in 1..n : o[i].type = "CHAT" => r.frame.body < o[i].body
    BY DEF SentInOrder
  <2>3. QED BY <1>5, <1>9, <2>1, <2>2
<1>11. SentInOrder(p, t, r, now) BY <1>7, <1>8, <1>10 DEF SentInOrder
<1>12. \A m \in Members, num \in Nat : Before(num, m, o, r, top) => Before(num, m, t, r, now)
  BY <1>9 DEF Before
<1>13. QED BY <1>11, <1>12 DEF t

\* The write pump takes the head of o, and the hub starts to relay it.
LEMMA OrderWritten ==
  ASSUME NEW p \in Members, NEW o \in Seq(Frame), NEW r \in Broadcast, NEW top \in Nat,
         SentInOrder(p, o, r, top), o # <<>>, NEW s \in Broadcast,
         s.frame.from = Head(o).from, s.frame.type = Head(o).type, s.frame.body = Head(o).body
  PROVE  /\ SentInOrder(p, Tail(o), s, top)
         /\ \A m \in Members, num \in Nat :
              Before(num, m, o, r, top) => Before(num, m, Tail(o), s, top)
<1> DEFINE t == Tail(o)
<1>1. /\ 1 \in 1..Len(o) /\ Head(o) = o[1] /\ Len(t) \in Nat
      /\ \A i \in 1..Len(t) : i + 1 \in 1..Len(o) /\ t[i] = o[i + 1]
  BY TailLeft
<1>2. s.frame.from = o[1].from /\ s.frame.type = o[1].type /\ s.frame.body = o[1].body BY <1>1
<1> HIDE DEF t
<1>3. \A i \in 1..Len(o) : o[i].from = p /\ (o[i].type = "CHAT" => o[i].body <= top)
  BY DEF SentInOrder
<1>4. \A i, j \in 1..Len(o) :
        i < j /\ o[i].type = "CHAT" /\ o[j].type = "CHAT" => o[i].body < o[j].body
  BY DEF SentInOrder
<1>5. \A i \in 1..Len(t) : t[i].from = p /\ (t[i].type = "CHAT" => t[i].body <= top)
  BY <1>1, <1>3
<1>6. ASSUME NEW i \in 1..Len(t), NEW j \in 1..Len(t), i < j, t[i].type = "CHAT", t[j].type = "CHAT"
      PROVE  t[i].body < t[j].body
  <2>1. i + 1 < j + 1 BY <1>1, <1>6
  <2>2. QED BY <1>1, <1>4, <1>6, <2>1
<1>7. ASSUME NEW i \in 1..Len(t), t[i].type = "CHAT", o[1].type = "CHAT"
      PROVE  o[1].body < t[i].body
  <2>1. 1 < i + 1 BY <1>1
  <2>2. QED BY <1>1, <1>4, <1>7, <2>1
<1>8. SentInOrder(p, t, s, top) BY <1>1, <1>2, <1>3, <1>5, <1>6, <1>7 DEF SentInOrder
<1>9. ASSUME NEW m \in Members, NEW num \in Nat, Before(num, m, o, r, top)
      PROVE  Before(num, m, t, s, top)
  <2>1. num <= top /\ \A i \in 1..Len(o) : o[i].type = "CHAT" => num < o[i].body
    BY <1>9 DEF Before
  <2>2. \A i \in 1..Len(t) : t[i].type = "CHAT" => num < t[i].body BY <1>1, <2>1
  <2>3. s.frame.type = "CHAT" => num < s.frame.body BY <1>1, <1>2, <2>1
  <2>4. QED BY <2>1, <2>2, <2>3 DEF Before
<1>10. QED BY <1>8, <1>9 DEF t

\* The relay reaches one more member.
LEMMA OrderRelayed ==
  ASSUME NEW p \in Members, NEW o \in Seq(Frame), NEW r \in Broadcast, NEW top \in Nat,
         SentInOrder(p, o, r, top), NEW m \in r.to,
         NEW s \in Broadcast, s.frame = r.frame, s.to = r.to \ {m}
  PROVE  /\ SentInOrder(p, o, s, top)
         /\ \A h \in Members, num \in Nat : Before(num, h, o, r, top) => Before(num, h, o, s, top)
         /\ r.frame.from = p
         /\ r.frame.type = "CHAT" => /\ Before(r.frame.body, m, o, s, top)
                                     /\ ~Before(r.frame.body, m, o, r, top)
<1>1. r.to # {} OBVIOUS
<1>2. SentInOrder(p, o, s, top) BY <1>1 DEF SentInOrder
<1>3. \A h \in Members, num \in Nat : Before(num, h, o, r, top) => Before(num, h, o, s, top)
  BY DEF Before
<1>4. r.frame.from = p BY <1>1 DEF SentInOrder
<1>5. ASSUME r.frame.type = "CHAT"
      PROVE  Before(r.frame.body, m, o, s, top) /\ ~Before(r.frame.body, m, o, r, top)
  <2>1. /\ r.frame.body <= top
        /\ \A i \in 1..Len(o) : o[i].type = "CHAT" => r.frame.body < o[i].body
    BY <1>1, <1>5 DEF SentInOrder
  <2>2. m \notin s.to OBVIOUS
  <2>3. r.frame.body \in Nat BY DEF Broadcast, Frame
  <2>4. ~(r.frame.body < r.frame.body) BY <2>3
  <2>5. QED BY <1>5, <2>1, <2>2, <2>4 DEF Before
<1>6. QED BY <1>2, <1>3, <1>4, <1>5

\* What a step has to show: the messages at each member are still in one place,
\* and those that are new there have passed.
PassedBy(m, p, num) == Passed(m, p, num) \/ Before(num, m, outq'[p], relay'[p], said'[p])

LEMMA OnceFrom ==
  ASSUME Typed', ReadingTyped', cast'.to # {} => cast'.frame.type \in {"EPOCH", "USER_LIST"},
         \A p \in Members : SentInOrder(p, outq'[p], relay'[p], said'[p]),
         \A m, p \in Members, num \in Nat :
           Passed(m, p, num) => Before(num, m, outq'[p], relay'[p], said'[p]),
         \A m \in Members : Apart(down'[m], pending'[m], shown'[m]),
         \A m \in Members : \A i \in 1..Len(down'[m]) :
           down'[m][i].type = "CHAT" => PassedBy(m, down'[m][i].from, down'[m][i].body),
         \A m \in Members : \A i \in 1..Len(pending'[m]) :
           PassedBy(m, pending'[m][i].from, pending'[m][i].body),
         \A m \in Members : \A i \in 1..Len(shown'[m]) :
           PassedBy(m, shown'[m][i][1], shown'[m][i][2])
  PROVE  OnceInv'
<1>1. \A m, p \in Members, num \in Nat :
        PassedBy(m, p, num) => Before(num, m, outq'[p], relay'[p], said'[p])
  BY DEF PassedBy
<1>2. ASSUME NEW m \in Members PROVE Arrived(m)'
  <2>1. ASSUME NEW i \in 1..Len(down'[m]), down'[m][i].type = "CHAT"
        PROVE  Passed(m, down[m][i].from, down[m][i].body)'
    <3>1. PICK f \in Frame : f = down'[m][i] BY ElementOfSeq DEF Typed
    <3>2. f.from \in Members /\ f.body \in Nat BY DEF Frame
    <3>3. PassedBy(m, f.from, f.body) BY <2>1, <3>1
    <3>4. Before(f.body, m, outq'[f.from], relay'[f.from], said'[f.from])
      BY <1>1, <3>2, <3>3
    <3>5. QED BY <3>1, <3>4 DEF Passed
  <2>2. ASSUME NEW i \in 1..Len(pending'[m])
        PROVE  Passed(m, pending[m][i].from, pending[m][i].body)'
    <3>1. PICK f \in Frame : f = pending'[m][i] BY ElementOfSeq DEF ReadingTyped
    <3>2. f.from \in Members /\ f.body \in Nat BY DEF Frame
    <3>3. PassedBy(m, f.from, f.body) BY <3>1
    <3>4. Before(f.body, m, outq'[f.from], relay'[f.from], said'[f.from])
      BY <1>1, <3>2, <3>3
    <3>5. QED BY <3>1, <3>4 DEF Passed
  <2>3. ASSUME NEW i \in 1..Len(shown'[m])
        PROVE  Passed(m, shown[m][i][1], shown[m][i][2])'
    <3>1. PICK f \in Members \X Nat : f = shown'[m][i] BY ElementOfSeq DEF ReadingTyped
    <3>2. f[1] \in Members /\ f[2] \in Nat OBVIOUS
    <3>3. PassedBy(m, f[1], f[2]) BY <3>1
    <3>4. Before(f[2], m, outq'[f[1]], relay'[f[1]], said'[f[1]])
      BY <1>1, <3>2, <3>3
    <3>5. QED BY <3>1, <3>4 DEF Passed
  <2>4. QED BY <2>1, <2>2, <2>3 DEF Arrived
<1>3. QED BY <1>2 DEF OnceInv

\* A step that brings no member a message.
LEMMA OnceIfStill ==
  ASSUME Typed', ReadingTyped', OnceInv, UNCHANGED <<down, pending, shown>>,
         cast'.to # {} => cast'.frame.type \in {"EPOCH", "USER_LIST"},
         \A p \in Members : SentInOrder(p, outq'[p], relay'[p], said'[p]),
         \A m, p \in Members, num \in Nat :
           Passed(m, p, num) => Before(num, m, outq'[p], relay'[p], said'[p])
  PROVE  OnceInv'
<1>1. \A m \in Members : Apart(down'[m], pending'[m], shown'[m]) BY DEF OnceInv
<1>2. \A m \in Members : \A i \in 1..Len(down'[m]) :
        down'[m][i].type = "CHAT" => PassedBy(m, down'[m][i].from, down'[m][i].body)
  BY DEF OnceInv, Arrived, PassedBy
<1>3. \A m \in Members : \A i \in 1..Len(pending'[m]) :
        PassedBy(m, pending'[m][i].from, pending'[m][i].body)
  BY DEF OnceInv, Arrived, PassedBy
<1>4. \A m \in Members : \A i \in 1..Len(shown'[m]) :
        PassedBy(m, shown'[m][i][1], shown'[m][i][2])
  BY DEF OnceInv, Arrived, PassedBy
<1>5. QED BY <1>1, <1>2, <1>3, <1>4, OnceFrom

LEMMA StillInOrder ==
  ASSUME OnceInv, UNCHANGED <<outq, relay, said>>
  PROVE  /\ \A p \in Members : SentInOrder(p, outq'[p], relay'[p], said'[p])
         /\ \A m, p \in Members, num \in Nat :
              Passed(m, p, num) => Before(num, m, outq'[p], relay'[p], said'[p])
BY DEF OnceInv, Passed

\* m's SendChan takes a frame of m's.
LEMMA EnqueueInOrder ==
  ASSUME Typed, Typed', OnceInv, UNCHANGED relay, NEW m \in Members, NEW f \in Frame,
         f.from = m, Enqueue(m, f), \A p \in Members : p # m => said'[p] = said[p],
         \/ f.type # "CHAT" /\ said'[m] = said[m]
         \/ f.type = "CHAT" /\ f.body = said[m] + 1 /\ said'[m] = said[m] + 1
              /\ outq' = [outq EXCEPT ![m] = Append(outq[m], f)]
  PROVE  /\ \A p \in Members : SentInOrder(p, outq'[p], relay'[p], said'[p])
         /\ \A h, p \in Members, num \in Nat :
              Passed(h, p, num) => Before(num, h, outq'[p], relay'[p], said'[p])
<1> DEFINE o == outq[m]  r == relay[m]  t == said[m]  u == said'[m]
<1>1. o \in Seq(Frame) /\ r \in Broadcast /\ t \in Nat /\ u \in Nat BY DEF Typed
<1>2. SentInOrder(m, o, r, t) BY DEF OnceInv
<1>3. \A p \in Members : p # m => outq'[p] = outq[p] BY DEF Enqueue, Typed
<1>4. \A p \in Members : p # m =>
        /\ SentInOrder(p, outq'[p], relay'[p], said'[p])
        /\ \A h \in Members, num \in Nat :
             Passed(h, p, num) => Before(num, h, outq'[p], relay'[p], said'[p])
  BY <1>3 DEF OnceInv, Passed
<1>5. CASE outq' = [outq EXCEPT ![m] = Append(o, f)]
  <2>1. outq'[m] = Append(o, f) BY <1>5 DEF Typed
  <2> HIDE DEF o, r, t, u
  <2>2. t <= u /\ (f.type = "CHAT" => f.body = t + 1 /\ u = t + 1) BY <1>1 DEF t, u
  <2>3. /\ SentInOrder(m, Append(o, f), r, u)
        /\ \A h \in Members, num \in Nat :
             Before(num, h, o, r, t) => Before(num, h, Append(o, f), r, u)
    BY <1>1, <1>2, <2>2, OrderEnqueued
  <2>4. /\ SentInOrder(m, outq'[m], relay'[m], said'[m])
        /\ \A h \in Members, num \in Nat :
             Passed(h, m, num) => Before(num, h, outq'[m], relay'[m], said'[m])
    BY <2>1, <2>3 DEF Passed, o, r, t, u
  <2>5. QED BY <1>4, <2>4
<1>6. CASE outq' = outq /\ u = t BY <1>2, <1>4, <1>6 DEF Passed
<1>7. QED BY <1>5, <1>6 DEF Enqueue

\* A broadcast or a relay puts a frame on p's queue.
LEMMA OnceDelivered ==
  ASSUME Typed, Typed', ReadingTyped, ReadingTyped', OnceInv, UNCHANGED <<pending, shown>>,
         cast'.to # {} => cast'.frame.type \in {"EPOCH", "USER_LIST"},
         \A h \in Members : SentInOrder(h, outq'[h], relay'[h], said'[h]),
         \A m, h \in Members, num \in Nat :
           Passed(m, h, num) => Before(num, m, outq'[h], relay'[h], said'[h]),
         NEW p \in Members, NEW f \in Frame, Deliver(p, f),
         f.type = "CHAT" => /\ ~Passed(p, f.from, f.body)
                            /\ Before(f.body, p, outq'[f.from], relay'[f.from], said'[f.from])
  PROVE  OnceInv'
<1>1. CASE down' = down BY <1>1, OnceIfStill
<1>2. CASE down' = [down EXCEPT ![p] = Append(down[p], f)]
  <2> DEFINE D == down[p]  P == pending[p]  S == shown[p]  E == Append(D, f)
  <2>1. D \in Seq(Frame) /\ P \in Seq(Frame) /\ S \in Seq(Members \X Nat)
    BY DEF Typed, ReadingTyped
  <2>2. down'[p] = E /\ \A m \in Members : m # p => down'[m] = down[m] BY <1>2 DEF Typed
  <2>3. Apart(D, P, S) /\ Arrived(p) BY DEF OnceInv
  <2>4. \A x, y : Name(x) = Name(y) => x.from = y.from /\ x.body = y.body BY DEF Name
  <2>5. ASSUME f.type = "CHAT"
        PROVE  /\ \A i \in 1..Len(D) : D[i].type = "CHAT" => Name(D[i]) # Name(f)
               /\ \A i \in 1..Len(P) : Name(P[i]) # Name(f)
               /\ \A i \in 1..Len(S) : S[i] # Name(f)
    <3>1. ~Passed(p, f.from, f.body) BY <2>5
    <3>2. \A i \in 1..Len(D) : D[i].type = "CHAT" => Passed(p, D[i].from, D[i].body)
      BY <2>3 DEF Arrived
    <3>3. \A i \in 1..Len(P) : Passed(p, P[i].from, P[i].body) BY <2>3 DEF Arrived
    <3>4. \A i \in 1..Len(S) : Passed(p, S[i][1], S[i][2]) BY <2>3 DEF Arrived
    <3>5. Name(f)[1] = f.from /\ Name(f)[2] = f.body BY DEF Name
    <3> HIDE DEF D, P, S
    <3>6. ASSUME NEW i \in 1..Len(D), D[i].type = "CHAT", Name(D[i]) = Name(f) PROVE FALSE
      BY <2>4, <3>1, <3>2, <3>6
    <3>7. ASSUME NEW i \in 1..Len(P), Name(P[i]) = Name(f) PROVE FALSE
      BY <2>4, <3>1, <3>3, <3>7
    <3>8. ASSUME NEW i \in 1..Len(S), S[i] = Name(f) PROVE FALSE
      BY <3>1, <3>4, <3>5, <3>8
    <3>9. QED BY <3>6, <3>7, <3>8
  <2> HIDE DEF D, P, S
  <2>6. Apart(E, P, S) BY <2>1, <2>3, <2>5, ApartGrows
  <2>7. \A i \in 1..Len(E) : (i \in 1..Len(D) /\ E[i] = D[i]) \/ E[i] = f BY <2>1, AppendAt
  <2> HIDE DEF E
  <2>8. \A m \in Members : Apart(down'[m], pending'[m], shown'[m])
    BY <2>2, <2>6 DEF OnceInv, P, S
  <2>9. ASSUME NEW m \in Members, NEW i \in 1..Len(down'[m]), down'[m][i].type = "CHAT"
        PROVE  PassedBy(m, down'[m][i].from, down'[m][i].body)
    <3>1. CASE m # p BY <2>2, <2>9, <3>1 DEF OnceInv, Arrived, PassedBy
    <3>2. CASE m = p /\ i \in 1..Len(D) /\ E[i] = D[i]
      <4>1. D[i].type = "CHAT" /\ down'[m][i] = D[i] BY <2>2, <2>9, <3>2
      <4>2. Passed(p, D[i].from, D[i].body) BY <2>3, <3>2, <4>1 DEF Arrived, D
      <4>3. QED BY <3>2, <4>1, <4>2 DEF PassedBy
    <3>3. CASE m = p /\ E[i] = f
      <4>1. down'[m][i] = f BY <2>2, <3>3
      <4>2. QED BY <2>9, <3>3, <4>1 DEF PassedBy
    <3>4. QED BY <2>2, <2>7, <3>1, <3>2, <3>3
  <2>10. /\ \A m \in Members : \A i \in 1..Len(pending'[m]) :
              PassedBy(m, pending'[m][i].from, pending'[m][i].body)
         /\ \A m \in Members : \A i \in 1..Len(shown'[m]) :
              PassedBy(m, shown'[m][i][1], shown'[m][i][2])
    BY DEF OnceInv, Arrived, PassedBy
  <2>11. QED BY <2>8, <2>9, <2>10, OnceFrom
<1>3. QED BY <1>1, <1>2 DEF Deliver

LEMMA OnceHub ==
  ASSUME Typed, Typed', ReadingTyped, ReadingTyped', OnceInv,
         (\E event \in Events : MembershipEvent(event)) \/ Hub
  PROVE  OnceInv'
<1>1. ASSUME NEW event \in Events, MembershipEvent(event) PROVE OnceInv'
  <2>1. UNCHANGED <<cast, relay, down, outq, pending, shown, said>>
    BY <1>1 DEF MembershipEvent, clientVars
  <2>2. cast'.to # {} => cast'.frame.type \in {"EPOCH", "USER_LIST"} BY <2>1 DEF OnceInv
  <2>3. QED BY <2>1, <2>2, StillInOrder, OnceIfStill
<1>2. CASE StartCast
  <2>1. /\ casts # <<>> /\ cast' = [frame |-> HubFrame(Head(casts)), to |-> registered]
        /\ UNCHANGED <<relay, down, outq, pending, shown, said>>
    BY <1>2 DEF StartCast, clientVars
  <2>2. Head(casts) \in {"EPOCH", "USER_LIST"} BY <2>1 DEF Typed
  <2>3. cast'.frame.type \in {"EPOCH", "USER_LIST"} BY <2>1, <2>2 DEF HubFrame
  <2>4. QED BY <2>1, <2>3, StillInOrder, OnceIfStill
<1>3. ASSUME NEW p \in Members, CastTo(p) PROVE OnceInv'
  <2>1. /\ p \in cast.to /\ Deliver(p, cast.frame) /\ cast' = [cast EXCEPT !.to = cast.to \ {p}]
        /\ UNCHANGED <<relay, outq, pending, shown, said>>
    BY <1>3 DEF CastTo, clientVars
  <2>2. cast \in Broadcast BY DEF Typed
  <2>3. cast.frame \in Frame /\ cast.frame.type \in {"EPOCH", "USER_LIST"}
    BY <2>1, <2>2 DEF Broadcast, OnceInv
  <2>4. cast'.frame = cast.frame BY <2>1, <2>2 DEF Broadcast
  <2>5. QED BY <2>1, <2>3, <2>4, StillInOrder, OnceDelivered
<1>4. ASSUME NEW p \in Members, NEW m \in Members, RelayTo(m, p) PROVE OnceInv'
  <2> DEFINE o == outq[m]  r == relay[m]  t == said[m]  s == [r EXCEPT !.to = r.to \ {p}]
  <2>1. /\ p \in r.to /\ Deliver(p, r.frame) /\ relay' = [relay EXCEPT ![m] = s]
        /\ UNCHANGED <<cast, outq, pending, shown, said>>
    BY <1>4 DEF RelayTo, clientVars
  <2>2. r \in Broadcast /\ o \in Seq(Frame) /\ t \in Nat BY DEF Typed
  <2>3. s \in Broadcast /\ s.frame = r.frame /\ s.to = r.to \ {p} BY <2>2 DEF Broadcast
  <2>4. relay'[m] = s /\ \A h \in Members : h # m => relay'[h] = relay[h]
    BY <2>1 DEF Typed
  <2>5. SentInOrder(m, o, r, t) BY DEF OnceInv
  <2>6. r.frame \in Frame BY <2>2 DEF Broadcast
  <2> HIDE DEF o, r, t, s
  <2>7. /\ SentInOrder(m, o, s, t)
        /\ \A h \in Members, num \in Nat : Before(num, h, o, r, t) => Before(num, h, o, s, t)
        /\ r.frame.from = m
        /\ r.frame.type = "CHAT" => /\ Before(r.frame.body, p, o, s, t)
                                    /\ ~Before(r.frame.body, p, o, r, t)
    BY <2>1, <2>2, <2>3, <2>5, OrderRelayed
  <2>8. \A h \in Members : SentInOrder(h, outq'[h], relay'[h], said'[h])
    BY <2>1, <2>4, <2>7 DEF OnceInv, o, t
  <2>9. \A h, g \in Members, num \in Nat :
          Passed(h, g, num) => Before(num, h, outq'[g], relay'[g], said'[g])
    BY <2>1, <2>4, <2>7 DEF Passed, o, r, t
  <2>10. r.frame.type = "CHAT" =>
           /\ ~Passed(p, r.frame.from, r.frame.body)
           /\ Before(r.frame.body, p, outq'[r.frame.from], relay'[r.frame.from], said'[r.frame.from])
    BY <2>1, <2>4, <2>7 DEF Passed, o, r, t
  <2>11. cast'.to # {} => cast'.frame.type \in {"EPOCH", "USER_LIST"} BY <2>1 DEF OnceInv
  <2>12. UNCHANGED <<pending, shown>> BY <2>1
  <2>13. QED BY <2>1, <2>6, <2>8, <2>9, <2>10, <2>11, <2>12, OnceDelivered
<1>5. QED BY <1>1, <1>2, <1>3, <1>4 DEF Hub

LEMMA OnceSend ==
  ASSUME Typed, Typed', ReadingTyped, ReadingTyped', OnceInv, NEW m \in Members,
         Say(m) \/ WritePump(m)
  PROVE  OnceInv'
<1>1. CASE Say(m)
  <2> DEFINE chat == [type |-> "CHAT", from |-> m, gen |-> 0, step |-> 0, body |-> said[m] + 1]
  <2>1. /\ said' = [said EXCEPT ![m] = said[m] + 1]
        /\ outq' = [outq EXCEPT ![m] = Append(outq[m], chat)]
        /\ UNCHANGED <<cast, relay, down, pending, shown>>
    BY <1>1 DEF Say, hubVars, clientVars
  <2>2. PICK f \in Frame : f = chat
    <3>1. said[m] + 1 \in Nat BY DEF Typed
    <3>2. chat \in Frame BY <3>1 DEF Frame
    <3>3. QED BY <3>2
  <2>3. /\ f.type = "CHAT" /\ f.from = m /\ f.body = said[m] + 1 /\ Enqueue(m, f)
        /\ outq' = [outq EXCEPT ![m] = Append(outq[m], f)]
    BY <2>1, <2>2 DEF Enqueue
  <2> HIDE DEF chat
  <2>4. said'[m] = said[m] + 1 /\ \A p \in Members : p # m => said'[p] = said[p]
    BY <2>1 DEF Typed
  <2>5. /\ \A p \in Members : SentInOrder(p, outq'[p], relay'[p], said'[p])
        /\ \A h, p \in Members, num \in Nat :
             Passed(h, p, num) => Before(num, h, outq'[p], relay'[p], said'[p])
    BY <2>1, <2>3, <2>4, EnqueueInOrder
  <2>6. cast'.to # {} => cast'.frame.type \in {"EPOCH", "USER_LIST"} BY <2>1 DEF OnceInv
  <2>7. QED BY <2>1, <2>5, <2>6, OnceIfStill
<1>2. CASE WritePump(m)
  <2> DEFINE o == outq[m]  r == relay[m]  t == said[m]
             e == Encrypted(m, Head(o))  s == Relayed(m, e)
  <2>1. /\ o # <<>> /\ relay' = [relay EXCEPT ![m] = s]
        /\ outq' = [outq EXCEPT ![m] = Tail(o)]
        /\ UNCHANGED <<cast, down, pending, shown, said>>
    BY <1>2 DEF WritePump
  <2>2. r \in Broadcast /\ o \in Seq(Frame) /\ t \in Nat BY DEF Typed
  <2>3. Head(o) \in Frame BY <2>1, <2>2
  <2>4. e.from = Head(o).from /\ e.type = Head(o).type /\ e.body = Head(o).body
    BY <2>3 DEF Encrypted, Frame
  <2>5. s.frame = e BY DEF Relayed
  <2>6. /\ relay'[m] = s /\ outq'[m] = Tail(o)
        /\ \A p \in Members : p # m => relay'[p] = relay[p] /\ outq'[p] = outq[p]
    BY <2>1 DEF Typed
  <2>7. s \in Broadcast BY <2>6 DEF Typed
  <2>8. SentInOrder(m, o, r, t) BY DEF OnceInv
  <2> HIDE DEF o, r, t, s, e
  <2>9. /\ SentInOrder(m, Tail(o), s, t)
        /\ \A h \in Members, num \in Nat :
             Before(num, h, o, r, t) => Before(num, h, Tail(o), s, t)
    BY <2>1, <2>2, <2>4, <2>5, <2>7, <2>8, OrderWritten
  <2>10. \A h \in Members : SentInOrder(h, outq'[h], relay'[h], said'[h])
    BY <2>1, <2>6, <2>9 DEF OnceInv, t
  <2>11. \A h, g \in Members, num \in Nat :
           Passed(h, g, num) => Before(num, h, outq'[g], relay'[g], said'[g])
    BY <2>1, <2>6, <2>9 DEF Passed, o, r, t
  <2>12. cast'.to # {} => cast'.frame.type \in {"EPOCH", "USER_LIST"} BY <2>1 DEF OnceInv
  <2>13. QED BY <2>1, <2>10, <2>11, <2>12, OnceIfStill
<1>3. QED BY <1>1, <1>2

\* What m has after it handled the head of its queue: the messages are still
\* apart, and each of them was there before.
LEMMA HandledOnce ==
  ASSUME Typed, ReadingTyped, OnceInv, NEW m \in Members, down[m] # <<>>,
         Handles(m, Head(down[m]))
  PROVE  /\ Apart(Tail(down[m]), pending'[m], shown'[m])
         /\ \A i \in 1..Len(pending'[m]) : Passed(m, pending'[m][i].from, pending'[m][i].body)
         /\ \A i \in 1..Len(shown'[m]) : Passed(m, shown'[m][i][1], shown'[m][i][2])
         /\ \A p \in Members : p # m => pending'[p] = pending[p] /\ shown'[p] = shown[p]
<1> DEFINE D == down[m]  P == pending[m]  S == shown[m]  T == Tail(D)
<1>1. /\ D \in Seq(Frame) /\ P \in Seq(Frame) /\ S \in Seq(Members \X Nat) /\ D # <<>>
      /\ pending \in [Members -> Seq(Frame)] /\ shown \in [Members -> Seq(Members \X Nat)]
  BY DEF Typed, ReadingTyped
<1>2. Apart(D, P, S) BY DEF OnceInv
<1>3. /\ \A i \in 1..Len(P) : Passed(m, P[i].from, P[i].body)
      /\ \A i \in 1..Len(S) : Passed(m, S[i][1], S[i][2])
  BY DEF OnceInv, Arrived
<1>4. PICK f \in Frame : f = Head(D) BY <1>1
<1>5. f.type = "CHAT" => Passed(m, f.from, f.body)
  <2>1. 1 \in 1..Len(D) /\ f = D[1] BY <1>1, <1>4, TailLeft
  <2>2. \A i \in 1..Len(D) : D[i].type = "CHAT" => Passed(m, D[i].from, D[i].body)
    BY DEF OnceInv, Arrived
  <2> HIDE DEF D
  <2>3. QED BY <2>1, <2>2
<1>6. T \in Seq(Frame) BY <1>1
<1>7. Handles(m, f) BY <1>4
<1>8. \A g : Name(g)[1] = g.from /\ Name(g)[2] = g.body BY DEF Name
<1>9. /\ Apart(T, P, S)
      /\ f.type = "CHAT" =>
           /\ \A i \in 1..Len(T) : T[i].type = "CHAT" => Name(T[i]) # Name(f)
           /\ \A i \in 1..Len(P) : Name(P[i]) # Name(f)
           /\ \A i \in 1..Len(S) : S[i] # Name(f)
  <2> HIDE DEF D, P, S
  <2>1. QED BY <1>1, <1>2, <1>4, ApartTail
<1> HIDE DEF D, P, S, T
<1>10. CASE UNCHANGED <<pending, shown>>
  BY <1>3, <1>9, <1>10 DEF P, S, T, D
<1>11. CASE /\ f.type = "CHAT" /\ UNCHANGED pending
            /\ shown' = [shown EXCEPT ![m] = Append(shown[m], Name(f))]
  <2> DEFINE x == Name(f)  E == Append(S, x)
  <2>1. x \in Members \X Nat BY DEF Name, Frame
  <2>2. \A i \in 1..Len(E) : (i \in 1..Len(S) /\ E[i] = S[i]) \/ E[i] = x
    BY <1>1, <2>1, AppendAt
  <2>3. Apart(T, P, E) BY <1>1, <1>6, <1>9, <1>11, ApartGrows
  <2>4. shown'[m] = E /\ pending'[m] = P
        /\ \A p \in Members : p # m => shown'[p] = shown[p] /\ pending'[p] = pending[p]
    BY <1>1, <1>11 DEF S, P
  <2>5. x[1] = f.from /\ x[2] = f.body BY <1>8
  <2> HIDE DEF E, x
  <2>6. \A i \in 1..Len(E) : Passed(m, E[i][1], E[i][2])
    BY <1>3, <1>5, <1>11, <2>2, <2>5
  <2>7. QED BY <1>3, <2>3, <2>4, <2>6 DEF T, D
<1>12. CASE /\ f.type = "CHAT" /\ UNCHANGED shown
            /\ pending' = [pending EXCEPT ![m] = Queued(pending[m], f)]
  <2> DEFINE Q == IF Len(P) > PendingMax THEN Tail(P) ELSE P
             E == Append(Q, f)
  <2>1. /\ Q \in Seq(Frame) /\ Apart(T, Q, S)
        /\ \A i \in 1..Len(Q) : \E j \in 1..Len(P) : Q[i] = P[j]
    <3>1. CASE Len(P) > PendingMax
      <4>1. P # <<>> BY <3>1, SessionAssumption
      <4>2. /\ Tail(P) \in Seq(Frame)
            /\ \A i \in 1..Len(Tail(P)) : i + 1 \in 1..Len(P) /\ Tail(P)[i] = P[i + 1]
        BY <1>1, <4>1, TailLeft
      <4>3. Apart(T, Tail(P), S) BY <1>1, <1>6, <1>9, <4>1, ApartQueued
      <4>4. Q = Tail(P) BY <3>1
      <4> HIDE DEF Q
      <4>5. QED BY <4>2, <4>3, <4>4
    <3>2. CASE ~(Len(P) > PendingMax)
      <4>1. Q = P BY <3>2
      <4> HIDE DEF Q
      <4>2. QED BY <1>1, <1>9, <4>1
    <3>3. QED BY <3>1, <3>2
  <2>2. E = Queued(P, f) BY DEF Queued
  <2> HIDE DEF Q
  <2>3. \A i \in 1..Len(Q) : Name(Q[i]) # Name(f) BY <1>9, <1>12, <2>1
  <2>4. \A i \in 1..Len(E) : (i \in 1..Len(Q) /\ E[i] = Q[i]) \/ E[i] = f
    BY <2>1, AppendAt
  <2>5. Apart(T, E, S) BY <1>1, <1>6, <1>9, <1>12, <2>1, <2>3, ApartGrows
  <2> HIDE DEF E
  <2>6. shown'[m] = S /\ pending'[m] = E
        /\ \A p \in Members : p # m => shown'[p] = shown[p] /\ pending'[p] = pending[p]
    BY <1>1, <1>12, <2>2 DEF S, P
  <2>7. ASSUME NEW i \in 1..Len(E) PROVE Passed(m, E[i].from, E[i].body)
    <3>1. CASE i \in 1..Len(Q) /\ E[i] = Q[i]
      <4>1. PICK j \in 1..Len(P) : Q[i] = P[j] BY <2>1, <3>1
      <4>2. Passed(m, P[j].from, P[j].body) BY <1>3
      <4>3. QED BY <3>1, <4>1, <4>2
    <3>2. CASE E[i] = f BY <1>5, <1>12, <3>2
    <3>3. QED BY <2>4, <3>1, <3>2
  <2>8. QED BY <1>3, <2>5, <2>6, <2>7 DEF T, D
<1>13. CASE /\ f.type = "KEY"
            /\ pending' = [pending EXCEPT ![m] = Flushed(pending[m], f.from, f.gen).left]
            /\ shown' = [shown EXCEPT
                           ![m] = shown[m] \o Bodies(Flushed(pending[m], f.from, f.gen).read)]
  <2>1. f.from \in Members /\ f.gen \in Nat BY DEF Frame
  <2>2. PICK d \in Progress : d = Flushed(P, f.from, f.gen) /\ Tried(d, P, f.from, f.gen, Len(P))
    BY <1>1, <2>1, FlushedDoes
  <2> DEFINE L == d.left  R == d.read  B == Bodies(R)  E == S \o B  n == Len(S)
  <2>3. Apart(T, L, E) BY <1>1, <1>6, <1>9, <2>1, <2>2, ApartFlushed
  <2>4. pending'[m] = L /\ shown'[m] = E
        /\ \A p \in Members : p # m => shown'[p] = shown[p] /\ pending'[p] = pending[p]
    BY <1>1, <1>13, <2>2 DEF S, P
  <2>5. L \in Seq(Frame) /\ R \in Seq(Frame) BY DEF Progress
  <2>6. Part(L, P, Len(P)) /\ Part(R, P, Len(P)) BY <2>2 DEF Tried
  <2> HIDE DEF L, R
  <2>7. /\ \A i \in 1..Len(L) : \E j \in 1..Len(P) : L[i] = P[j]
        /\ \A i \in 1..Len(R) : \E j \in 1..Len(P) : R[i] = P[j]
    BY <2>6 DEF Part
  <2>8. B \in Seq(Members \X Nat) /\ Len(B) = Len(R) /\ \A i \in 1..Len(R) : B[i] = Name(R[i])
    BY <2>5, BodiesAre
  <2> HIDE DEF B
  <2>9. /\ n \in Nat /\ Len(B) \in Nat /\ Len(E) = n + Len(B)
        /\ \A i \in 1..(n + Len(B)) : E[i] = IF i <= n THEN S[i] ELSE B[i - n]
    <3>1. S \in Seq(Members \X Nat) /\ B \in Seq(Members \X Nat) BY <1>1, <2>8
    <3>2. /\ Len(S \o B) = Len(S) + Len(B)
          /\ \A i \in 1..(Len(S) + Len(B)) :
               (S \o B)[i] = IF i <= Len(S) THEN S[i] ELSE B[i - Len(S)]
      BY <3>1, ConcatProperties
    <3>3. Len(S) \in Nat /\ Len(B) \in Nat BY <3>1
    <3>4. QED BY <3>2, <3>3
  <2> HIDE DEF E, n
  <2>10. ASSUME NEW i \in 1..Len(E) PROVE Passed(m, E[i][1], E[i][2])
    <3>1. i \in 1..(n + Len(B)) BY <2>9
    <3>2. CASE i <= n
      <4>1. i \in 1..n /\ E[i] = S[i] BY <2>9, <3>1, <3>2
      <4>2. QED BY <1>3, <4>1 DEF n
    <3>3. CASE ~(i <= n)
      <4>1. i - n \in 1..Len(R) BY <2>8, <2>9, <3>1, <3>3
      <4>2. E[i] = Name(R[i - n]) BY <2>8, <2>9, <3>1, <3>3, <4>1
      <4>3. PICK j \in 1..Len(P) : R[i - n] = P[j] BY <2>7, <4>1
      <4>4. E[i][1] = P[j].from /\ E[i][2] = P[j].body BY <1>8, <4>2, <4>3
      <4>5. QED BY <1>3, <4>4
    <3>4. QED BY <3>2, <3>3
  <2>11. ASSUME NEW i \in 1..Len(L) PROVE Passed(m, L[i].from, L[i].body)
    <3>1. PICK j \in 1..Len(P) : L[i] = P[j] BY <2>7
    <3>2. QED BY <1>3, <3>1
  <2>12. QED BY <2>3, <2>4, <2>10, <2>11 DEF T, D
<1>14. QED BY <1>7, <1>10, <1>11, <1>12, <1>13 DEF Handles

LEMMA OnceRead ==
  ASSUME Typed, Typed', ReadingTyped, ReadingTyped', OnceInv, NEW m \in Members, ReadPump(m)
  PROVE  OnceInv'
<1> DEFINE D == down[m]
<1>1. /\ D # <<>> /\ down' = [down EXCEPT ![m] = Tail(D)]
      /\ UNCHANGED <<cast, relay, said>>
  BY DEF ReadPump, hubVars
<1>2. D \in Seq(Frame) BY DEF Typed
<1>3. PICK f \in Frame : f = Head(D) BY <1>1, <1>2
<1>4. \/ ReceiveEpoch(m, f) \/ ReceiveUserList(m, f) \/ ReceiveKey(m, f)
      \/ ReceiveChat(m, f) \/ ReceiveUnreadable(m, f)
  BY <1>3 DEF ReadPump
<1>5. Handles(m, Head(down[m])) BY <1>3, <1>4, ReceiveDoes
<1>6. /\ Apart(Tail(D), pending'[m], shown'[m])
      /\ \A i \in 1..Len(pending'[m]) : Passed(m, pending'[m][i].from, pending'[m][i].body)
      /\ \A i \in 1..Len(shown'[m]) : Passed(m, shown'[m][i][1], shown'[m][i][2])
      /\ \A p \in Members : p # m => pending'[p] = pending[p] /\ shown'[p] = shown[p]
  BY <1>1, <1>5, HandledOnce
<1>7. /\ \A p \in Members : SentInOrder(p, outq'[p], relay'[p], said'[p])
      /\ \A h, p \in Members, num \in Nat :
           Passed(h, p, num) => Before(num, h, outq'[p], relay'[p], said'[p])
  <2>1. own[m].gen \in Nat BY DEF Typed, Chain
  <2>2. outq' = outq \/ \E gen \in Nat : publishSenderKey(m, gen)
    <3>1. own[m].gen + 1 \in Nat BY <2>1
    <3>2. QED BY <1>4, <2>1, <3>1, ReceiveSends
  <2>3. CASE outq' = outq
    <3>1. UNCHANGED <<outq, relay, said>> BY <1>1, <2>3
    <3>2. QED BY <3>1, StillInOrder
  <2>4. ASSUME NEW gen \in Nat, publishSenderKey(m, gen)
        PROVE  /\ \A p \in Members : SentInOrder(p, outq'[p], relay'[p], said'[p])
               /\ \A h, p \in Members, num \in Nat :
                    Passed(h, p, num) => Before(num, h, outq'[p], relay'[p], said'[p])
    <3>1. PICK k \in Frame : k = KeyFrame(m, gen) /\ Enqueue(m, k) BY <2>4, PublishEnqueues
    <3>2. k.type = "KEY" /\ k.from = m BY <3>1 DEF KeyFrame
    <3>3. k.type # "CHAT" /\ said' = said /\ relay' = relay BY <1>1, <3>2
    <3>4. QED BY <3>1, <3>2, <3>3, EnqueueInOrder
  <2>5. QED BY <2>2, <2>3, <2>4
<1>8. down'[m] = Tail(D) /\ \A p \in Members : p # m => down'[p] = down[p] BY <1>1 DEF Typed
<1>9. \A p \in Members : Apart(down'[p], pending'[p], shown'[p]) BY <1>6, <1>8 DEF OnceInv
<1>10. ASSUME NEW p \in Members, NEW i \in 1..Len(down'[p]), down'[p][i].type = "CHAT"
       PROVE  PassedBy(p, down'[p][i].from, down'[p][i].body)
  <2>1. PICK j \in 1..Len(down[p]) : down'[p][i] = down[p][j]
    <3>1. CASE p = m
      <4>1. i \in 1..Len(Tail(D)) BY <1>8, <3>1
      <4>2. i + 1 \in 1..Len(D) /\ Tail(D)[i] = D[i + 1] BY <1>1, <1>2, <4>1, TailLeft
      <4>3. QED BY <1>8, <3>1, <4>2
    <3>2. CASE p # m BY <1>8, <3>2
    <3>3. QED BY <3>1, <3>2
  <2>2. QED BY <1>10, <2>1 DEF OnceInv, Arrived, PassedBy
<1>11. \A p \in Members : \A i \in 1..Len(pending'[p]) :
         PassedBy(p, pending'[p][i].from, pending'[p][i].body)
  BY <1>6 DEF OnceInv, Arrived, PassedBy
<1>12. \A p \in Members : \A i \in 1..Len(shown'[p]) :
         PassedBy(p, shown'[p][i][1], shown'[p][i][2])
  BY <1>6 DEF OnceInv, Arrived, PassedBy
<1>13. cast'.to # {} => cast'.frame.type \in {"EPOCH", "USER_LIST"} BY <1>1 DEF OnceInv
<1>14. QED BY <1>7, <1>9, <1>10, <1>11, <1>12, <1>13, OnceFrom

LEMMA OnceStarter ==
  ASSUME Typed, Typed', ExportInv, ReadingTyped', OnceInv, NEW m \in Members,
         ExportSeed(m) \/ EnqueueSeed(m)
  PROVE  OnceInv'
<1>1. UNCHANGED <<cast, relay, down, pending, shown, said>>
  BY DEF ExportSeed, EnqueueSeed, hubVars, clientVars
<1>2. cast'.to # {} => cast'.frame.type \in {"EPOCH", "USER_LIST"} BY <1>1 DEF OnceInv
<1>3. CASE ExportSeed(m)
  <2>1. UNCHANGED <<outq, relay, said>> BY <1>1, <1>3 DEF ExportSeed
  <2>2. QED BY <1>1, <1>2, <2>1, StillInOrder, OnceIfStill
<1>4. CASE EnqueueSeed(m)
  <2>1. publishSenderKey(m, exported[m]) /\ exported[m] \in Nat
    BY <1>4 DEF EnqueueSeed, ExportInv
  <2>2. PICK k \in Frame : k = KeyFrame(m, exported[m]) /\ Enqueue(m, k) BY <2>1, PublishEnqueues
  <2>3. k.type = "KEY" /\ k.from = m BY <2>2 DEF KeyFrame
  <2>4. k.type # "CHAT" /\ said' = said /\ relay' = relay BY <1>1, <2>3
  <2>5. /\ \A p \in Members : SentInOrder(p, outq'[p], relay'[p], said'[p])
        /\ \A h, p \in Members, num \in Nat :
             Passed(h, p, num) => Before(num, h, outq'[p], relay'[p], said'[p])
    BY <2>2, <2>3, <2>4, EnqueueInOrder
  <2>6. QED BY <1>1, <1>2, <2>5, OnceIfStill
<1>5. QED BY <1>3, <1>4

LEMMA OnceInit == Init => OnceInv
<1> SUFFICES ASSUME Init PROVE OnceInv OBVIOUS
<1>1. \A m \in Members : \A i : /\ i \notin 1..Len(down[m]) /\ i \notin 1..Len(outq[m])
                                /\ i \notin 1..Len(pending[m]) /\ i \notin 1..Len(shown[m])
  BY DEF Init
<1>2. cast.to = {} /\ \A p \in Members : relay[p].to = {} BY DEF Init, Idle
<1>3. \A p \in Members : SentInOrder(p, outq[p], relay[p], said[p])
  BY <1>1, <1>2 DEF SentInOrder
<1>4. \A m \in Members : Arrived(m) /\ Apart(down[m], pending[m], shown[m])
  BY <1>1 DEF Arrived, Apart
<1>5. QED BY <1>2, <1>3, <1>4 DEF OnceInv

LEMMA OnceStep ==
  /\ Typed /\ Typed' /\ ExportInv /\ ReadingTyped /\ ReadingTyped' /\ OnceInv /\ [Next]_vars
  => OnceInv'
<1> SUFFICES ASSUME Typed, Typed', ExportInv, ReadingTyped, ReadingTyped', OnceInv, [Next]_vars
             PROVE  OnceInv'
  OBVIOUS
<1>1. CASE (\E event \in Events : MembershipEvent(event)) \/ Hub BY <1>1, OnceHub
<1>2. ASSUME NEW m \in Members, Say(m) \/ WritePump(m) PROVE OnceInv' BY <1>2, OnceSend
<1>3. ASSUME NEW m \in Members, ReadPump(m) PROVE OnceInv' BY <1>3, OnceRead
<1>4. CASE UNCHANGED vars
  <2>1. UNCHANGED <<cast, relay, down, outq, pending, shown, said>>
    BY <1>4 DEF vars, hubVars, clientVars
  <2>2. cast'.to # {} => cast'.frame.type \in {"EPOCH", "USER_LIST"} BY <2>1 DEF OnceInv
  <2>3. QED BY <2>1, <2>2, StillInOrder, OnceIfStill
<1>5. ASSUME NEW m \in Members, ExportSeed(m) \/ EnqueueSeed(m) PROVE OnceInv'
  BY <1>5, OnceStarter
<1>6. QED BY <1>1, <1>2, <1>3, <1>4, <1>5 DEF Next

\* No message is shown twice, for every group, window, queue size and number of
\* membership changes: the hub relays a message once to each member, and there it
\* waits for a key or is shown, never both (queuePending, flushPending).
THEOREM MessagesShownOnce == Spec => []ShownOnce
<1>1. ReadingTyped /\ OnceInv => ShownOnce
  <2> SUFFICES ASSUME ReadingTyped, OnceInv, NEW m \in Members PROVE IsInjective(shown[m])
    BY DEF ShownOnce
  <2> DEFINE S == shown[m]
  <2>1. S \in Seq(Members \X Nat) BY DEF ReadingTyped
  <2>2. \A i, j \in 1..Len(S) : S[i] = S[j] => i = j BY DEF OnceInv, Apart
  <2>3. DOMAIN S = 1..Len(S) BY <2>1
  <2> HIDE DEF S
  <2>4. IsInjective(S) BY <2>2, <2>3 DEF IsInjective
  <2>5. QED BY <2>4 DEF S
<1>2. Init => Typed /\ SeedInv /\ ExportInv /\ ReadingTyped /\ OnceInv
  BY GroupInit, ExportInit, ReadingInit, OnceInit
<1>3. Typed /\ SeedInv /\ ExportInv /\ ReadingTyped /\ OnceInv /\ [Next]_vars
        => (Typed /\ SeedInv /\ ExportInv /\ ReadingTyped /\ OnceInv)'
  BY GroupStep, ReadingStep, OnceStep
<1>4. QED BY <1>1, <1>2, <1>3, PTL DEF Spec

-----------------------------------------------------------------------------
(* Nobody keeps a seed that its owner has replaced. *)

\* A key of p with its seed g, or with another.
IsSeed(f, p, g) == f.type = "KEY" /\ f.from = p /\ f.gen = g
IsOld(f, p, g) == f.type = "KEY" /\ f.from = p /\ f.gen # g

\* The seed g of p is behind the i-th frame of a queue, or has yet to leave p's
\* SendChan o and the relay r to m.
Behind(q, i, p, g) == \E j \in 1..Len(q) : i < j /\ IsSeed(q[j], p, g)
Leaving(m, p, g, r, o) == (m \in r.to /\ IsSeed(r.frame, p, g)) \/ Behind(o, 0, p, g)

\* Every other key of p on its way to m, and the seed c that m has, is followed
\* by g: d is m's queue.
Followed(m, p, g, d, r, o, c) ==
  /\ \A i \in 1..Len(o) : IsOld(o[i], p, g) => Behind(o, i, p, g)
  /\ m \in r.to /\ IsOld(r.frame, p, g) => Behind(o, 0, p, g)
  /\ \A i \in 1..Len(d) : IsOld(d[i], p, g) => Behind(d, i, p, g) \/ Leaving(m, p, g, r, o)
  /\ c \in {0, g} \/ Behind(d, 0, p, g) \/ Leaving(m, p, g, r, o)

FollowInv ==
  \A m, p \in registered : m # p /\ p \notin lost =>
    Followed(m, p, own[p].gen, down[m], relay[p], outq[p], chains[m][p].gen)

LEMMA BehindAppend ==
  ASSUME NEW q \in Seq(Frame), NEW f \in Frame, NEW p, NEW g
  PROVE  /\ \A i \in Nat : Behind(q, i, p, g) => Behind(Append(q, f), i, p, g)
         /\ IsSeed(f, p, g) => \A i \in 0..Len(q) : Behind(Append(q, f), i, p, g)
<1> DEFINE t == Append(q, f)  n == Len(q)
<1>1. /\ n \in Nat /\ Len(t) = n + 1 /\ t[n + 1] = f /\ \A i \in 1..n : t[i] = q[i]
  BY AppendProperties
<1> HIDE DEF t, n
<1>2. 1..n \subseteq 1..Len(t) /\ n + 1 \in 1..Len(t) BY <1>1
<1>3. \A i \in Nat : Behind(q, i, p, g) => Behind(t, i, p, g) BY <1>1, <1>2 DEF Behind, n
<1>4. ASSUME IsSeed(f, p, g), NEW i \in 0..n PROVE Behind(t, i, p, g)
  <2>1. i < n + 1 BY <1>1
  <2>2. QED BY <1>1, <1>2, <1>4, <2>1 DEF Behind
<1>5. QED BY <1>3, <1>4 DEF t, n

LEMMA BehindTail ==
  ASSUME NEW q \in Seq(Frame), q # <<>>, NEW p, NEW g
  PROVE  /\ \A i \in Nat : Behind(q, i + 1, p, g) => Behind(Tail(q), i, p, g)
         /\ Behind(q, 0, p, g) => IsSeed(Head(q), p, g) \/ Behind(Tail(q), 0, p, g)
<1> DEFINE t == Tail(q)  n == Len(q)
<1>1. n \in Nat /\ Len(t) = n - 1 /\ Head(q) = q[1] /\ \A i \in 1..(n - 1) : t[i] = q[i + 1]
  BY HeadTailProperties
<1> HIDE DEF t, n
<1>2. ASSUME NEW i \in Nat, NEW j \in 1..n, i + 1 < j, IsSeed(q[j], p, g)
      PROVE  Behind(t, i, p, g)
  <2>1. j - 1 \in 1..(n - 1) /\ i < j - 1 /\ (j - 1) + 1 = j BY <1>1, <1>2
  <2>2. t[j - 1] = q[j] BY <1>1, <2>1
  <2>3. QED BY <1>1, <1>2, <2>1, <2>2 DEF Behind
<1>3. \A i \in Nat : Behind(q, i + 1, p, g) => Behind(t, i, p, g) BY <1>2 DEF Behind, n
<1>4. ASSUME Behind(q, 0, p, g) PROVE IsSeed(Head(q), p, g) \/ Behind(t, 0, p, g)
  <2>1. PICK j \in 1..n : IsSeed(q[j], p, g) BY <1>4 DEF Behind, n
  <2>2. CASE j = 1 BY <1>1, <2>1, <2>2
  <2>3. CASE j # 1
    <3>1. 0 + 1 < j BY <1>1, <2>3
    <3>2. QED BY <1>2, <2>1, <3>1
  <2>4. QED BY <2>2, <2>3
<1>5. QED BY <1>3, <1>4 DEF t

\* p puts a message or its seed on SendChan.
LEMMA FollowedSent ==
  ASSUME NEW m, NEW p, NEW g, NEW d, NEW r, NEW o \in Seq(Frame), NEW c,
         Followed(m, p, g, d, r, o, c), NEW f \in Frame, ~IsOld(f, p, g)
  PROVE  Followed(m, p, g, d, r, Append(o, f), c)
<1> DEFINE t == Append(o, f)
<1>1. \A i \in Nat : Behind(o, i, p, g) => Behind(t, i, p, g) BY BehindAppend
<1>2. Leaving(m, p, g, r, o) => Leaving(m, p, g, r, t) BY <1>1 DEF Leaving
<1>3. Len(o) \in Nat /\ \A i \in 1..Len(t) : (i \in 1..Len(o) /\ t[i] = o[i]) \/ t[i] = f BY AppendAt
<1> HIDE DEF t
<1>4. ASSUME NEW i \in 1..Len(t), IsOld(t[i], p, g) PROVE Behind(t, i, p, g)
  <2>1. i \in 1..Len(o) /\ t[i] = o[i] BY <1>3, <1>4
  <2>2. i \in Nat BY <1>3, <2>1
  <2>3. QED BY <1>1, <1>4, <2>1, <2>2 DEF Followed
<1>5. Followed(m, p, g, d, r, t, c) BY <1>1, <1>2, <1>4 DEF Followed
<1>6. QED BY <1>5 DEF t

\* p puts a new seed on SendChan.
LEMMA FollowedAnew ==
  ASSUME NEW m, NEW p, NEW g, NEW d, NEW r, NEW o \in Seq(Frame), NEW c,
         NEW f \in Frame, IsSeed(f, p, g)
  PROVE  Followed(m, p, g, d, r, Append(o, f), c)
<1> DEFINE t == Append(o, f)
<1>1. Len(o) \in Nat /\ \A i \in 1..Len(t) : (i \in 1..Len(o) /\ t[i] = o[i]) \/ t[i] = f BY AppendAt
<1>2. \A i \in 0..Len(o) : Behind(t, i, p, g) BY BehindAppend
<1> HIDE DEF t
<1>3. ~IsOld(f, p, g) BY DEF IsOld, IsSeed
<1>4. Behind(t, 0, p, g) /\ Leaving(m, p, g, r, t) BY <1>1, <1>2 DEF Leaving
<1>5. ASSUME NEW i \in 1..Len(t), IsOld(t[i], p, g) PROVE Behind(t, i, p, g)
  <2>1. i \in 1..Len(o) BY <1>1, <1>3, <1>5
  <2>2. i \in 0..Len(o) BY <1>1, <2>1
  <2>3. QED BY <1>2, <2>2
<1>6. Followed(m, p, g, d, r, t, c) BY <1>4, <1>5 DEF Followed
<1>7. QED BY <1>6 DEF t

\* p's write pump hands a frame to the hub, which relays it to m.
LEMMA FollowedWritten ==
  ASSUME NEW m, NEW p, NEW g, NEW d, NEW r, NEW o \in Seq(Frame), NEW c, o # <<>>,
         Followed(m, p, g, d, r, o, c), r.to = {}, NEW s, m \in s.to,
         Head(o).type = "KEY" => s.frame = Head(o), s.frame.type = Head(o).type
  PROVE  Followed(m, p, g, d, s, Tail(o), c)
<1> DEFINE t == Tail(o)  h == Head(o)
<1>1. /\ \A i \in Nat : Behind(o, i + 1, p, g) => Behind(t, i, p, g)
      /\ Behind(o, 0, p, g) => IsSeed(h, p, g) \/ Behind(t, 0, p, g)
  BY BehindTail
<1>2. /\ 1 \in 1..Len(o) /\ h = o[1] /\ Len(t) \in Nat
      /\ \A i \in 1..Len(t) : i + 1 \in 1..Len(o) /\ t[i] = o[i + 1]
  BY TailLeft
<1>3. h.type = "KEY" => s.frame = h OBVIOUS
<1>4. s.frame.type = h.type OBVIOUS
<1> HIDE DEF t, h
<1>5. Leaving(m, p, g, r, o) => Leaving(m, p, g, s, t) BY <1>1, <1>3 DEF Leaving, IsSeed
<1>6. ASSUME NEW i \in 1..Len(t), IsOld(t[i], p, g) PROVE Behind(t, i, p, g)
  <2>1. i + 1 \in 1..Len(o) /\ IsOld(o[i + 1], p, g) /\ i \in Nat BY <1>2, <1>6
  <2>2. Behind(o, i + 1, p, g) BY <2>1 DEF Followed
  <2>3. QED BY <1>1, <2>1, <2>2
<1>7. ASSUME IsOld(s.frame, p, g) PROVE Behind(t, 0, p, g)
  <2>1. IsOld(o[1], p, g) BY <1>2, <1>3, <1>4, <1>7 DEF IsOld
  <2>2. Behind(o, 0 + 1, p, g) BY <1>2, <2>1 DEF Followed
  <2>3. QED BY <1>1, <2>2
<1>8. Followed(m, p, g, d, s, t, c) BY <1>5, <1>6, <1>7 DEF Followed
<1>9. QED BY <1>8 DEF t

\* p's frame reaches m's queue.
LEMMA FollowedRelayed ==
  ASSUME NEW m, NEW p, NEW g, NEW d \in Seq(Frame), NEW r, NEW o, NEW c,
         Followed(m, p, g, d, r, o, c), m \in r.to, NEW s, m \notin s.to, r.frame \in Frame
  PROVE  /\ Followed(m, p, g, Append(d, r.frame), s, o, c)
         /\ r.frame.type # "KEY" => Followed(m, p, g, d, s, o, c)
<1> DEFINE f == r.frame  t == Append(d, f)
<1>1. /\ \A i \in Nat : Behind(d, i, p, g) => Behind(t, i, p, g)
      /\ IsSeed(f, p, g) => \A i \in 0..Len(d) : Behind(t, i, p, g)
  BY BehindAppend
<1>2. Len(d) \in Nat /\ \A i \in 1..Len(t) : (i \in 1..Len(d) /\ t[i] = d[i]) \/ t[i] = f BY AppendAt
<1> HIDE DEF t
<1>3. Leaving(m, p, g, r, o) => IsSeed(f, p, g) \/ Leaving(m, p, g, s, o) BY DEF Leaving
<1>4. ASSUME NEW i \in 1..Len(t), IsOld(t[i], p, g)
      PROVE  Behind(t, i, p, g) \/ Leaving(m, p, g, s, o)
  <2>1. CASE i \in 1..Len(d) /\ t[i] = d[i]
    <3>1. Behind(d, i, p, g) \/ Leaving(m, p, g, r, o) BY <1>4, <2>1 DEF Followed
    <3>2. i \in Nat /\ i \in 0..Len(d) BY <1>2, <2>1
    <3>3. QED BY <1>1, <1>3, <3>1, <3>2
  <2>2. CASE t[i] = f
    <3>1. Behind(o, 0, p, g) BY <1>4, <2>2 DEF Followed
    <3>2. QED BY <3>1 DEF Leaving
  <2>3. QED BY <1>2, <2>1, <2>2
<1>5. c \in {0, g} \/ Behind(t, 0, p, g) \/ Leaving(m, p, g, s, o)
  <2>1. 0 \in Nat /\ 0 \in 0..Len(d) BY <1>2
  <2>2. QED BY <1>1, <1>3, <2>1 DEF Followed
<1>6. Followed(m, p, g, t, s, o, c) BY <1>4, <1>5 DEF Followed
<1>7. ASSUME f.type # "KEY" PROVE Followed(m, p, g, d, s, o, c)
  <2>1. ~IsSeed(f, p, g) BY <1>7 DEF IsSeed
  <2>2. QED BY <1>3, <2>1 DEF Followed
<1>8. QED BY <1>6, <1>7 DEF t

\* Another frame reaches m's queue.
LEMMA FollowedByOther ==
  ASSUME NEW m, NEW p, NEW g, NEW d \in Seq(Frame), NEW r, NEW o, NEW c,
         Followed(m, p, g, d, r, o, c), NEW f \in Frame, f.type # "KEY" \/ f.from # p
  PROVE  Followed(m, p, g, Append(d, f), r, o, c)
<1> DEFINE t == Append(d, f)
<1>1. \A i \in Nat : Behind(d, i, p, g) => Behind(t, i, p, g) BY BehindAppend
<1>2. Len(d) \in Nat /\ \A i \in 1..Len(t) : (i \in 1..Len(d) /\ t[i] = d[i]) \/ t[i] = f BY AppendAt
<1> HIDE DEF t
<1>3. ~IsOld(f, p, g) BY DEF IsOld
<1>4. ASSUME NEW i \in 1..Len(t), IsOld(t[i], p, g)
      PROVE  Behind(t, i, p, g) \/ Leaving(m, p, g, r, o)
  <2>1. i \in 1..Len(d) /\ t[i] = d[i] BY <1>2, <1>3, <1>4
  <2>2. i \in Nat BY <1>2, <2>1
  <2>3. QED BY <1>1, <1>4, <2>1, <2>2 DEF Followed
<1>5. c \in {0, g} \/ Behind(t, 0, p, g) \/ Leaving(m, p, g, r, o) BY <1>1 DEF Followed
<1>6. Followed(m, p, g, t, r, o, c) BY <1>4, <1>5 DEF Followed
<1>7. QED BY <1>6 DEF t

\* m reads a frame: it forgets seeds, takes this one, or neither.
LEMMA FollowedRead ==
  ASSUME NEW m, NEW p, NEW g, NEW d \in Seq(Frame), NEW r, NEW o, NEW c, d # <<>>,
         Followed(m, p, g, d, r, o, c), NEW b,
         IF Head(d).type = "KEY" /\ Head(d).from = p THEN b = Head(d).gen ELSE b \in {0, c}
  PROVE  Followed(m, p, g, Tail(d), r, o, b)
<1> DEFINE t == Tail(d)  h == Head(d)
<1>1. /\ \A i \in Nat : Behind(d, i + 1, p, g) => Behind(t, i, p, g)
      /\ Behind(d, 0, p, g) => IsSeed(h, p, g) \/ Behind(t, 0, p, g)
  BY BehindTail
<1>2. /\ 1 \in 1..Len(d) /\ h = d[1] /\ Len(t) \in Nat
      /\ \A i \in 1..Len(t) : i + 1 \in 1..Len(d) /\ t[i] = d[i + 1]
  BY TailLeft
<1>3. IF h.type = "KEY" /\ h.from = p THEN b = h.gen ELSE b \in {0, c} OBVIOUS
<1> HIDE DEF t, h
<1>4. ASSUME NEW i \in 1..Len(t), IsOld(t[i], p, g)
      PROVE  Behind(t, i, p, g) \/ Leaving(m, p, g, r, o)
  <2>1. i + 1 \in 1..Len(d) /\ IsOld(d[i + 1], p, g) /\ i \in Nat BY <1>2, <1>4
  <2>2. Behind(d, i + 1, p, g) \/ Leaving(m, p, g, r, o) BY <2>1 DEF Followed
  <2>3. QED BY <1>1, <2>1, <2>2
<1>5. b \in {0, g} \/ Behind(t, 0, p, g) \/ Leaving(m, p, g, r, o)
  <2>1. CASE IsOld(h, p, g)
    <3>1. Behind(d, 0 + 1, p, g) \/ Leaving(m, p, g, r, o) BY <1>2, <2>1 DEF Followed
    <3>2. QED BY <1>1, <3>1
  <2>2. CASE IsSeed(h, p, g) BY <1>3, <2>2 DEF IsSeed
  <2>3. CASE ~IsOld(h, p, g) /\ ~IsSeed(h, p, g)
    <3>1. b \in {0, c} BY <1>3, <2>3 DEF IsOld, IsSeed
    <3>2. QED BY <1>1, <2>3, <3>1 DEF Followed
  <2>4. QED BY <2>1, <2>2, <2>3
<1>6. Followed(m, p, g, t, r, o, b) BY <1>4, <1>5 DEF Followed
<1>7. QED BY <1>6 DEF t

\* What FollowInv says of m and p.
Follows(m, p) == Followed(m, p, own[p].gen, down[m], relay[p], outq[p], chains[m][p].gen)

LEMMA FollowStill ==
  ASSUME FollowInv, registered' \subseteq registered, lost \subseteq lost',
         \A m, p \in registered' : m # p /\ p \notin lost' /\ Follows(m, p) => Follows(m, p)'
  PROVE  FollowInv'
<1> SUFFICES ASSUME NEW m \in registered', NEW p \in registered', m # p, p \notin lost'
             PROVE  Follows(m, p)'
  BY DEF FollowInv, Follows
<1>1. Follows(m, p) BY DEF FollowInv, Follows
<1>2. QED BY <1>1

LEMMA FollowHub ==
  ASSUME Typed, ReadingTyped, OnceInv, FollowInv,
         (\E event \in Events : MembershipEvent(event)) \/ Hub
  PROVE  FollowInv'
<1>1. ASSUME NEW event \in Events, MembershipEvent(event) PROVE FollowInv'
  <2>1. /\ registered' \subseteq registered /\ UNCHANGED <<relay, down, outq, lost, own, chains>>
    BY <1>1 DEF MembershipEvent, clientVars, Remaining
  <2>2. \A m, p \in registered' : Follows(m, p) => Follows(m, p)' BY <2>1 DEF Follows
  <2>3. QED BY <2>1, <2>2, FollowStill
<1>2. CASE StartCast
  <2>1. UNCHANGED <<registered, relay, down, outq, lost, own, chains>>
    BY <1>2 DEF StartCast, clientVars
  <2>2. \A m, p \in registered' : Follows(m, p) => Follows(m, p)' BY <2>1 DEF Follows
  <2>3. QED BY <2>1, <2>2, FollowStill
<1>3. ASSUME NEW h \in Members, CastTo(h) PROVE FollowInv'
  <2> DEFINE f == cast.frame
  <2>1. /\ h \in cast.to /\ Deliver(h, f)
        /\ UNCHANGED <<registered, relay, outq, own, chains>>
    BY <1>3 DEF CastTo, clientVars
  <2>2. f \in Frame /\ f.type # "KEY"
    <3>1. cast.to # {} BY <2>1
    <3>2. QED BY <3>1 DEF Typed, Broadcast, OnceInv
  <2> HIDE DEF f
  <2>3. lost' = lost BY <2>1, <2>2 DEF Deliver, Dropped
  <2>4. ASSUME NEW m \in registered, NEW p \in registered, Follows(m, p) PROVE Follows(m, p)'
    <3>1. m \in Members /\ p \in Members BY DEF Typed
    <3>2. down'[m] = down[m] \/ down'[m] = Append(down[m], f)
      BY <2>1, <3>1 DEF Deliver, Typed
    <3>3. down[m] \in Seq(Frame) BY <3>1 DEF Typed
    <3>4. Followed(m, p, own[p].gen, Append(down[m], f), relay[p], outq[p], chains[m][p].gen)
      BY <2>2, <2>4, <3>3, FollowedByOther DEF Follows
    <3>5. QED BY <2>1, <2>4, <3>2, <3>4 DEF Follows
  <2>5. QED BY <2>1, <2>3, <2>4, FollowStill
<1>4. ASSUME NEW h \in Members, NEW k \in Members, RelayTo(k, h) PROVE FollowInv'
  <2> DEFINE r == relay[k]  f == relay[k].frame  s == [r EXCEPT !.to = r.to \ {h}]
  <2>1. /\ h \in r.to /\ Deliver(h, f) /\ relay' = [relay EXCEPT ![k] = s]
        /\ UNCHANGED <<registered, outq, own, chains>>
    BY <1>4 DEF RelayTo, clientVars
  <2>2. r \in Broadcast /\ f \in Frame BY DEF Typed, Broadcast
  <2>3. s.frame = r.frame /\ s.to = r.to \ {h} BY <2>2 DEF Broadcast
  <2>4. relay'[k] = s /\ \A p \in Members : p # k => relay'[p] = relay[p] BY <2>1 DEF Typed
  <2>5. f.from = k
    <3>1. SentInOrder(k, outq[k], relay[k], said[k]) BY DEF OnceInv
    <3>2. QED BY <2>1, <3>1 DEF SentInOrder
  <2>6. /\ lost \subseteq lost'
        /\ \/ down' = [down EXCEPT ![h] = Append(down[h], f)]
           \/ down' = down /\ (f.type = "KEY" => k \in lost')
    <3>1. CASE Len(down[h]) < DownCap BY <2>1, <3>1 DEF Deliver
    <3>2. CASE ~(Len(down[h]) < DownCap)
      <4>1. down' = down /\ Dropped(f) BY <2>1, <3>2 DEF Deliver
      <4> HIDE DEF f
      <4>2. QED BY <2>5, <4>1 DEF Dropped
    <3>3. QED BY <3>1, <3>2
  <2>7. f = r.frame OBVIOUS
  <2> HIDE DEF r, f, s
  <2>8. ASSUME NEW m \in registered, NEW p \in registered, m # p, p \notin lost', Follows(m, p)
        PROVE  Follows(m, p)'
    <3>1. m \in Members /\ p \in Members BY DEF Typed
    <3> DEFINE g == own[p].gen  d == down[m]  o == outq[p]  c == chains[m][p].gen
    <3>2. Followed(m, p, g, d, relay[p], o, c) /\ d \in Seq(Frame)
      BY <2>8, <3>1 DEF Follows, Typed
    <3>3. g = own'[p].gen /\ o = outq'[p] /\ c = chains'[m][p].gen BY <2>1
    <3>4. m # h => down'[m] = d BY <2>6, <3>1 DEF Typed
    <3>5. m = h => \/ down'[m] = Append(d, f)
                   \/ down'[m] = d /\ (f.type = "KEY" => k \in lost')
      BY <2>6, <3>1 DEF Typed
    <3> HIDE DEF g, d, o, c
    <3>6. CASE p = k /\ m = h
      <4>1. relay[p] = r /\ relay'[p] = s /\ m \in r.to /\ m \notin s.to
        BY <2>1, <2>3, <2>4, <3>6 DEF r
      <4>2. /\ Followed(m, p, g, Append(d, r.frame), s, o, c)
            /\ r.frame.type # "KEY" => Followed(m, p, g, d, s, o, c)
        BY <2>2, <2>7, <3>2, <4>1, FollowedRelayed
      <4>3. Followed(m, p, g, down'[m], s, o, c) BY <2>7, <2>8, <3>5, <3>6, <4>2
      <4>4. QED BY <3>3, <4>1, <4>3 DEF Follows
    <3>7. CASE p = k /\ m # h
      <4>1. /\ relay[p] = r /\ relay'[p] = s /\ s.frame = r.frame
            /\ (m \in s.to) <=> (m \in r.to)
        BY <2>3, <2>4, <3>7 DEF r
      <4>2. Leaving(m, p, g, r, o) <=> Leaving(m, p, g, s, o) BY <4>1 DEF Leaving
      <4>3. Followed(m, p, g, d, s, o, c) BY <3>2, <4>1, <4>2 DEF Followed
      <4>4. QED BY <3>3, <3>4, <3>7, <4>1, <4>3 DEF Follows
    <3>8. CASE p # k
      <4>1. relay'[p] = relay[p] BY <2>4, <3>1, <3>8
      <4>2. f.type # "KEY" \/ f.from # p BY <2>5, <3>8
      <4>3. Followed(m, p, g, Append(d, f), relay[p], o, c)
        BY <2>2, <3>2, <4>2, FollowedByOther
      <4>4. Followed(m, p, g, down'[m], relay[p], o, c) BY <3>2, <3>4, <3>5, <4>3
      <4>5. QED BY <3>3, <4>1, <4>4 DEF Follows
    <3>9. QED BY <3>6, <3>7, <3>8
  <2>9. QED BY <2>1, <2>6, <2>8, FollowStill
<1>5. QED BY <1>1, <1>2, <1>3, <1>4 DEF Hub

LEMMA FollowSend ==
  ASSUME Typed, ReadingTyped, OnceInv, FollowInv, NEW h \in Members, Say(h) \/ WritePump(h)
  PROVE  FollowInv'
<1>1. CASE Say(h)
  <2> DEFINE chat == [type |-> "CHAT", from |-> h, gen |-> 0, step |-> 0, body |-> said[h] + 1]
  <2>1. /\ outq' = [outq EXCEPT ![h] = Append(outq[h], chat)]
        /\ UNCHANGED <<registered, relay, down, lost, own, chains>>
    BY <1>1 DEF Say, hubVars, clientVars
  <2>2. PICK f \in Frame : f = chat
    <3>1. said[h] + 1 \in Nat BY DEF Typed
    <3>2. chat \in Frame BY <3>1 DEF Frame
    <3>3. QED BY <3>2
  <2>3. f.type # "KEY" BY <2>2
  <2>4. outq'[h] = Append(outq[h], f) /\ \A p \in Members : p # h => outq'[p] = outq[p]
    BY <2>1, <2>2 DEF Typed
  <2> HIDE DEF chat
  <2>5. ASSUME NEW m \in registered, NEW p \in registered, Follows(m, p) PROVE Follows(m, p)'
    <3>1. p \in Members /\ outq[p] \in Seq(Frame) BY DEF Typed
    <3>2. ~IsOld(f, p, own[p].gen) BY <2>3 DEF IsOld
    <3>3. Followed(m, p, own[p].gen, down[m], relay[p], Append(outq[p], f), chains[m][p].gen)
      BY <2>5, <3>1, <3>2, FollowedSent DEF Follows
    <3>4. CASE p = h BY <2>1, <2>4, <3>3, <3>4 DEF Follows
    <3>5. CASE p # h BY <2>1, <2>4, <2>5, <3>1, <3>5 DEF Follows
    <3>6. QED BY <3>4, <3>5
  <2>6. QED BY <2>1, <2>5, FollowStill
<1>2. CASE WritePump(h)
  <2> DEFINE o == outq[h]  r == relay[h]  e == Encrypted(h, Head(o))  s == Relayed(h, e)
  <2>1. /\ o # <<>> /\ r.to = {} /\ relay' = [relay EXCEPT ![h] = s]
        /\ own' = IF Head(o).type = "CHAT" THEN [own EXCEPT ![h].step = own[h].step + 1] ELSE own
        /\ outq' = [outq EXCEPT ![h] = Tail(o)]
        /\ UNCHANGED <<registered, down, lost, chains>>
    BY <1>2 DEF WritePump
  <2>2. o \in Seq(Frame) /\ Head(o) \in Frame BY <2>1 DEF Typed
  <2>3. e.type = Head(o).type /\ (Head(o).type = "KEY" => e = Head(o))
    BY <2>2 DEF Encrypted, Frame
  <2>4. s.frame = e /\ s.to = registered \ {h} BY DEF Relayed
  <2>5. /\ relay'[h] = s /\ outq'[h] = Tail(o)
        /\ \A p \in Members : p # h => relay'[p] = relay[p] /\ outq'[p] = outq[p]
    BY <2>1 DEF Typed
  <2>6. \A p \in Members : own'[p].gen = own[p].gen
    <3> SUFFICES ASSUME NEW p \in Members PROVE own'[p].gen = own[p].gen OBVIOUS
    <3>1. CASE Head(o).type # "CHAT" BY <2>1, <3>1
    <3>2. CASE Head(o).type = "CHAT"
      <4> DEFINE c == [own[h] EXCEPT !.step = own[h].step + 1]
      <4>1. own' = [own EXCEPT ![h] = c] BY <2>1, <3>2
      <4>2. c.gen = own[h].gen BY DEF Typed, Chain
      <4> HIDE DEF c
      <4>3. QED BY <4>1, <4>2 DEF Typed
    <3>3. QED BY <3>1, <3>2
  <2> HIDE DEF o, r, e, s
  <2>7. ASSUME NEW m \in registered, NEW p \in registered, m # p, Follows(m, p)
        PROVE  Follows(m, p)'
    <3>1. m \in Members /\ p \in Members BY DEF Typed
    <3>2. CASE p = h
      <4> DEFINE g == own[p].gen  d == down[m]  c == chains[m][p].gen
      <4>1. Followed(m, p, g, d, r, o, c) BY <2>7, <3>2 DEF Follows, r, o
      <4>2. m \in s.to BY <2>4, <2>7, <3>2
      <4>3. Followed(m, p, g, d, s, Tail(o), c)
        <5> HIDE DEF g, d, c
        <5>1. QED BY <2>1, <2>2, <2>3, <2>4, <4>1, <4>2, FollowedWritten
      <4>4. QED BY <2>1, <2>5, <2>6, <3>1, <3>2, <4>3 DEF Follows
    <3>3. CASE p # h BY <2>1, <2>5, <2>6, <2>7, <3>1, <3>3 DEF Follows
    <3>4. QED BY <3>2, <3>3
  <2>8. QED BY <2>1, <2>7, FollowStill
<1>3. QED BY <1>1, <1>2

\* What publishSenderKey does: it queues the seed, or the member is in lost.
LEMMA SeedQueued ==
  ASSUME Typed, NEW h \in Members, NEW gen \in Nat, publishSenderKey(h, gen)
  PROVE  /\ \A p \in Members : p # h => outq'[p] = outq[p] /\ (p \in lost' <=> p \in lost)
         /\ h \notin lost' => /\ gen = own'[h].gen
                             /\ \E k \in Frame : IsSeed(k, h, gen) /\ outq'[h] = Append(outq[h], k)
<1>1. PICK k \in Frame : k = KeyFrame(h, gen) BY PublishEnqueues
<1>2. k.type = "KEY" /\ k.from = h /\ k.gen = gen BY <1>1 DEF KeyFrame
<1>3. CASE /\ outq' = [outq EXCEPT ![h] = Append(outq[h], k)]
           /\ lost' = IF gen = own'[h].gen THEN lost \ {h} ELSE lost \cup {h}
  <2>1. outq'[h] = Append(outq[h], k) /\ \A p \in Members : p # h => outq'[p] = outq[p]
    BY <1>3 DEF Typed
  <2>2. QED BY <1>2, <1>3, <2>1 DEF IsSeed
<1>4. CASE UNCHANGED outq /\ Dropped(k)
  <2>1. lost' = lost \cup {h} BY <1>2, <1>4 DEF Dropped
  <2>2. QED BY <1>4, <2>1
<1>5. QED BY <1>1, <1>3, <1>4 DEF publishSenderKey

LEMMA FollowRead ==
  ASSUME Typed, ReadingTyped, OnceInv, FollowInv, NEW h \in Members, ReadPump(h)
  PROVE  FollowInv'
<1> DEFINE q == down[h]
<1>1. /\ q # <<>> /\ down' = [down EXCEPT ![h] = Tail(q)] /\ UNCHANGED <<registered, relay>>
  BY DEF ReadPump, hubVars
<1>2. q \in Seq(Frame) BY DEF Typed
<1>3. PICK f \in Frame : f = Head(q) BY <1>1, <1>2
<1>4. \/ ReceiveEpoch(h, f) \/ ReceiveUserList(h, f) \/ ReceiveKey(h, f)
      \/ ReceiveChat(h, f) \/ ReceiveUnreadable(h, f)
  BY <1>3 DEF ReadPump
<1>5. Rechains(h, f) BY <1>4, ReceiveDoes
<1>6. \/ UNCHANGED <<own, outq, lost>>
      \/ UNCHANGED own /\ publishSenderKey(h, own[h].gen)
      \/ /\ own' = [own EXCEPT ![h] = NewRatchet(own[h].gen + 1)]
         /\ publishSenderKey(h, own[h].gen + 1)
  BY <1>4, ReceiveSends
<1>7. own[h].gen \in Nat /\ own[h].gen + 1 \in Nat BY DEF Typed, Chain
<1>8. down'[h] = Tail(q) /\ \A m \in Members : m # h => down'[m] = down[m] BY <1>1 DEF Typed
<1>9. ASSUME NEW gen \in Nat, gen = own'[h].gen, publishSenderKey(h, gen)
      PROVE  /\ \A p \in Members : p # h => outq'[p] = outq[p] /\ (p \in lost' <=> p \in lost)
             /\ h \notin lost' =>
                  \E k \in Frame : IsSeed(k, h, gen) /\ outq'[h] = Append(outq[h], k)
  BY <1>9, SeedQueued
<1>10. \A p \in Members : p # h =>
         outq'[p] = outq[p] /\ own'[p] = own[p] /\ (p \in lost' <=> p \in lost)
  <2>1. CASE UNCHANGED <<own, outq, lost>> BY <2>1
  <2>2. CASE UNCHANGED own /\ publishSenderKey(h, own[h].gen) BY <1>7, <1>9, <2>2
  <2>3. CASE /\ own' = [own EXCEPT ![h] = NewRatchet(own[h].gen + 1)]
             /\ publishSenderKey(h, own[h].gen + 1)
    <3>1. own'[h].gen = own[h].gen + 1 /\ \A p \in Members : p # h => own'[p] = own[p]
      BY <2>3 DEF NewRatchet, Typed
    <3>2. QED BY <1>7, <1>9, <2>3, <3>1
  <2>4. QED BY <1>6, <2>1, <2>2, <2>3
<1> HIDE DEF q
<1>11. ASSUME NEW m \in registered, NEW p \in registered, m # p, p \notin lost'
       PROVE  Follows(m, p)'
  <2>1. m \in Members /\ p \in Members /\ outq[p] \in Seq(Frame) BY DEF Typed
  <2> DEFINE g == own[p].gen  d == down[m]  r == relay[p]  o == outq[p]  c == chains[m][p].gen
  <2>2. p \notin lost => Follows(m, p) /\ Followed(m, p, g, d, r, o, c)
    BY <1>11 DEF FollowInv, Follows
  <2>3. CASE m = h
    <3> DEFINE b == chains'[m][p].gen
    <3>1. IF Head(q).type = "KEY" /\ Head(q).from = p THEN b = Head(q).gen ELSE b \in {0, c}
      BY <1>3, <1>5, <2>1, <2>3 DEF Rechains
    <3>2. Followed(m, p, g, q, r, o, c) BY <1>10, <1>11, <2>1, <2>2, <2>3 DEF q
    <3>3. Followed(m, p, g, Tail(q), r, o, b)
      <4> HIDE DEF g, r, o, c, b
      <4>1. QED BY <1>1, <1>2, <3>1, <3>2, FollowedRead
    <3>4. own'[p] = own[p] /\ outq'[p] = outq[p] BY <1>10, <1>11, <2>1, <2>3
    <3>5. QED BY <1>1, <1>8, <2>3, <3>3, <3>4 DEF Follows
  <2>4. CASE m # h /\ p # h
    <3>1. /\ own'[p] = own[p] /\ outq'[p] = outq[p] /\ down'[m] = down[m] /\ chains'[m] = chains[m]
      BY <1>5, <1>8, <1>10, <2>1, <2>4 DEF Rechains
    <3>2. Follows(m, p) BY <1>10, <1>11, <2>1, <2>2, <2>4
    <3>3. QED BY <1>1, <3>1, <3>2 DEF Follows
  <2>5. CASE m # h /\ p = h
    <3>1. down'[m] = d /\ chains'[m] = chains[m] /\ relay' = relay
      BY <1>1, <1>5, <1>8, <2>1, <2>5 DEF Rechains
    <3>2. CASE UNCHANGED <<own, outq, lost>> BY <1>11, <2>2, <3>1, <3>2 DEF Follows
    <3>3. CASE UNCHANGED own /\ publishSenderKey(h, own[h].gen)
      <4>1. PICK k \in Frame : IsSeed(k, p, g) /\ outq'[p] = Append(o, k)
        BY <1>7, <1>9, <1>11, <2>5, <3>3
      <4>2. Followed(m, p, g, d, r, Append(o, k), c)
        <5> HIDE DEF g, r, o, c, d
        <5>1. QED BY <2>1, <4>1, FollowedAnew DEF o
      <4>3. QED BY <3>1, <3>3, <4>1, <4>2 DEF Follows
    <3>4. CASE /\ own' = [own EXCEPT ![h] = NewRatchet(own[h].gen + 1)]
               /\ publishSenderKey(h, own[h].gen + 1)
      <4> DEFINE n == own[h].gen + 1
      <4>1. own'[p].gen = n BY <2>5, <3>4 DEF NewRatchet, Typed
      <4>2. PICK k \in Frame : IsSeed(k, p, n) /\ outq'[p] = Append(o, k)
        BY <1>7, <1>9, <1>11, <2>5, <3>4, <4>1
      <4>3. Followed(m, p, n, d, r, Append(o, k), c)
        <5> HIDE DEF n, r, o, c, d
        <5>1. QED BY <2>1, <4>2, FollowedAnew DEF o
      <4>4. QED BY <3>1, <4>1, <4>2, <4>3 DEF Follows
    <3>5. QED BY <1>6, <3>2, <3>3, <3>4
  <2>6. QED BY <2>3, <2>4, <2>5
<1>12. QED BY <1>1, <1>11 DEF FollowInv, Follows

\* Connect's goroutine: a seed that is not in force any more puts its member in lost.
LEMMA FollowStarter ==
  ASSUME Typed, ExportInv, FollowInv, NEW h \in Members, ExportSeed(h) \/ EnqueueSeed(h)
  PROVE  FollowInv'
<1>1. UNCHANGED <<registered, relay, down, own, chains>>
  BY DEF ExportSeed, EnqueueSeed, hubVars, clientVars
<1>2. CASE ExportSeed(h)
  <2>1. UNCHANGED <<outq, lost>> BY <1>2 DEF ExportSeed
  <2>2. QED BY <1>1, <2>1 DEF FollowInv
<1>3. CASE EnqueueSeed(h)
  <2> DEFINE gen == exported[h]
  <2>1. publishSenderKey(h, gen) /\ gen \in Nat BY <1>3 DEF EnqueueSeed, ExportInv
  <2>2. /\ \A p \in Members : p # h => outq'[p] = outq[p] /\ (p \in lost' <=> p \in lost)
        /\ h \notin lost' => /\ gen = own'[h].gen
                            /\ \E k \in Frame : IsSeed(k, h, gen) /\ outq'[h] = Append(outq[h], k)
    BY <2>1, SeedQueued
  <2> HIDE DEF gen
  <2>3. ASSUME NEW m \in registered, NEW p \in registered, m # p, p \notin lost'
        PROVE  Follows(m, p)'
    <3>1. p \in Members /\ outq[p] \in Seq(Frame) BY DEF Typed
    <3>2. CASE p = h
      <4>1. PICK k \in Frame : IsSeed(k, h, gen) /\ outq'[h] = Append(outq[h], k)
        BY <2>2, <2>3, <3>2
      <4>2. Followed(m, h, gen, down[m], relay[h], Append(outq[h], k), chains[m][h].gen)
        BY <3>1, <3>2, <4>1, FollowedAnew
      <4>3. gen = own[h].gen BY <1>1, <2>2, <2>3, <3>2
      <4>4. QED BY <1>1, <3>2, <4>1, <4>2, <4>3 DEF Follows
    <3>3. CASE p # h
      <4>1. Follows(m, p) BY <2>2, <2>3, <3>1, <3>3 DEF FollowInv, Follows
      <4>2. QED BY <1>1, <2>2, <3>1, <3>3, <4>1 DEF Follows
    <3>4. QED BY <3>2, <3>3
  <2>4. QED BY <1>1, <2>3 DEF FollowInv, Follows
<1>4. QED BY <1>2, <1>3

LEMMA FollowInit == Init => FollowInv
<1> SUFFICES ASSUME Init PROVE FollowInv OBVIOUS
<1>1. \A m \in Members : \A i : i \notin 1..Len(down[m]) /\ i \notin 1..Len(outq[m])
  BY DEF Init
<1>2. /\ registered = Members /\ \A p \in Members : relay[p].to = {} /\ own[p].gen = 1
      /\ \A m, p \in Members : chains[m][p].gen = 1
  BY DEF Init, Idle, NewRatchet
<1>3. QED BY <1>1, <1>2 DEF FollowInv, Followed

LEMMA FollowStep ==
  Typed /\ ExportInv /\ ReadingTyped /\ OnceInv /\ FollowInv /\ [Next]_vars => FollowInv'
<1> SUFFICES ASSUME Typed, ExportInv, ReadingTyped, OnceInv, FollowInv, [Next]_vars
             PROVE  FollowInv'
  OBVIOUS
<1>1. CASE (\E event \in Events : MembershipEvent(event)) \/ Hub BY <1>1, FollowHub
<1>2. ASSUME NEW m \in Members, Say(m) \/ WritePump(m) PROVE FollowInv' BY <1>2, FollowSend
<1>3. ASSUME NEW m \in Members, ReadPump(m) PROVE FollowInv' BY <1>3, FollowRead
<1>4. CASE UNCHANGED vars
  <2>1. UNCHANGED <<registered, relay, down, outq, lost, own, chains>>
    BY <1>4 DEF vars, hubVars, clientVars
  <2>2. QED BY <2>1 DEF FollowInv
<1>5. ASSUME NEW m \in Members, ExportSeed(m) \/ EnqueueSeed(m) PROVE FollowInv'
  BY <1>5, FollowStarter
<1>6. QED BY <1>1, <1>2, <1>3, <1>4, <1>5 DEF Next

\* When everything has arrived, nobody holds a seed that its owner has replaced,
\* unless one was dropped, or an older one queued by Connect's goroutine, after the
\* owner last queued the seed in force; for every group, window, queue size and
\* number of membership changes and of publishes at the start.  Behind each key of a
\* member on its way to another, and behind each seed held, the one in force is on
\* its way (readPump's EPOCH, publishSenderKey).
THEOREM NoSeedIsStale == Spec => []NoStaleChain
<1>1. FollowInv => NoStaleChain
  <2> SUFFICES ASSUME FollowInv, Settled, NEW m \in registered, NEW p \in registered, m # p,
                      p \notin lost
               PROVE  chains[m][p].gen \in {0, own[p].gen}
    BY DEF NoStaleChain
  <2> DEFINE g == own[p].gen  c == chains[m][p].gen
  <2>1. Followed(m, p, g, down[m], relay[p], outq[p], c) BY DEF FollowInv
  <2>2. down[m] = <<>> /\ outq[p] = <<>> /\ relay[p].to = {} BY DEF Settled
  <2>3. \A i : i \notin 1..Len(<<>>) OBVIOUS
  <2> HIDE DEF g, c
  <2>4. ~Behind(down[m], 0, p, g) /\ ~Leaving(m, p, g, relay[p], outq[p])
    BY <2>2, <2>3 DEF Behind, Leaving
  <2>5. c \in {0, g} BY <2>1, <2>4 DEF Followed
  <2>6. QED BY <2>5 DEF g, c
<1>2. Init => Typed /\ SeedInv /\ ExportInv /\ ReadingTyped /\ OnceInv /\ FollowInv
  BY GroupInit, ExportInit, ReadingInit, OnceInit, FollowInit
<1>3. Typed /\ SeedInv /\ ExportInv /\ ReadingTyped /\ OnceInv /\ FollowInv /\ [Next]_vars
        => (Typed /\ SeedInv /\ ExportInv /\ ReadingTyped /\ OnceInv /\ FollowInv)'
  BY GroupStep, ReadingStep, OnceStep, FollowStep
<1>4. QED BY <1>1, <1>2, <1>3, PTL DEF Spec
=============================================================================
