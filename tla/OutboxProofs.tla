---------------------------- MODULE OutboxProofs ----------------------------
(***************************************************************************)
(* One modification, one upload: proofs about Outbox for any files, either *)
(* way of watching, any clock and any number of writes and downloads.      *)
(***************************************************************************)
EXTENDS Outbox, SequenceTheorems, TLAPS

Job == [name : Names, ver : Nat]

LEMMA SomeName == (CHOOSE f \in Names : TRUE) \in Names
BY OutboxAssumption

\* Dropping an offerFile goroutine that ended leaves a sequence of the others.
LEMMA RemovedJob ==
  ASSUME NEW s \in Seq(Job), NEW i \in 1..Len(s) PROVE RemoveAt(s, i) \in Seq(Job)
<1>1. SubSeq(s, 1, i - 1) \in Seq(Job) BY SubSeqProperties
<1>2. SubSeq(s, i + 1, Len(s)) \in Seq(Job) BY SubSeqProperties
<1>3. QED BY <1>1, <1>2, ConcatProperties DEF RemoveAt

LEMMA OutboxInit == Init => TypeOK
<1> SUFFICES ASSUME Init PROVE TypeOK OBVIOUS
<1>1. Missing \in Version /\ [ver |-> 1, mt |-> 1] \in Version BY DEF Missing, Version
<1>2. disk \in [Names -> Version] BY <1>1 DEF Init
<1>3. found \in [name : Names, mt : Nat] /\ fetch \in [name : Names, at : {"none", "get", "mark"}, mt : Nat]
  BY SomeName DEF Init
<1>4. events \in Seq(Names) /\ jobs \in Seq([name : Names, ver : Nat]) /\ takes \in Seq(Names \X Nat)
  BY DEF Init
<1>5. QED BY <1>2, <1>3, <1>4, OutboxAssumption DEF Init, TypeOK

\* The changes the user makes to the directory.
LEMMA UserTypes == ASSUME TypeOK, User PROVE TypeOK'
<1>1. PICK f \in Names : WriteFile(f) \/ RemoveFile(f) \/ \E mt \in 1..(clock - 1) : MoveIn(f, mt)
  BY DEF User
<1>2. ASSUME NEW ver \in Nat, NEW mt \in Nat PROVE [ver |-> ver, mt |-> mt] \in Version
  BY DEF Version
<1>3. writes < MaxWrites => writes + 1 \in 0..MaxWrites /\ writes + 2 \in Nat
  BY OutboxAssumption DEF TypeOK
<1>4. CASE WriteFile(f)
  <2>1. clock' \in Nat BY <1>4 DEF WriteFile, Ticks, TypeOK
  <2>2. [ver |-> writes + 2, mt |-> clock] \in Version BY <1>2, <1>3, <1>4 DEF WriteFile, TypeOK
  <2>3. disk' \in [Names -> Version] BY <1>4, <2>2 DEF WriteFile, TypeOK
  <2>4. events' \in Seq(Names)
    <3>1. <<f>> \in Seq(Names) /\ <<f, f>> \in Seq(Names) OBVIOUS
    <3>2. QED BY <1>4, <3>1, ConcatProperties DEF WriteFile, Reported, TypeOK
  <2>5. QED BY <1>3, <1>4, <2>1, <2>3, <2>4 DEF WriteFile, TypeOK, download, results
<1>5. ASSUME NEW mt \in 1..(clock - 1), MoveIn(f, mt) PROVE TypeOK'
  <2>1. mt \in Nat BY DEF TypeOK
  <2>2. [ver |-> writes + 2, mt |-> mt] \in Version BY <1>2, <1>3, <1>5, <2>1 DEF MoveIn
  <2>3. disk' \in [Names -> Version] BY <1>5, <2>2 DEF MoveIn, TypeOK
  <2>4. events' \in Seq(Names) BY <1>5, AppendProperties DEF MoveIn, TypeOK
  <2>5. QED BY <1>3, <1>5, <2>3, <2>4 DEF MoveIn, TypeOK, download, results
<1>6. CASE RemoveFile(f)
  <2>1. disk' \in [Names -> Version] BY <1>6 DEF RemoveFile, TypeOK, Missing, Version
  <2>2. QED BY <1>3, <1>6, <2>1 DEF RemoveFile, TypeOK, watcher, download, results
<1>7. QED BY <1>1, <1>4, <1>5, <1>6

\* emit leaves the place it was called from, or goes to mark.
LEMMA EmitTypes ==
  ASSUME TypeOK, NEW f \in Names, NEW back \in {"scan", "loop"}, Emit(f, back)
  PROVE  place' \in {"scan", "loop", "mark"} /\ found' \in [name : Names, mt : Nat]
<1>1. disk[f].mt \in Nat BY DEF TypeOK, Version
<1>2. QED BY <1>1 DEF Emit, TypeOK

LEMMA WatchTypes == ASSUME TypeOK, Watch PROVE TypeOK'
<1> USE DEF outbox, download, results
<1>1. ASSUME NEW m \in Modes, Events(m) PROVE TypeOK'
  BY <1>1, OutboxAssumption DEF Events, TypeOK
<1>2. CASE AddWatch \/ Tick BY <1>2 DEF AddWatch, Tick, TypeOK
<1>3. CASE EndScan BY <1>3 DEF EndScan, TypeOK
<1>4. CASE NextEvent
  <2>1. Head(events) \in Names /\ Tail(events) \in Seq(Names) BY <1>4 DEF NextEvent, TypeOK
  <2>2. /\ events' = Tail(events)
        /\ \/ Emit(Head(events), "loop")
           \/ UNCHANGED <<place, found>>
        /\ UNCHANGED <<disk, clock, writes, mode, todo, seen, ledger, active, fetch, fetches,
                       disturbed, jobs, takes, offered, failed>>
    BY <1>4 DEF NextEvent
  <2>3. place' \in {"start", "watch", "scan", "mark", "loop", "stopped"}
        /\ found' \in [name : Names, mt : Nat]
    BY <2>1, <2>2, EmitTypes DEF TypeOK
  <2>4. QED BY <2>1, <2>2, <2>3 DEF TypeOK
<1>5. CASE Take
  <2> DEFINE job == [name |-> found.name, ver |-> 0]  t == <<found.name, found.mt>>
  <2>1. job \in Job /\ t \in Names \X Nat /\ found.name \in Names /\ found.mt \in Nat
    BY DEF TypeOK, Job
  <2>2. jobs' = Append(jobs, job) /\ takes' = Append(takes, t) BY <1>5 DEF Take
  <2>3. jobs' \in Seq([name : Names, ver : Nat]) /\ takes' \in Seq(Names \X Nat)
    BY <2>1, <2>2, AppendProperties DEF TypeOK, Job
  <2>4. ledger' \in [Names -> Nat] BY <1>5, <2>1 DEF Take, Marked, TypeOK
  <2> HIDE DEF job, t
  <2>5. QED BY <1>5, <2>3, <2>4 DEF Take, TypeOK
<1>6. ASSUME NEW f \in Names, Scan(f) PROVE TypeOK'
  <2>1. /\ todo' = todo \ {f}
        /\ UNCHANGED <<disk, clock, writes, mode, events, ledger, active, fetch, fetches,
                       disturbed, jobs, takes, offered, failed>>
    BY <1>6 DEF Scan
  <2>2. disk[f].mt \in Nat BY DEF TypeOK, Version
  <2>3. seen' \in [Names -> Nat] BY <1>6, <2>2 DEF Scan, TypeOK
  <2>4. UNCHANGED <<place, found>> \/ Emit(f, "scan") BY <1>6 DEF Scan
  <2>5. place' \in {"start", "watch", "scan", "mark", "loop", "stopped"}
        /\ found' \in [name : Names, mt : Nat]
    BY <2>4, EmitTypes DEF TypeOK
  <2>6. QED BY <2>1, <2>3, <2>5 DEF TypeOK
<1>7. QED BY <1>1, <1>2, <1>3, <1>4, <1>5, <1>6 DEF Watch

LEMMA WorkTypes == ASSUME TypeOK, Work PROVE TypeOK'
<1> USE DEF outbox, watcher, download, results
<1>0. jobs \in Seq(Job) BY DEF TypeOK, Job
<1>1. PICK i \in 1..Len(jobs) : Read(i) \/ ReadFails(i) \/ Offer(i) BY DEF Work
<1>2. jobs[i] \in Job BY <1>0
<1>3. jobs[i].name \in Names /\ jobs[i].ver \in Nat BY <1>2 DEF Job
<1>4. RemoveAt(jobs, i) \in Seq(Job) BY <1>0, RemovedJob
<1>5. CASE Read(i)
  <2> DEFINE j == [jobs[i] EXCEPT !.ver = disk[jobs[i].name].ver]
  <2>1. disk[jobs[i].name].ver \in Nat BY <1>3 DEF TypeOK, Version
  <2>2. j \in Job BY <1>2, <2>1 DEF Job
  <2>3. jobs' = RemoveAt(jobs, i) \/ jobs' = [jobs EXCEPT ![i] = j] BY <1>5 DEF Read
  <2> HIDE DEF j
  <2>4. [jobs EXCEPT ![i] = j] \in Seq(Job) BY <1>0, <2>2, ExceptSeq
  <2>5. jobs' \in Seq([name : Names, ver : Nat]) BY <1>4, <2>3, <2>4 DEF Job
  <2>6. QED BY <1>5, <2>5 DEF Read, TypeOK
<1>6. CASE Offer(i)
  <2>1. jobs' \in Seq([name : Names, ver : Nat]) BY <1>4, <1>6 DEF Offer, Job
  <2>2. <<jobs[i].name, jobs[i].ver>> \in Names \X Nat BY <1>3
  <2>3. offered' \subseteq Names \X Nat BY <1>6, <2>2 DEF Offer, TypeOK
  <2>4. QED BY <1>6, <2>1, <2>3 DEF Offer, TypeOK
<1>7. CASE ReadFails(i)
  <2>1. jobs' \in Seq([name : Names, ver : Nat]) BY <1>4, <1>7 DEF ReadFails, Job
  <2>2. <<jobs[i].name, disk[jobs[i].name].ver>> \in Names \X Nat
    BY <1>3 DEF TypeOK, Version
  <2>3. failed' \subseteq Names \X Nat BY <1>7, <2>2 DEF ReadFails, TypeOK
  <2>4. QED BY <1>7, <2>1, <2>3 DEF ReadFails, TypeOK
<1>8. QED BY <1>1, <1>5, <1>6, <1>7

LEMMA DownloadTypes == ASSUME TypeOK, Downloads \/ Stop PROVE TypeOK'
<1> USE DEF outbox, watcher, download, results
<1>1. ASSUME NEW f \in Names, StartFetch(f) PROVE TypeOK' BY <1>1 DEF StartFetch, TypeOK
<1>2. CASE Fetch BY <1>2 DEF Fetch, TypeOK
<1>3. CASE EndFetch BY <1>3 DEF EndFetch, TypeOK
<1>4. CASE Stop BY <1>4 DEF Stop, TypeOK
<1>5. QED BY <1>1, <1>2, <1>3, <1>4 DEF Downloads

LEMMA TypesStep == TypeOK /\ [Next]_vars => TypeOK'
<1>1. CASE UNCHANGED vars BY <1>1 DEF vars, outbox, watcher, download, results, TypeOK
<1>2. QED BY <1>1, UserTypes, WatchTypes, WorkTypes, DownloadTypes DEF Next

\* The outbox, the watcher, the ledger and the uploads keep their types; the
\* ledger has one time per name (watch.go, StartAutoSync and offerFile).
THEOREM OutboxTyped == Spec => []TypeOK
BY OutboxInit, TypesStep, PTL DEF Spec

-----------------------------------------------------------------------------
(* The ledger. *)

\* What a scan or an event finds has a modification time, which is never 0, the
\* ledger's mark for none.
TimesOK == clock # 0 /\ \A f \in Names : Exists(f) => disk[f].mt # 0

\* Downloads mark only names they have interfered with.
FetchesOK == active \subseteq disturbed /\ (fetch.at # "none" => fetch.name \in disturbed)

\* A file that is about to be taken is newer than the ledger, and the ledger is
\* not older than anything taken: emit's check still holds when it marks.
LedgerOK ==
  /\ place = "mark" /\ found.name \notin disturbed => ledger[found.name] < found.mt
  /\ \A i \in 1..Len(takes) : takes[i][1] \notin disturbed => takes[i][2] <= ledger[takes[i][1]]

LedgerInv == TypeOK /\ TimesOK /\ FetchesOK /\ LedgerOK /\ TakenOnce

LEMMA LedgerInit == Init => LedgerInv
<1> SUFFICES ASSUME Init PROVE LedgerInv OBVIOUS
<1>1. TypeOK BY OutboxInit
<1>2. TimesOK BY DEF Init, TimesOK, Exists, Missing
<1>3. FetchesOK BY DEF Init, FetchesOK
<1>4. \A i : i \notin 1..Len(takes) /\ i \notin DOMAIN takes BY DEF Init
<1>5. LedgerOK BY <1>4 DEF Init, LedgerOK
<1>6. TakenOnce BY <1>4 DEF TakenOnce
<1>7. QED BY <1>1, <1>2, <1>3, <1>5, <1>6 DEF LedgerInv

\* A step that takes nothing and does not touch the ledger.
LEMMA TakesKept ==
  ASSUME LedgerInv, UNCHANGED takes, disturbed \subseteq disturbed',
         \A f \in Names : f \notin disturbed' => ledger'[f] = ledger[f],
         place' = "mark" /\ found'.name \notin disturbed' =>
           ledger'[found'.name] < found'.mt
  PROVE  LedgerOK' /\ TakenOnce'
<1>1. \A i \in 1..Len(takes) : takes[i][1] \in Names
  <2> SUFFICES ASSUME NEW i \in 1..Len(takes) PROVE takes[i][1] \in Names OBVIOUS
  <2>1. takes[i] \in Names \X Nat BY DEF LedgerInv, TypeOK
  <2>2. QED BY <2>1
<1>2. LedgerOK' BY <1>1 DEF LedgerInv, LedgerOK
<1>3. TakenOnce' BY DEF LedgerInv, TakenOnce
<1>4. QED BY <1>2, <1>3

\* emit, first half: the file is skipped, or it is newer than the ledger.
LEMMA EmitFinds ==
  ASSUME LedgerInv, NEW f \in Names, NEW back, back # "mark", Exists(f), Emit(f, back)
  PROVE  place' = "mark" => ledger[found'.name] < found'.mt
<1> SUFFICES ASSUME place' = "mark" PROVE ledger[found'.name] < found'.mt OBVIOUS
<1>1. ~isSynced(f, disk[f].mt) /\ found' = [name |-> f, mt |-> disk[f].mt] BY DEF Emit, Skipped
<1>2. ledger[f] \in Nat /\ disk[f].mt \in Nat /\ disk[f].mt # 0
  BY DEF LedgerInv, TypeOK, TimesOK, Version
<1>3. ledger[f] < disk[f].mt BY <1>1, <1>2 DEF isSynced
<1>4. QED BY <1>1, <1>3

\* emit, second half: what is taken now is newer than all that was taken of it.
LEMMA TakeKeeps == ASSUME LedgerInv, Take PROVE LedgerOK' /\ TakenOnce'
<1> DEFINE f == found.name  t == <<found.name, found.mt>>  n == Len(takes)
<1>1. /\ place = "mark" /\ place' # "mark" /\ UNCHANGED disturbed
      /\ ledger' = [ledger EXCEPT ![f] = found.mt] /\ takes' = Append(takes, t)
  BY DEF Take, Marked, download
<1>2. f \in Names /\ found.mt \in Nat BY DEF LedgerInv, TypeOK
<1>3. t \in Names \X Nat /\ t[1] = f /\ t[2] = found.mt BY <1>2
<1>4. takes \in Seq(Names \X Nat) /\ ledger \in [Names -> Nat] BY DEF LedgerInv, TypeOK
<1>5. /\ n \in Nat /\ Len(takes') = n + 1 /\ takes'[n + 1] = t
      /\ DOMAIN takes' = 1..(n + 1) /\ DOMAIN takes = 1..n
      /\ \A i \in 1..n : takes'[i] = takes[i]
  BY <1>1, <1>3, <1>4, AppendProperties
<1>6. \A i \in 1..n : takes[i][1] \in Names /\ takes[i][2] \in Nat
  <2> SUFFICES ASSUME NEW i \in 1..n PROVE takes[i][1] \in Names /\ takes[i][2] \in Nat OBVIOUS
  <2>1. takes[i] \in Names \X Nat BY <1>4
  <2>2. QED BY <2>1
<1>7. /\ f \notin disturbed => ledger[f] < found.mt
      /\ \A i \in 1..n : takes[i][1] \notin disturbed => takes[i][2] <= ledger[takes[i][1]]
  BY <1>1 DEF LedgerInv, LedgerOK
<1>8. ledger'[f] = found.mt /\ \A g \in Names : g # f => ledger'[g] = ledger[g]
  BY <1>1, <1>2, <1>4
<1> HIDE DEF n
<1>9. \A i \in 1..(n + 1) : i \in 1..n \/ i = n + 1 BY <1>5
\* Of this name, everything taken before is older.
<1>10. \A i \in 1..n : takes[i][1] = f /\ f \notin disturbed => takes[i][2] < found.mt
  <2> SUFFICES ASSUME NEW i \in 1..n, takes[i][1] = f, f \notin disturbed
               PROVE  takes[i][2] < found.mt
    OBVIOUS
  <2>1. takes[i][2] <= ledger[f] /\ ledger[f] < found.mt BY <1>7
  <2>2. takes[i][2] \in Nat /\ ledger[f] \in Nat BY <1>2, <1>4, <1>6
  <2>3. QED BY <1>2, <2>1, <2>2
<1> HIDE DEF t
<1>11. LedgerOK'
  <2>1. ASSUME NEW i \in 1..(n + 1), takes'[i][1] \notin disturbed
        PROVE  takes'[i][2] <= ledger'[takes'[i][1]]
    <3>1. CASE i = n + 1
      <4>1. takes'[i][1] = f /\ takes'[i][2] = found.mt BY <1>3, <1>5, <3>1
      <4>2. QED BY <1>2, <1>8, <4>1
    <3>2. CASE i \in 1..n
      <4>1. takes'[i] = takes[i] /\ takes[i][1] \in Names /\ takes[i][2] \in Nat
            /\ takes[i][2] <= ledger[takes[i][1]]
        BY <1>5, <1>6, <1>7, <2>1, <3>2
      <4>2. CASE takes[i][1] = f
        <5>1. takes[i][2] < found.mt BY <1>5, <1>10, <2>1, <3>2, <4>2
        <5>2. QED BY <1>2, <1>8, <4>1, <4>2, <5>1
      <4>3. CASE takes[i][1] # f BY <1>8, <4>1, <4>3
      <4>4. QED BY <4>2, <4>3
    <3>3. QED BY <1>9, <3>1, <3>2
  <2>2. QED BY <1>1, <1>5, <2>1 DEF LedgerOK
<1>12. TakenOnce'
  <2>1. ASSUME NEW i \in 1..n, takes[i][1] \notin disturbed \/ f \notin disturbed
        PROVE  takes[i] # t
    <3> SUFFICES ASSUME takes[i] = t PROVE FALSE OBVIOUS
    <3>1. takes[i][1] = f /\ takes[i][2] = found.mt BY <1>3
    <3>2. found.mt < found.mt BY <1>10, <2>1, <3>1
    <3>3. QED BY <1>2, <3>2
  <2>2. ASSUME NEW i \in 1..(n + 1), NEW j \in 1..(n + 1), i # j, takes'[i][1] \notin disturbed
        PROVE  takes'[i] # takes'[j]
    <3>1. CASE i \in 1..n /\ j \in 1..n
      <4>1. takes[i] # takes[j] BY <1>5, <2>2, <3>1 DEF LedgerInv, TakenOnce
      <4>2. QED BY <1>5, <3>1, <4>1
    <3>2. CASE i \in 1..n /\ j = n + 1 BY <1>5, <2>1, <2>2, <3>2
    <3>3. CASE i = n + 1 /\ j \in 1..n BY <1>3, <1>5, <2>1, <2>2, <3>3
    <3>4. QED BY <1>9, <2>2, <3>1, <3>2, <3>3
  <2>3. QED BY <1>1, <1>5, <2>2 DEF TakenOnce
<1>13. QED BY <1>11, <1>12

LEMMA LedgerStep == LedgerInv /\ [Next]_vars => LedgerInv'
<1> SUFFICES ASSUME LedgerInv, [Next]_vars PROVE LedgerInv' OBVIOUS
<1> USE DEF outbox, watcher, download, results
<1>1. TypeOK' BY TypesStep DEF LedgerInv
<1>2. CASE User
  <2>1. /\ UNCHANGED <<place, found, ledger, active, fetch, disturbed, takes>>
    BY <1>2 DEF User, WriteFile, MoveIn, RemoveFile
  <2>2. LedgerOK' /\ TakenOnce' BY <2>1, TakesKept DEF LedgerInv, LedgerOK
  <2>3. FetchesOK' BY <2>1 DEF LedgerInv, FetchesOK
  <2>4. TimesOK'
    <3>1. PICK f \in Names : WriteFile(f) \/ RemoveFile(f) \/ \E mt \in 1..(clock - 1) : MoveIn(f, mt)
      BY <1>2 DEF User
    <3>2. clock \in Nat /\ clock # 0 /\ clock' # 0
      BY <3>1 DEF LedgerInv, TypeOK, TimesOK, WriteFile, MoveIn, RemoveFile, Ticks
    <3>3. \A g \in Names : g # f => disk'[g] = disk[g]
      BY <3>1 DEF LedgerInv, TypeOK, WriteFile, MoveIn, RemoveFile
    <3>4. disk'[f].ver # 0 => disk'[f].mt # 0
      <4>1. CASE WriteFile(f) BY <3>2, <4>1 DEF LedgerInv, TypeOK, WriteFile
      <4>2. CASE RemoveFile(f) BY <4>2 DEF LedgerInv, TypeOK, RemoveFile, Missing
      <4>3. ASSUME NEW mt \in 1..(clock - 1), MoveIn(f, mt) PROVE disk'[f].mt # 0
        BY <3>2, <4>3 DEF LedgerInv, TypeOK, MoveIn
      <4>4. QED BY <3>1, <4>1, <4>2, <4>3
    <3>5. QED BY <3>2, <3>3, <3>4 DEF LedgerInv, TimesOK, Exists
  <2>5. QED BY <1>1, <2>2, <2>3, <2>4 DEF LedgerInv
<1>3. CASE Watch
  <2>1. UNCHANGED <<disk, clock, active, fetch, disturbed>>
    BY <1>3 DEF Watch, Events, AddWatch, Tick, EndScan, NextEvent, Take, Scan
  <2>2. TimesOK' /\ FetchesOK' BY <2>1 DEF LedgerInv, TimesOK, FetchesOK, Exists
  <2>3. CASE Take BY <1>1, <2>2, <2>3, TakeKeeps DEF LedgerInv
  <2>4. CASE ~Take
    <3>1. UNCHANGED <<ledger, takes>>
      BY <1>3, <2>4 DEF Watch, Events, AddWatch, Tick, EndScan, NextEvent, Scan
    <3>2. place' = "mark" /\ found'.name \notin disturbed' => ledger[found'.name] < found'.mt
      <4>1. ASSUME NEW m \in Modes, Events(m) PROVE place' # "mark" BY <4>1 DEF Events
      <4>2. CASE AddWatch \/ Tick \/ EndScan BY <4>2 DEF AddWatch, Tick, EndScan
      <4>3. CASE NextEvent
        <5>1. Head(events) \in Names BY <4>3 DEF NextEvent, LedgerInv, TypeOK
        <5>2. CASE Exists(Head(events)) BY <4>3, <5>1, <5>2, EmitFinds DEF NextEvent
        <5>3. CASE ~Exists(Head(events)) BY <4>3, <5>3 DEF NextEvent
        <5>4. QED BY <5>2, <5>3
      <4>4. ASSUME NEW f \in Names, Scan(f)
            PROVE  place' = "mark" => ledger[found'.name] < found'.mt
        <5>1. CASE ~Exists(f) \/ Old(f) BY <4>4, <5>1 DEF Scan
        <5>2. CASE ~(~Exists(f) \/ Old(f)) BY <4>4, <5>2, EmitFinds DEF Scan
        <5>3. QED BY <5>1, <5>2
      <4>5. QED BY <1>3, <2>4, <4>1, <4>2, <4>3, <4>4 DEF Watch
    <3>3. LedgerOK' /\ TakenOnce' BY <2>1, <3>1, <3>2, TakesKept
    <3>4. QED BY <1>1, <2>2, <3>3 DEF LedgerInv
  <2>5. QED BY <2>3, <2>4
<1>4. CASE Work \/ UNCHANGED vars
  <2>1. UNCHANGED <<disk, clock, place, found, ledger, active, fetch, disturbed, takes>>
    BY <1>4 DEF Work, Read, ReadFails, Offer, vars
  <2>2. LedgerOK' /\ TakenOnce' BY <2>1, TakesKept DEF LedgerInv, LedgerOK
  <2>3. TimesOK' /\ FetchesOK' BY <2>1 DEF LedgerInv, TimesOK, FetchesOK, Exists
  <2>4. QED BY <1>1, <2>2, <2>3 DEF LedgerInv
<1>5. CASE Downloads \/ Stop
  <2>1. UNCHANGED <<disk, clock, found, takes>> /\ disturbed \subseteq disturbed'
        /\ (place' = place \/ place' = "stopped")
    BY <1>5 DEF Downloads, StartFetch, Fetch, EndFetch, Stop
  <2>2. FetchesOK'
    <3> USE DEF LedgerInv, TypeOK, FetchesOK
    <3>1. ASSUME NEW f \in Names, StartFetch(f) PROVE FetchesOK' BY <3>1 DEF StartFetch
    <3>2. CASE Fetch BY <3>2 DEF Fetch
    <3>3. CASE EndFetch BY <3>3 DEF EndFetch
    <3>4. CASE Stop BY <3>4 DEF Stop
    <3>5. QED BY <1>5, <3>1, <3>2, <3>3, <3>4 DEF Downloads
  <2>3. \A f \in Names : f \notin disturbed' => ledger'[f] = ledger[f]
    BY <1>5 DEF Downloads, StartFetch, Fetch, EndFetch, Stop, LedgerInv, TypeOK, FetchesOK
  <2>4. found.name \in Names BY DEF LedgerInv, TypeOK
  <2>5. place' = "mark" /\ found'.name \notin disturbed' => ledger'[found'.name] < found'.mt
    BY <2>1, <2>3, <2>4 DEF LedgerInv, LedgerOK
  <2>6. LedgerOK' /\ TakenOnce' BY <2>1, <2>3, <2>5, TakesKept
  <2>7. TimesOK' BY <2>1 DEF LedgerInv, TimesOK, Exists
  <2>8. QED BY <1>1, <2>2, <2>6, <2>7 DEF LedgerInv
<1>6. QED BY <1>2, <1>3, <1>4, <1>5 DEF Next

\* However often fsnotify and the scans report a modification, one offerFile is
\* started for it, although emit checks the ledger and marks it in two steps
\* and downloads write the ledger in between (StartAutoSync).
THEOREM ModificationTakenOnce == Spec => []TakenOnce
<1>1. LedgerInv => TakenOnce BY DEF LedgerInv
<1>2. QED BY <1>1, LedgerInit, LedgerStep, PTL DEF Spec
=============================================================================
