----------------------------- MODULE HubProofs -----------------------------
(***************************************************************************)
(* Theorems about Hub, for any number of connections, keys, nicknames and  *)
(* commands.                                                               *)
(***************************************************************************)
EXTENDS Hub, TLAPS

\* A goroutine that is about to use tgt has one.
UsesTarget(a) == \/ pc[a] \in {"list", "remember", "apvGrant", "apvLists", "spawn"}
                 \/ pc[a] \in {"save", "write"} /\ cont[a] = "spawn"
TargetOK == \A a \in Actors : UsesTarget(a) => tgt[a] \in Conns

\* A connection's goroutine that saves goes on reading or joining afterwards.
ContinuesOK == \A c \in Conns :
  pc[c] \in {"list", "remember", "save", "write", "apvGrant", "apvLists"} => cont[c] # "idle"

\* The type invariant with what its preservation needs besides.
Typed == TypeOK /\ TargetOK

\* A table of clients no handshake has filled is well typed.
LEMMA FreshType == Fresh \in [Conns -> Client]
<1>1. (CHOOSE h \in Hellos : TRUE) \in Hellos BY InputsAssumption
<1>2. QED BY <1>1, InputsAssumption DEF Fresh, NewClient, Client, States

\* A hub without a file starts from empty lists.
LEMMA NoAclType == NoAcl \in Acl /\ NoLists \in Lists
BY DEF NoAcl, NoLists, Acl, Lists, NickOrNone

\* Granting or taking back admin keeps a client table well typed.
LEMMA SetAdminType ==
  ASSUME NEW f \in [Conns -> Client], NEW c \in Conns, NEW b \in BOOLEAN
  PROVE  [f EXCEPT ![c].admin = b] \in [Conns -> Client]
<1>1. [f[c] EXCEPT !.admin = b] \in Client BY DEF Client
<1> QED BY <1>1

\* Whitelisting a client keeps a client table well typed.
LEMMA SetStateType ==
  ASSUME NEW f \in [Conns -> Client], NEW c \in Conns
  PROVE  [f EXCEPT ![c].state = "WHITELISTED"] \in [Conns -> Client]
<1>1. [f[c] EXCEPT !.state = "WHITELISTED"] \in Client BY DEF Client, States
<1> QED BY <1>1

\* So does the whitelisting of a client under its stored nickname.
LEMMA WhitelistedType ==
  ASSUME NEW r \in Client, NEW n \in Nicks, NEW b \in BOOLEAN
  PROVE  Whitelisted(r, n, b) \in Client
BY DEF Whitelisted, Client, States

\* The hub starts well typed.
LEMMA InitTyped == Init => Typed
BY FreshType, NoAclType, ActorsAssumption, InputsAssumption
   DEF Init, Typed, TypeOK, TargetOK, UsesTarget, Started, Actors, Labels, NoLists, Lists, NickOrNone

\* Every step keeps it well typed.
LEMMA StepTyped == ASSUME Typed, [Next]_vars PROVE Typed'
<1> USE DEF UsesTarget, Goto, Actors, conn, access, hub, goroutines, saving, later, counts
<1>1. ASSUME NEW c \in Conns, NEW h \in Hellos, Accept(c, h) PROVE Typed'
  <2>1. pc' \in [Actors -> Labels]
    BY <1>1 DEF Typed, TypeOK, Accept, Labels
  <2>2. cl' \in [Conns -> Client]
    BY <1>1, InputsAssumption DEF Typed, TypeOK, Accept, Client, States, NewClient
  <2>3. TypeOK'
    BY <1>1, <2>1, <2>2 DEF Typed, TypeOK, Accept
  <2>4. TargetOK'
    BY <1>1 DEF Typed, TypeOK, TargetOK, Accept
  <2> QED BY <2>3, <2>4 DEF Typed
<1>2. ASSUME NEW c \in Conns, Check(c) PROVE Typed'
  <2>1. pc' \in [Actors -> Labels]
    BY <1>2 DEF Typed, TypeOK, Check, Labels, Reject
  <2>2. seen' \in [Conns -> NickOrNone] /\ up' \in [Conns -> BOOLEAN]
    BY <1>2, ZenonT(60) DEF Typed, TypeOK, Check, Reject, Client
  <2>3. TypeOK'
    BY <1>2, <2>1, <2>2 DEF Typed, TypeOK, Check, Reject
  <2>4. TargetOK'
    BY <1>2 DEF Typed, TypeOK, TargetOK, Check, Reject
  <2> QED BY <2>3, <2>4 DEF Typed
<1>3. ASSUME NEW c \in Conns, NickCheck(c) PROVE Typed'
  <2>1. pc' \in [Actors -> Labels]
    BY <1>3 DEF Typed, TypeOK, NickCheck, Labels, Reject
  <2>2. TypeOK'
    BY <1>3, <2>1 DEF Typed, TypeOK, NickCheck, Reject
  <2>3. TargetOK'
    BY <1>3 DEF Typed, TypeOK, TargetOK, NickCheck, Reject
  <2> QED BY <2>2, <2>3 DEF Typed
<1>4. ASSUME NEW c \in Conns, Add(c) PROVE Typed'
  <2>1. pc' \in [Actors -> Labels]
    BY <1>4 DEF Typed, TypeOK, Add, Labels
  <2>2. ASSUME Returning(c) PROVE cl' \in [Conns -> Client]
    <3>1. isStoredAdmin(cl[c].key) \in BOOLEAN BY DEF isStoredAdmin
    <3>2. seen[c] \in Nicks BY <2>2 DEF Typed, TypeOK, Returning, NickOrNone
    <3>3. Whitelisted(cl[c], seen[c], isStoredAdmin(cl[c].key)) \in Client
      BY <3>1, <3>2, WhitelistedType DEF Typed, TypeOK
    <3>4. cl' \in [Conns -> Client] BY <1>4, <2>2, <3>3 DEF Typed, TypeOK, Add
    <3> QED BY <3>4
  <2>3. cl' \in [Conns -> Client]
    BY <1>4, <2>2 DEF Typed, TypeOK, Add
  <2>4. TypeOK'
    BY <1>4, <2>1, <2>3 DEF Typed, TypeOK, Add
  <2>5. TargetOK'
    BY <1>4 DEF Typed, TypeOK, TargetOK, Add
  <2> QED BY <2>4, <2>5 DEF Typed
<1>5. ASSUME NEW c \in Conns, SendHandshakeOK(c) PROVE Typed'
  <2>1. pc' \in [Actors -> Labels]
    BY <1>5 DEF Typed, TypeOK, SendHandshakeOK, Labels
  <2>2. TypeOK'
    BY <1>5, <2>1 DEF Typed, TypeOK, SendHandshakeOK
  <2>3. TargetOK'
    BY <1>5 DEF Typed, TypeOK, TargetOK, SendHandshakeOK
  <2> QED BY <2>2, <2>3 DEF Typed
<1>6. ASSUME NEW c \in Conns, Welcome(c) PROVE Typed'
  <2>1. pc' \in [Actors -> Labels]
    BY <1>6 DEF Typed, TypeOK, Welcome, Labels
  <2>2. cl' \in [Conns -> Client]
    BY <1>6, WhitelistedType DEF Typed, TypeOK, Welcome, WelcomeNick, Returning,
       NickOrNone, Client
  <2>3. TypeOK'
    BY <1>6, <2>1, <2>2 DEF Typed, TypeOK, Welcome
  <2>4. TargetOK'
    BY <1>6 DEF Typed, TypeOK, TargetOK, Welcome
  <2> QED BY <2>3, <2>4 DEF Typed
<1>7. ASSUME NEW c \in Conns, Grant(c) PROVE Typed'
  <2>1. pc' \in [Actors -> Labels]
    BY <1>7 DEF Typed, TypeOK, Grant, Labels
  <2>2. (cl[c].admin \/ GetsAdmin(c)) \in BOOLEAN OBVIOUS
  <2>3. cl' \in [Conns -> Client]
    BY <1>7, <2>2, SetAdminType DEF Typed, TypeOK, TargetOK, Grant
  <2>4. TypeOK'
    BY <1>7, <2>1, <2>3 DEF Typed, TypeOK, Grant
  <2>5. TargetOK'
    BY <1>7 DEF Typed, TypeOK, TargetOK, Grant
  <2> QED BY <2>4, <2>5 DEF Typed
<1>8. ASSUME NEW c \in Conns, WhitelistNew(c) PROVE Typed'
  <2>1. pc' \in [Actors -> Labels]
    BY <1>8 DEF Typed, TypeOK, WhitelistNew, Labels
  <2>2. whitelist' \in [Keys -> NickOrNone]
    BY <1>8 DEF Typed, TypeOK, WhitelistNew, Client, NickOrNone
  <2>3. TypeOK'
    BY <1>8, <2>1, <2>2 DEF Typed, TypeOK, WhitelistNew
  <2>4. TargetOK'
    BY <1>8 DEF Typed, TypeOK, TargetOK, WhitelistNew
  <2> QED BY <2>3, <2>4 DEF Typed
<1>9. ASSUME NEW c \in Conns, Leave(c) PROVE Typed'
  <2>1. pc' \in [Actors -> Labels]
    BY <1>9 DEF Typed, TypeOK, Leave, Labels, Unregister, Reading, AfterLeave
  <2>2. TypeOK'
    BY <1>9, <2>1 DEF Typed, TypeOK, Leave, Unregister, Reading, AfterLeave
  <2>3. TargetOK'
    BY <1>9 DEF Typed, TypeOK, TargetOK, Leave, Unregister, Reading, AfterLeave
  <2> QED BY <2>2, <2>3 DEF Typed
<1>10. ASSUME NEW c \in Conns, Reap(c) PROVE Typed'
  <2>1. pc' \in [Actors -> Labels]
    BY <1>10 DEF Typed, TypeOK, Reap, Labels
  <2>2. TypeOK'
    BY <1>10, <2>1 DEF Typed, TypeOK, Reap
  <2>3. TargetOK'
    BY <1>10 DEF Typed, TypeOK, TargetOK, Reap
  <2> QED BY <2>2, <2>3 DEF Typed
<1>11. ASSUME NEW c \in Conns, DelayedRemoval(c) PROVE Typed'
  <2>1. pc' \in [Actors -> Labels]
    BY <1>11 DEF Typed, TypeOK, DelayedRemoval, Labels, Unregister, AfterRemoval
  <2>2. TypeOK'
    BY <1>11, <2>1 DEF Typed, TypeOK, DelayedRemoval, Unregister, AfterRemoval
  <2>3. TargetOK'
    BY <1>11 DEF Typed, TypeOK, TargetOK, DelayedRemoval, Unregister, AfterRemoval
  <2> QED BY <2>2, <2>3 DEF Typed
<1>12. ASSUME NEW a \in Actors, saveACLCopy(a) PROVE Typed'
  <2>1. pc' \in [Actors -> Labels]
    BY <1>12 DEF Typed, TypeOK, saveACLCopy, Labels
  <2>2. snap' \in [Actors -> Acl] /\ latest' \in Lists
    BY <1>12 DEF Typed, TypeOK, saveACLCopy, InMemory, Acl, Lists
  <2>3. TypeOK'
    BY <1>12, <2>1, <2>2 DEF Typed, TypeOK, saveACLCopy
  <2>4. TargetOK'
    BY <1>12 DEF Typed, TypeOK, TargetOK, saveACLCopy
  <2> QED BY <2>3, <2>4 DEF Typed
<1>13. ASSUME NEW a \in Actors, saveACLWrite(a) PROVE Typed'
  <2>1. pc' \in [Actors -> Labels]
    BY <1>13 DEF Typed, TypeOK, saveACLWrite, Labels
  <2>2. snap' \in [Actors -> Acl] /\ disk' \in Acl
    BY <1>13, NoAclType DEF Typed, TypeOK, saveACLWrite
  <2>3. TypeOK'
    BY <1>13, <2>1, <2>2 DEF Typed, TypeOK, saveACLWrite
  <2>4. TargetOK'
    BY <1>13 DEF Typed, TypeOK, TargetOK, saveACLWrite
  <2> QED BY <2>3, <2>4 DEF Typed
<1>14. ASSUME NEW a \in Actors, rememberAdmin(a) PROVE Typed'
  <2>1. pc' \in [Actors -> Labels]
    BY <1>14 DEF Typed, TypeOK, rememberAdmin, Labels
  <2>2. admins' \subseteq Keys
    BY <1>14 DEF Typed, TypeOK, rememberAdmin, TargetOK, Client
  <2>3. TypeOK'
    BY <1>14, <2>1, <2>2 DEF Typed, TypeOK, rememberAdmin
  <2>4. TargetOK'
    BY <1>14 DEF Typed, TypeOK, TargetOK, rememberAdmin
  <2> QED BY <2>3, <2>4 DEF Typed
<1>15. ASSUME NEW a \in Actors, Epoch(a) PROVE Typed'
  <2>1. pc' \in [Actors -> Labels]
    BY <1>15 DEF Typed, TypeOK, Epoch, Labels, BumpEpoch, DrawToken, Members
  <2>2. TypeOK'
    BY <1>15, <2>1 DEF Typed, TypeOK, Epoch, BumpEpoch, DrawToken, Members
  <2>3. TargetOK'
    BY <1>15 DEF Typed, TypeOK, TargetOK, Epoch, BumpEpoch, DrawToken, Members
  <2> QED BY <2>2, <2>3 DEF Typed
<1>16. ASSUME NEW a \in Actors, ApproveGrant(a) PROVE Typed'
  <2>1. pc' \in [Actors -> Labels]
    BY <1>16 DEF Typed, TypeOK, ApproveGrant, Labels, BumpEpoch, DrawToken, Members
  <2>2. (cl[tgt[a]].admin \/ GetsAdmin(tgt[a])) \in BOOLEAN OBVIOUS
  <2>3. cl' \in [Conns -> Client]
    BY <1>16, <2>2, SetAdminType DEF Typed, TypeOK, TargetOK, ApproveGrant
  <2>4. TypeOK'
    BY <1>16, <2>1, <2>3 DEF Typed, TypeOK, ApproveGrant, BumpEpoch, DrawToken,
       Members
  <2>5. TargetOK'
    BY <1>16 DEF Typed, TypeOK, TargetOK, ApproveGrant, BumpEpoch, DrawToken, Members
  <2> QED BY <2>4, <2>5 DEF Typed
<1>17. ASSUME NEW a \in Actors, ApproveLists(a) PROVE Typed'
  <2>1. pc' \in [Actors -> Labels]
    BY <1>17 DEF Typed, TypeOK, ApproveLists, Labels, AfterApprove
  <2>2. whitelist' \in [Keys -> NickOrNone] /\ blacklist' \subseteq Ids
    BY <1>17 DEF Typed, TypeOK, ApproveLists, TargetOK, Client, NickOrNone
  <2>3. TypeOK'
    BY <1>17, <2>1, <2>2 DEF Typed, TypeOK, ApproveLists, AfterApprove
  <2>4. TargetOK'
    BY <1>17 DEF Typed, TypeOK, TargetOK, ApproveLists, AfterApprove
  <2> QED BY <2>3, <2>4 DEF Typed
<1>18. ASSUME NEW a \in Actors, SpawnRemoval(a) PROVE Typed'
  <2>1. pc' \in [Actors -> Labels]
    BY <1>18 DEF Typed, TypeOK, SpawnRemoval, Labels
  <2>2. removals' \in [Conns -> Nat]
    BY <1>18 DEF Typed, TypeOK, SpawnRemoval, TargetOK
  <2>3. TypeOK'
    BY <1>18, <2>1, <2>2 DEF Typed, TypeOK, SpawnRemoval
  <2>4. TargetOK'
    BY <1>18 DEF Typed, TypeOK, TargetOK, SpawnRemoval
  <2> QED BY <2>3, <2>4 DEF Typed
<1>19. ASSUME DelayedEpoch PROVE Typed'
  <2>1. pc' \in [Actors -> Labels]
    BY <1>19 DEF Typed, TypeOK, DelayedEpoch, Labels, BumpEpoch, DrawToken, Members
  <2>2. TypeOK'
    BY <1>19, <2>1 DEF Typed, TypeOK, DelayedEpoch, BumpEpoch, DrawToken, Members
  <2>3. TargetOK'
    BY <1>19 DEF Typed, TypeOK, TargetOK, DelayedEpoch, BumpEpoch, DrawToken, Members
  <2> QED BY <2>2, <2>3 DEF Typed
<1>20. ASSUME NEW a \in Actors, NEW d \in Conns, Approve(a, d) PROVE Typed'
  <2>1. pc' \in [Actors -> Labels]
    BY <1>20 DEF Typed, TypeOK, Approve, Labels, MayCommand
  <2>2. cl' \in [Conns -> Client]
    BY <1>20, SetStateType DEF Typed, TypeOK, Approve, MayCommand
  <2>3. TypeOK'
    BY <1>20, <2>1, <2>2 DEF Typed, TypeOK, Approve, MayCommand
  <2>4. TargetOK'
    BY <1>20 DEF Typed, TypeOK, TargetOK, Approve, MayCommand
  <2> QED BY <2>3, <2>4 DEF Typed
<1>21. ASSUME NEW a \in Actors, NEW d \in Conns, Block(a, d) PROVE Typed'
  <2>1. pc' \in [Actors -> Labels]
    BY <1>21 DEF Typed, TypeOK, Block, Labels, MayCommand
  <2>2. whitelist' \in [Keys -> NickOrNone] /\ blacklist' \subseteq Ids
    BY <1>21 DEF Typed, TypeOK, Block, MayCommand, Client, NickOrNone
  <2>3. TypeOK'
    BY <1>21, <2>1, <2>2 DEF Typed, TypeOK, Block, MayCommand
  <2>4. TargetOK'
    BY <1>21 DEF Typed, TypeOK, TargetOK, Block, MayCommand
  <2> QED BY <2>3, <2>4 DEF Typed
<1>22. ASSUME NEW a \in Actors, NEW d \in Conns, KickByMember(a, d) PROVE Typed'
  <2>1. pc' \in [Actors -> Labels]
    BY <1>22 DEF Typed, TypeOK, KickByMember, Labels, MayCommand, Unregister
  <2>2. TypeOK'
    BY <1>22, <2>1 DEF Typed, TypeOK, KickByMember, MayCommand, Unregister
  <2>3. TargetOK'
    BY <1>22 DEF Typed, TypeOK, TargetOK, KickByMember, MayCommand, Unregister
  <2> QED BY <2>2, <2>3 DEF Typed
<1>23. ASSUME NEW a \in Actors, NEW d \in Conns, OpByMember(a, d) PROVE Typed'
  <2>1. pc' \in [Actors -> Labels]
    BY <1>23 DEF Typed, TypeOK, OpByMember, Labels, MayCommand
  <2>2. cl' \in [Conns -> Client]
    BY <1>23, SetAdminType DEF Typed, TypeOK, OpByMember, MayCommand
  <2>3. TypeOK'
    BY <1>23, <2>1, <2>2 DEF Typed, TypeOK, OpByMember, MayCommand
  <2>4. TargetOK'
    BY <1>23 DEF Typed, TypeOK, TargetOK, OpByMember, MayCommand
  <2> QED BY <2>3, <2>4 DEF Typed
<1>24. ASSUME NEW d \in Conns, KickByTui(d) PROVE Typed'
  <2>1. pc' \in [Actors -> Labels]
    BY <1>24 DEF Typed, TypeOK, KickByTui, Labels, MayCommand
  <2>2. TypeOK'
    BY <1>24, <2>1 DEF Typed, TypeOK, KickByTui, MayCommand
  <2>3. TargetOK'
    BY <1>24 DEF Typed, TypeOK, TargetOK, KickByTui, MayCommand
  <2> QED BY <2>2, <2>3 DEF Typed
<1>25. ASSUME NEW d \in Conns, OpByTui(d) PROVE Typed'
  <2>1. pc' \in [Actors -> Labels]
    BY <1>25 DEF Typed, TypeOK, OpByTui, Labels, MayCommand
  <2>2. cl' \in [Conns -> Client]
    BY <1>25, SetAdminType DEF Typed, TypeOK, OpByTui, MayCommand
  <2>3. TypeOK'
    BY <1>25, <2>1, <2>2 DEF Typed, TypeOK, OpByTui, MayCommand
  <2>4. TargetOK'
    BY <1>25 DEF Typed, TypeOK, TargetOK, OpByTui, MayCommand
  <2> QED BY <2>3, <2>4 DEF Typed
<1>26. ASSUME FileServerStarts PROVE Typed'
  <2>1. pc' \in [Actors -> Labels]
    BY <1>26 DEF Typed, TypeOK, FileServerStarts, Labels, Save, DrawToken
  <2>2. TypeOK'
    BY <1>26, <2>1 DEF Typed, TypeOK, FileServerStarts, Save, DrawToken
  <2>3. TargetOK'
    BY <1>26 DEF Typed, TypeOK, TargetOK, FileServerStarts, Save, DrawToken
  <2> QED BY <2>2, <2>3 DEF Typed
<1>27. ASSUME FileServerFails PROVE Typed'
  <2>1. pc' \in [Actors -> Labels]
    BY <1>27 DEF Typed, TypeOK, FileServerFails, Labels
  <2>2. TypeOK'
    BY <1>27, <2>1 DEF Typed, TypeOK, FileServerFails
  <2>3. TargetOK'
    BY <1>27 DEF Typed, TypeOK, TargetOK, FileServerFails
  <2> QED BY <2>2, <2>3 DEF Typed
<1>28. ASSUME Restart PROVE Typed'
  <2>1. pc' \in [Actors -> Labels] BY <1>28 DEF Restart, Started, Labels
  <2>2. snap' \in [Actors -> Acl] /\ cl' \in [Conns -> Client]
    BY <1>28, FreshType, NoAclType DEF Restart
  <2>3. /\ whitelist' \in [Keys -> NickOrNone] /\ blacklist' \subseteq Ids
        /\ admins' \subseteq Keys /\ vaultToken' \in Nat /\ latest' \in Lists
    BY <1>28 DEF Typed, TypeOK, Restart, loadACL, Acl, Lists
  <2>4. TypeOK'
    BY <1>28, <2>1, <2>2, <2>3, InputsAssumption DEF Typed, TypeOK, Restart, NickOrNone
  <2>5. TargetOK'
    BY <1>28, ActorsAssumption DEF TargetOK, Restart, Started
  <2> QED BY <2>4, <2>5 DEF Typed
<1>29. CASE UNCHANGED vars
  BY <1>29 DEF Typed, TypeOK, TargetOK, vars
<1>30. QED
  BY <1>1, <1>2, <1>3, <1>4, <1>5, <1>6, <1>7, <1>8, <1>9, <1>10, <1>11, <1>12,
     <1>13, <1>14, <1>15, <1>16, <1>17, <1>18, <1>19, <1>20, <1>21, <1>22, <1>23, <1>24,
     <1>25, <1>26, <1>27, <1>28, <1>29 DEF Next, Handshake, Step, Command

\* The types of the hub's state.
THEOREM HubTypes == Spec => []TypeOK
<1>1. Spec => []Typed BY InitTyped, StepTyped, PTL DEF Spec
<1> QED BY <1>1, PTL DEF Typed

\* Every step that changes the lists leaves a saveACL to come, and no step
\* loses one.
LEMMA StepSaved ==
  ASSUME Typed, EveryChangeIsSaved, [Next]_vars PROVE EveryChangeIsSaved'
<1> USE DEF Typed, TypeOK, EveryChangeIsSaved, InMemory, Actors, Goto, conn, access,
            hub, goroutines, saving, later, counts
<1>1. ASSUME NEW c \in Conns, NEW h \in Hellos, Accept(c, h) PROVE EveryChangeIsSaved'
  BY <1>1 DEF Accept
<1>2. ASSUME NEW c \in Conns, Check(c) PROVE EveryChangeIsSaved'
  BY <1>2 DEF Check, Reject
<1>3. ASSUME NEW c \in Conns, NickCheck(c) PROVE EveryChangeIsSaved'
  BY <1>3 DEF NickCheck, Reject
<1>4. ASSUME NEW c \in Conns, Add(c) PROVE EveryChangeIsSaved'
  BY <1>4 DEF Add
<1>5. ASSUME NEW c \in Conns, SendHandshakeOK(c) PROVE EveryChangeIsSaved'
  BY <1>5 DEF SendHandshakeOK
<1>6. ASSUME NEW c \in Conns, Welcome(c) PROVE EveryChangeIsSaved'
  BY <1>6 DEF Welcome
<1>7. ASSUME NEW c \in Conns, Grant(c) PROVE EveryChangeIsSaved'
  BY <1>7 DEF Grant
<1>8. ASSUME NEW c \in Conns, WhitelistNew(c) PROVE EveryChangeIsSaved'
  BY <1>8 DEF WhitelistNew
<1>9. ASSUME NEW c \in Conns, Leave(c) PROVE EveryChangeIsSaved'
  BY <1>9 DEF Leave, Unregister, Reading, AfterLeave
<1>10. ASSUME NEW c \in Conns, Reap(c) PROVE EveryChangeIsSaved'
  BY <1>10 DEF Reap
<1>11. ASSUME NEW c \in Conns, DelayedRemoval(c) PROVE EveryChangeIsSaved'
  BY <1>11 DEF DelayedRemoval, Unregister, AfterRemoval
<1>12. ASSUME NEW a \in Actors, saveACLCopy(a) PROVE EveryChangeIsSaved'
  BY <1>12 DEF saveACLCopy
<1>13. ASSUME NEW a \in Actors, saveACLWrite(a) PROVE EveryChangeIsSaved'
  BY <1>13 DEF saveACLWrite
<1>14. ASSUME NEW a \in Actors, rememberAdmin(a) PROVE EveryChangeIsSaved'
  BY <1>14 DEF rememberAdmin
<1>15. ASSUME NEW a \in Actors, Epoch(a) PROVE EveryChangeIsSaved'
  BY <1>15 DEF Epoch, BumpEpoch, DrawToken, Members
<1>16. ASSUME NEW a \in Actors, ApproveGrant(a) PROVE EveryChangeIsSaved'
  BY <1>16 DEF ApproveGrant, BumpEpoch, DrawToken, Members
<1>17. ASSUME NEW a \in Actors, ApproveLists(a) PROVE EveryChangeIsSaved'
  BY <1>17 DEF ApproveLists, AfterApprove
<1>18. ASSUME NEW a \in Actors, SpawnRemoval(a) PROVE EveryChangeIsSaved'
  BY <1>18 DEF SpawnRemoval
<1>19. ASSUME DelayedEpoch PROVE EveryChangeIsSaved'
  BY <1>19 DEF DelayedEpoch, BumpEpoch, DrawToken, Members
<1>20. ASSUME NEW a \in Actors, NEW d \in Conns, Approve(a, d) PROVE EveryChangeIsSaved'
  BY <1>20 DEF Approve, MayCommand
<1>21. ASSUME NEW a \in Actors, NEW d \in Conns, Block(a, d) PROVE EveryChangeIsSaved'
  BY <1>21 DEF Block, MayCommand
<1>22. ASSUME NEW a \in Actors, NEW d \in Conns, KickByMember(a, d) PROVE EveryChangeIsSaved'
  BY <1>22 DEF KickByMember, MayCommand, Unregister
<1>23. ASSUME NEW a \in Actors, NEW d \in Conns, OpByMember(a, d) PROVE EveryChangeIsSaved'
  BY <1>23 DEF OpByMember, MayCommand
<1>24. ASSUME NEW d \in Conns, KickByTui(d) PROVE EveryChangeIsSaved'
  BY <1>24 DEF KickByTui, MayCommand
<1>25. ASSUME NEW d \in Conns, OpByTui(d) PROVE EveryChangeIsSaved'
  BY <1>25 DEF OpByTui, MayCommand
<1>26. ASSUME FileServerStarts PROVE EveryChangeIsSaved'
  BY <1>26, ActorsAssumption DEF FileServerStarts, Save, DrawToken
<1>27. ASSUME FileServerFails PROVE EveryChangeIsSaved'
  BY <1>27, ActorsAssumption DEF FileServerFails
<1>28. ASSUME Restart PROVE EveryChangeIsSaved'
  BY <1>28 DEF Restart, loadACL, Started, Acl, Lists
<1>29. CASE UNCHANGED vars
  BY <1>29 DEF vars
<1>30. QED
  BY <1>1, <1>2, <1>3, <1>4, <1>5, <1>6, <1>7, <1>8, <1>9, <1>10, <1>11, <1>12,
     <1>13, <1>14, <1>15, <1>16, <1>17, <1>18, <1>19, <1>20, <1>21, <1>22, <1>23, <1>24,
     <1>25, <1>26, <1>27, <1>28, <1>29 DEF Next, Handshake, Step, Command

\* RegisteredHasHandler with what its preservation needs besides.
HandlerOK == RegisteredHasHandler /\ ContinuesOK

\* No step leaves a registered client without a goroutine that will remove it.
LEMMA StepHandler ==
  ASSUME Typed, HandlerOK, [Next]_vars PROVE HandlerOK'
<1> USE DEF Typed, TypeOK, HandlerOK, ContinuesOK, RegisteredHasHandler, Actors, Goto,
            conn, access, hub, goroutines, saving, later, counts
<1>1. ASSUME NEW c \in Conns, NEW h \in Hellos, Accept(c, h) PROVE HandlerOK'
  BY <1>1 DEF Accept
<1>2. ASSUME NEW c \in Conns, Check(c) PROVE HandlerOK'
  BY <1>2 DEF Check, Reject
<1>3. ASSUME NEW c \in Conns, NickCheck(c) PROVE HandlerOK'
  BY <1>3 DEF NickCheck, Reject
<1>4. ASSUME NEW c \in Conns, Add(c) PROVE HandlerOK'
  BY <1>4 DEF Add
<1>5. ASSUME NEW c \in Conns, SendHandshakeOK(c) PROVE HandlerOK'
  BY <1>5 DEF SendHandshakeOK
<1>6. ASSUME NEW c \in Conns, Welcome(c) PROVE HandlerOK'
  BY <1>6 DEF Welcome
<1>7. ASSUME NEW c \in Conns, Grant(c) PROVE HandlerOK'
  BY <1>7 DEF Grant
<1>8. ASSUME NEW c \in Conns, WhitelistNew(c) PROVE HandlerOK'
  BY <1>8 DEF WhitelistNew
<1>9. ASSUME NEW c \in Conns, Leave(c) PROVE HandlerOK'
  BY <1>9 DEF Leave, Unregister, Reading, AfterLeave
<1>10. ASSUME NEW c \in Conns, Reap(c) PROVE HandlerOK'
  BY <1>10 DEF Reap
<1>11. ASSUME NEW c \in Conns, DelayedRemoval(c) PROVE HandlerOK'
  BY <1>11 DEF DelayedRemoval, Unregister, AfterRemoval
<1>12. ASSUME NEW a \in Actors, saveACLCopy(a) PROVE HandlerOK'
  BY <1>12 DEF saveACLCopy
<1>13. ASSUME NEW a \in Actors, saveACLWrite(a) PROVE HandlerOK'
  BY <1>13 DEF saveACLWrite
<1>14. ASSUME NEW a \in Actors, rememberAdmin(a) PROVE HandlerOK'
  BY <1>14 DEF rememberAdmin
<1>15. ASSUME NEW a \in Actors, Epoch(a) PROVE HandlerOK'
  BY <1>15 DEF Epoch, BumpEpoch, DrawToken, Members
<1>16. ASSUME NEW a \in Actors, ApproveGrant(a) PROVE HandlerOK'
  BY <1>16 DEF ApproveGrant, BumpEpoch, DrawToken, Members
<1>17. ASSUME NEW a \in Actors, ApproveLists(a) PROVE HandlerOK'
  BY <1>17 DEF ApproveLists, AfterApprove
<1>18. ASSUME NEW a \in Actors, SpawnRemoval(a) PROVE HandlerOK'
  BY <1>18 DEF SpawnRemoval
<1>19. ASSUME DelayedEpoch PROVE HandlerOK'
  BY <1>19 DEF DelayedEpoch, BumpEpoch, DrawToken, Members
<1>20. ASSUME NEW a \in Actors, NEW d \in Conns, Approve(a, d) PROVE HandlerOK'
  BY <1>20 DEF Approve, MayCommand
<1>21. ASSUME NEW a \in Actors, NEW d \in Conns, Block(a, d) PROVE HandlerOK'
  BY <1>21 DEF Block, MayCommand
<1>22. ASSUME NEW a \in Actors, NEW d \in Conns, KickByMember(a, d) PROVE HandlerOK'
  BY <1>22 DEF KickByMember, MayCommand, Unregister
<1>23. ASSUME NEW a \in Actors, NEW d \in Conns, OpByMember(a, d) PROVE HandlerOK'
  BY <1>23 DEF OpByMember, MayCommand
<1>24. ASSUME NEW d \in Conns, KickByTui(d) PROVE HandlerOK'
  BY <1>24 DEF KickByTui, MayCommand
<1>25. ASSUME NEW d \in Conns, OpByTui(d) PROVE HandlerOK'
  BY <1>25 DEF OpByTui, MayCommand
<1>26. ASSUME FileServerStarts PROVE HandlerOK'
  BY <1>26, ActorsAssumption DEF FileServerStarts, Save, DrawToken
<1>27. ASSUME FileServerFails PROVE HandlerOK'
  BY <1>27, ActorsAssumption DEF FileServerFails
<1>28. ASSUME Restart PROVE HandlerOK'
  BY <1>28, ActorsAssumption DEF Restart, loadACL, Started
<1>29. CASE UNCHANGED vars
  BY <1>29 DEF vars
<1>30. QED
  BY <1>1, <1>2, <1>3, <1>4, <1>5, <1>6, <1>7, <1>8, <1>9, <1>10, <1>11, <1>12,
     <1>13, <1>14, <1>15, <1>16, <1>17, <1>18, <1>19, <1>20, <1>21, <1>22, <1>23, <1>24,
     <1>25, <1>26, <1>27, <1>28, <1>29 DEF Next, Handshake, Step, Command

\* A client that is not yet registered is PENDING, and a join ends in BumpEpoch.
JoinOK == \A c \in Conns : /\ pc[c] = "list" => cont[c] = "epoch"
                           /\ pc[c] \in {"check", "nick", "add"} => ~IsMember(c)

\* Every step keeps joins in order.
LEMMA StepJoin ==
  ASSUME Typed, HandlerOK, JoinOK, [Next]_vars PROVE JoinOK'
<1> USE DEF Typed, TypeOK, HandlerOK, RegisteredHasHandler, JoinOK, IsMember, Actors,
            Goto, conn, access, hub, goroutines, saving, later, counts
<1>1. ASSUME NEW c \in Conns, NEW h \in Hellos, Accept(c, h) PROVE JoinOK'
  BY <1>1 DEF Accept, NewClient
<1>2. ASSUME NEW c \in Conns, Check(c) PROVE JoinOK'
  BY <1>2 DEF Check, Reject
<1>3. ASSUME NEW c \in Conns, NickCheck(c) PROVE JoinOK'
  BY <1>3 DEF NickCheck, Reject
<1>4. ASSUME NEW c \in Conns, Add(c) PROVE JoinOK'
  BY <1>4 DEF Add, Whitelisted
<1>5. ASSUME NEW c \in Conns, SendHandshakeOK(c) PROVE JoinOK'
  BY <1>5 DEF SendHandshakeOK
<1>6. ASSUME NEW c \in Conns, Welcome(c) PROVE JoinOK'
  BY <1>6 DEF Welcome, Whitelisted
<1>7. ASSUME NEW c \in Conns, Grant(c) PROVE JoinOK'
  BY <1>7 DEF Grant
<1>8. ASSUME NEW c \in Conns, WhitelistNew(c) PROVE JoinOK'
  BY <1>8 DEF WhitelistNew
<1>9. ASSUME NEW c \in Conns, Leave(c) PROVE JoinOK'
  BY <1>9 DEF Leave, Unregister, Reading, AfterLeave
<1>10. ASSUME NEW c \in Conns, Reap(c) PROVE JoinOK'
  BY <1>10 DEF Reap
<1>11. ASSUME NEW c \in Conns, DelayedRemoval(c) PROVE JoinOK'
  BY <1>11 DEF DelayedRemoval, Unregister, AfterRemoval
<1>12. ASSUME NEW a \in Actors, saveACLCopy(a) PROVE JoinOK'
  BY <1>12 DEF saveACLCopy
<1>13. ASSUME NEW a \in Actors, saveACLWrite(a) PROVE JoinOK'
  BY <1>13 DEF saveACLWrite
<1>14. ASSUME NEW a \in Actors, rememberAdmin(a) PROVE JoinOK'
  BY <1>14 DEF rememberAdmin
<1>15. ASSUME NEW a \in Actors, Epoch(a) PROVE JoinOK'
  BY <1>15 DEF Epoch, BumpEpoch, DrawToken, Members
<1>16. ASSUME NEW a \in Actors, ApproveGrant(a) PROVE JoinOK'
  BY <1>16 DEF ApproveGrant, BumpEpoch, DrawToken, Members
<1>17. ASSUME NEW a \in Actors, ApproveLists(a) PROVE JoinOK'
  BY <1>17 DEF ApproveLists, AfterApprove
<1>18. ASSUME NEW a \in Actors, SpawnRemoval(a) PROVE JoinOK'
  BY <1>18 DEF SpawnRemoval
<1>19. ASSUME DelayedEpoch PROVE JoinOK'
  BY <1>19 DEF DelayedEpoch, BumpEpoch, DrawToken, Members
<1>20. ASSUME NEW a \in Actors, NEW d \in Conns, Approve(a, d) PROVE JoinOK'
  BY <1>20 DEF Approve, MayCommand
<1>21. ASSUME NEW a \in Actors, NEW d \in Conns, Block(a, d) PROVE JoinOK'
  BY <1>21 DEF Block, MayCommand
<1>22. ASSUME NEW a \in Actors, NEW d \in Conns, KickByMember(a, d) PROVE JoinOK'
  BY <1>22 DEF KickByMember, MayCommand, Unregister
<1>23. ASSUME NEW a \in Actors, NEW d \in Conns, OpByMember(a, d) PROVE JoinOK'
  BY <1>23 DEF OpByMember, MayCommand
<1>24. ASSUME NEW d \in Conns, KickByTui(d) PROVE JoinOK'
  BY <1>24 DEF KickByTui, MayCommand
<1>25. ASSUME NEW d \in Conns, OpByTui(d) PROVE JoinOK'
  BY <1>25 DEF OpByTui, MayCommand
<1>26. ASSUME FileServerStarts PROVE JoinOK'
  BY <1>26, ActorsAssumption DEF FileServerStarts, Save, DrawToken
<1>27. ASSUME FileServerFails PROVE JoinOK'
  BY <1>27, ActorsAssumption DEF FileServerFails
<1>28. ASSUME Restart PROVE JoinOK'
  BY <1>28, ActorsAssumption DEF Restart, loadACL, Started
<1>29. CASE UNCHANGED vars
  BY <1>29 DEF vars
<1>30. QED
  BY <1>1, <1>2, <1>3, <1>4, <1>5, <1>6, <1>7, <1>8, <1>9, <1>10, <1>11, <1>12,
     <1>13, <1>14, <1>15, <1>16, <1>17, <1>18, <1>19, <1>20, <1>21, <1>22, <1>23, <1>24,
     <1>25, <1>26, <1>27, <1>28, <1>29 DEF Next, Handshake, Step, Command

\* Every step keeps a BumpEpoch ahead of each member the last one missed.
LEMMA StepReached ==
  ASSUME Typed, JoinOK, EpochReachesMembers, [Next]_vars PROVE EpochReachesMembers'
<1> USE DEF Typed, TypeOK, JoinOK, IsMember, EpochReachesMembers, Joining, Approving,
            Returning, Members, Actors, Goto, conn, access, hub, goroutines, saving,
            later, counts
<1>1. ASSUME NEW c \in Conns, NEW h \in Hellos, Accept(c, h) PROVE EpochReachesMembers'
  BY <1>1 DEF Accept
<1>2. ASSUME NEW c \in Conns, Check(c) PROVE EpochReachesMembers'
  BY <1>2 DEF Check, Reject
<1>3. ASSUME NEW c \in Conns, NickCheck(c) PROVE EpochReachesMembers'
  BY <1>3 DEF NickCheck, Reject
<1>4. ASSUME NEW c \in Conns, Add(c) PROVE EpochReachesMembers'
  BY <1>4 DEF Add, Whitelisted
<1>5. ASSUME NEW c \in Conns, SendHandshakeOK(c) PROVE EpochReachesMembers'
  BY <1>5 DEF SendHandshakeOK
<1>6. ASSUME NEW c \in Conns, Welcome(c) PROVE EpochReachesMembers'
  BY <1>6 DEF Welcome, Whitelisted
<1>7. ASSUME NEW c \in Conns, Grant(c) PROVE EpochReachesMembers'
  BY <1>7 DEF Grant
<1>8. ASSUME NEW c \in Conns, WhitelistNew(c) PROVE EpochReachesMembers'
  BY <1>8 DEF WhitelistNew
<1>9. ASSUME NEW c \in Conns, Leave(c) PROVE EpochReachesMembers'
  BY <1>9 DEF Leave, Unregister, Reading, AfterLeave
<1>10. ASSUME NEW c \in Conns, Reap(c) PROVE EpochReachesMembers'
  BY <1>10 DEF Reap
<1>11. ASSUME NEW c \in Conns, DelayedRemoval(c) PROVE EpochReachesMembers'
  BY <1>11 DEF DelayedRemoval, Unregister, AfterRemoval
<1>12. ASSUME NEW a \in Actors, saveACLCopy(a) PROVE EpochReachesMembers'
  BY <1>12 DEF saveACLCopy
<1>13. ASSUME NEW a \in Actors, saveACLWrite(a) PROVE EpochReachesMembers'
  BY <1>13 DEF saveACLWrite
<1>14. ASSUME NEW a \in Actors, rememberAdmin(a) PROVE EpochReachesMembers'
  BY <1>14 DEF rememberAdmin
<1>15. ASSUME NEW a \in Actors, Epoch(a) PROVE EpochReachesMembers'
  BY <1>15 DEF Epoch, BumpEpoch, DrawToken, Members
<1>16. ASSUME NEW a \in Actors, ApproveGrant(a) PROVE EpochReachesMembers'
  BY <1>16 DEF ApproveGrant, BumpEpoch, DrawToken, Members
<1>17. ASSUME NEW a \in Actors, ApproveLists(a) PROVE EpochReachesMembers'
  BY <1>17 DEF ApproveLists, AfterApprove
<1>18. ASSUME NEW a \in Actors, SpawnRemoval(a) PROVE EpochReachesMembers'
  BY <1>18 DEF SpawnRemoval
<1>19. ASSUME DelayedEpoch PROVE EpochReachesMembers'
  BY <1>19 DEF DelayedEpoch, BumpEpoch, DrawToken, Members
<1>20. ASSUME NEW a \in Actors, NEW d \in Conns, Approve(a, d) PROVE EpochReachesMembers'
  BY <1>20 DEF Approve, MayCommand, IsMember
<1>21. ASSUME NEW a \in Actors, NEW d \in Conns, Block(a, d) PROVE EpochReachesMembers'
  BY <1>21 DEF Block, MayCommand
<1>22. ASSUME NEW a \in Actors, NEW d \in Conns, KickByMember(a, d) PROVE EpochReachesMembers'
  BY <1>22 DEF KickByMember, MayCommand, Unregister
<1>23. ASSUME NEW a \in Actors, NEW d \in Conns, OpByMember(a, d) PROVE EpochReachesMembers'
  BY <1>23 DEF OpByMember, MayCommand
<1>24. ASSUME NEW d \in Conns, KickByTui(d) PROVE EpochReachesMembers'
  BY <1>24 DEF KickByTui, MayCommand
<1>25. ASSUME NEW d \in Conns, OpByTui(d) PROVE EpochReachesMembers'
  BY <1>25 DEF OpByTui, MayCommand
<1>26. ASSUME FileServerStarts PROVE EpochReachesMembers'
  BY <1>26, ActorsAssumption DEF FileServerStarts, Save, DrawToken
<1>27. ASSUME FileServerFails PROVE EpochReachesMembers'
  BY <1>27, ActorsAssumption DEF FileServerFails
<1>28. ASSUME Restart PROVE EpochReachesMembers'
  BY <1>28, ActorsAssumption DEF Restart, loadACL, Started
<1>29. CASE UNCHANGED vars
  BY <1>29 DEF vars
<1>30. QED
  BY <1>1, <1>2, <1>3, <1>4, <1>5, <1>6, <1>7, <1>8, <1>9, <1>10, <1>11, <1>12,
     <1>13, <1>14, <1>15, <1>16, <1>17, <1>18, <1>19, <1>20, <1>21, <1>22, <1>23, <1>24,
     <1>25, <1>26, <1>27, <1>28, <1>29 DEF Next, Handshake, Step, Command

\* Every step keeps a BumpEpoch ahead of each departed member.
LEMMA StepRotates ==
  ASSUME Typed, EpochFollowsLeavers, [Next]_vars PROVE EpochFollowsLeavers'
<1> USE DEF Typed, TypeOK, EpochFollowsLeavers, RotationDue, Members, IsMember, Actors,
            Goto, conn, access, hub, goroutines, saving, later, counts
<1>1. ASSUME NEW c \in Conns, NEW h \in Hellos, Accept(c, h) PROVE EpochFollowsLeavers'
  BY <1>1 DEF Accept
<1>2. ASSUME NEW c \in Conns, Check(c) PROVE EpochFollowsLeavers'
  BY <1>2 DEF Check, Reject
<1>3. ASSUME NEW c \in Conns, NickCheck(c) PROVE EpochFollowsLeavers'
  BY <1>3 DEF NickCheck, Reject
<1>4. ASSUME NEW c \in Conns, Add(c) PROVE EpochFollowsLeavers'
  BY <1>4 DEF Add, Whitelisted
<1>5. ASSUME NEW c \in Conns, SendHandshakeOK(c) PROVE EpochFollowsLeavers'
  BY <1>5 DEF SendHandshakeOK
<1>6. ASSUME NEW c \in Conns, Welcome(c) PROVE EpochFollowsLeavers'
  BY <1>6 DEF Welcome, Whitelisted
<1>7. ASSUME NEW c \in Conns, Grant(c) PROVE EpochFollowsLeavers'
  BY <1>7 DEF Grant
<1>8. ASSUME NEW c \in Conns, WhitelistNew(c) PROVE EpochFollowsLeavers'
  BY <1>8 DEF WhitelistNew
<1>9. ASSUME NEW c \in Conns, Leave(c) PROVE EpochFollowsLeavers'
  BY <1>9 DEF Leave, Unregister, Reading, AfterLeave
<1>10. ASSUME NEW c \in Conns, Reap(c) PROVE EpochFollowsLeavers'
  BY <1>10 DEF Reap
<1>11. ASSUME NEW c \in Conns, DelayedRemoval(c) PROVE EpochFollowsLeavers'
  BY <1>11 DEF DelayedRemoval, Unregister, AfterRemoval
<1>12. ASSUME NEW a \in Actors, saveACLCopy(a) PROVE EpochFollowsLeavers'
  BY <1>12 DEF saveACLCopy
<1>13. ASSUME NEW a \in Actors, saveACLWrite(a) PROVE EpochFollowsLeavers'
  BY <1>13 DEF saveACLWrite
<1>14. ASSUME NEW a \in Actors, rememberAdmin(a) PROVE EpochFollowsLeavers'
  BY <1>14 DEF rememberAdmin
<1>15. ASSUME NEW a \in Actors, Epoch(a) PROVE EpochFollowsLeavers'
  BY <1>15 DEF Epoch, BumpEpoch, DrawToken, Members
<1>16. ASSUME NEW a \in Actors, ApproveGrant(a) PROVE EpochFollowsLeavers'
  BY <1>16 DEF ApproveGrant, BumpEpoch, DrawToken, Members
<1>17. ASSUME NEW a \in Actors, ApproveLists(a) PROVE EpochFollowsLeavers'
  BY <1>17 DEF ApproveLists, AfterApprove
<1>18. ASSUME NEW a \in Actors, SpawnRemoval(a) PROVE EpochFollowsLeavers'
  BY <1>18 DEF SpawnRemoval
<1>19. ASSUME DelayedEpoch PROVE EpochFollowsLeavers'
  BY <1>19 DEF DelayedEpoch, BumpEpoch, DrawToken, Members
<1>20. ASSUME NEW a \in Actors, NEW d \in Conns, Approve(a, d) PROVE EpochFollowsLeavers'
  BY <1>20 DEF Approve, MayCommand
<1>21. ASSUME NEW a \in Actors, NEW d \in Conns, Block(a, d) PROVE EpochFollowsLeavers'
  BY <1>21 DEF Block, MayCommand
<1>22. ASSUME NEW a \in Actors, NEW d \in Conns, KickByMember(a, d) PROVE EpochFollowsLeavers'
  BY <1>22 DEF KickByMember, MayCommand, Unregister
<1>23. ASSUME NEW a \in Actors, NEW d \in Conns, OpByMember(a, d) PROVE EpochFollowsLeavers'
  BY <1>23 DEF OpByMember, MayCommand
<1>24. ASSUME NEW d \in Conns, KickByTui(d) PROVE EpochFollowsLeavers'
  BY <1>24 DEF KickByTui, MayCommand
<1>25. ASSUME NEW d \in Conns, OpByTui(d) PROVE EpochFollowsLeavers'
  BY <1>25 DEF OpByTui, MayCommand
<1>26. ASSUME FileServerStarts PROVE EpochFollowsLeavers'
  BY <1>26, ActorsAssumption DEF FileServerStarts, Save, DrawToken
<1>27. ASSUME FileServerFails PROVE EpochFollowsLeavers'
  BY <1>27, ActorsAssumption DEF FileServerFails
<1>28. ASSUME Restart PROVE EpochFollowsLeavers'
  BY <1>28, ActorsAssumption DEF Restart, loadACL, Started
<1>29. CASE UNCHANGED vars
  BY <1>29 DEF vars
<1>30. QED
  BY <1>1, <1>2, <1>3, <1>4, <1>5, <1>6, <1>7, <1>8, <1>9, <1>10, <1>11, <1>12,
     <1>13, <1>14, <1>15, <1>16, <1>17, <1>18, <1>19, <1>20, <1>21, <1>22, <1>23, <1>24,
     <1>25, <1>26, <1>27, <1>28, <1>29 DEF Next, Handshake, Step, Command

\* The inductive invariant.
HubInv == /\ Typed /\ HandlerOK /\ JoinOK
          /\ EveryChangeIsSaved /\ EpochCoversMembership

\* The invariant holds throughout.
LEMMA HubInvariant == Spec => []HubInv
<1>1. Init => HubInv
  <2>1. Init => HandlerOK /\ JoinOK
    BY ActorsAssumption
       DEF Init, HandlerOK, RegisteredHasHandler, ContinuesOK, JoinOK, Started, Actors
  <2>2. Init => EveryChangeIsSaved
    BY DEF Init, EveryChangeIsSaved, InMemory, NoLists
  <2>3. Init => EpochCoversMembership
    BY DEF Init, EpochCoversMembership, EpochReachesMembers, EpochFollowsLeavers, Members
  <2> QED BY <2>1, <2>2, <2>3, InitTyped DEF HubInv
<1>2. HubInv /\ [Next]_vars => HubInv'
  BY StepTyped, StepSaved, StepHandler, StepJoin, StepReached, StepRotates
     DEF HubInv, EpochCoversMembership
<1> QED BY <1>1, <1>2, PTL DEF Spec

\* The sender keys follow the membership through every interleaving of joins,
\* approvals, kicks, blocks, leaves and restarts.
THEOREM EpochFollowsMembership == Spec => []EpochCoversMembership
BY HubInvariant, PTL DEF HubInv

\* Nobody stays registered without a handler but the client whose handshake
\* answer failed.
THEOREM RegisteredIsHandled == Spec => []RegisteredHasHandler
BY HubInvariant, PTL DEF HubInv, HandlerOK

\* No change of the access lists is forgotten by saveACL.
THEOREM ChangesAreSaved == Spec => []EveryChangeIsSaved
BY HubInvariant, PTL DEF HubInv

\* A step takes a token only from vaultToken or from the file, and a draw finds
\* none there.
TokenOK == /\ disk.tok \in {0, vaultToken}
           /\ \A a \in Actors : snap[a].tok \in {0, vaultToken}

LEMMA StepToken == ASSUME Typed, TokenOK, [Next]_vars PROVE TokenOK'
<1> USE DEF TokenOK, Typed, TypeOK, conn, access, hub, goroutines, saving, later, counts,
            BumpEpoch, DrawToken
<1>1. ASSUME NEW c \in Conns, Handshake(c) \/ Leave(c) \/ Reap(c) \/ DelayedRemoval(c)
      PROVE  TokenOK'
  BY <1>1 DEF Handshake, Check, NickCheck, Add, SendHandshakeOK, Welcome, Grant,
              WhitelistNew, Leave, Reap, DelayedRemoval
<1>2. ASSUME NEW c \in Conns, NEW h \in Hellos, Accept(c, h) PROVE TokenOK'
  BY <1>2 DEF Accept
<1>3. ASSUME NEW a \in Actors, saveACLCopy(a) PROVE TokenOK'
  BY <1>3 DEF saveACLCopy
<1>4. ASSUME NEW a \in Actors, saveACLWrite(a) PROVE TokenOK'
  BY <1>4 DEF saveACLWrite, NoAcl
<1>5. ASSUME NEW a \in Actors, rememberAdmin(a) \/ ApproveLists(a) \/ SpawnRemoval(a)
      PROVE  TokenOK'
  BY <1>5 DEF rememberAdmin, ApproveLists, SpawnRemoval
<1>6. ASSUME NEW a \in Actors, Epoch(a) \/ ApproveGrant(a) PROVE TokenOK'
  BY <1>6 DEF Epoch, ApproveGrant
<1>7. ASSUME Command PROVE TokenOK'
  BY <1>7 DEF Command, Approve, Block, KickByMember, OpByMember, KickByTui, OpByTui
<1>8. ASSUME DelayedEpoch \/ FileServerStarts \/ FileServerFails PROVE TokenOK'
  BY <1>8 DEF DelayedEpoch, FileServerStarts, FileServerFails
<1>9. ASSUME Restart PROVE TokenOK'
  BY <1>9 DEF Restart, loadACL, NoAcl
<1>10. CASE UNCHANGED vars
  BY <1>10 DEF vars
<1> QED BY <1>1, <1>2, <1>3, <1>4, <1>5, <1>6, <1>7, <1>8, <1>9, <1>10 DEF Next, Step

\* A restarted hub has the token its members hold or none, whichever goroutines
\* draw it, save it and overtake each other, across any number of restarts.
THEOREM StoredTokenStays == Spec => []StoredTokenIsCurrent
<1>1. Init => TokenOK BY DEF Init, TokenOK, NoAcl
<1>2. Typed /\ TokenOK /\ [Next]_vars => TokenOK' BY StepToken
<1>3. TokenOK => StoredTokenIsCurrent BY DEF TokenOK, StoredTokenIsCurrent
<1> QED BY InitTyped, StepTyped, <1>1, <1>2, <1>3, PTL DEF Spec
=============================================================================
