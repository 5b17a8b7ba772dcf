------------------------------ MODULE AclProofs -----------------------------
(***************************************************************************)
(* What saveACL guarantees, for any number of savers, versions, crashes    *)
(* and inodes: types, durability and atomicity, the last two as long as no *)
(* two saves have met and again from the next save that meets no other.    *)
(***************************************************************************)
EXTENDS AclStore, TLAPS

LEMMA TornIsNoVersion ==
  /\ Torn \notin Versions /\ NoFile \in Versions
  /\ Versions \subseteq Nat /\ Torn \in Nat
BY VersionsAssumption DEF Torn, Versions, NoFile

LEMMA LoadsAVersion == TypeOK => /\ OnDisk \in Versions \cup {Torn}
                                 /\ loadACL \in Versions
BY TornIsNoVersion DEF TypeOK, OnDisk, loadACL

-----------------------------------------------------------------------------
(* Types. *)

LEMMA AclTypesInit == Init => TypeOK
<1>1. Init => spoilt \in BOOLEAN BY Zenon DEF Init
<1>2. Init => crowd \subseteq Savers BY DEF Init
<1>3. QED BY <1>1, <1>2, VersionsAssumption DEF Init, TypeOK, Versions, NoFile

LEMMA AclTypesStep == ASSUME TypeOK, [Next]_vars PROVE TypeOK'
<1> USE DEF TypeOK, files, history
<1>1. ASSUME NEW s \in Savers, Change(s) PROVE TypeOK'
  BY <1>1, VersionsAssumption DEF Change, Versions
<1>2. ASSUME NEW s \in Savers, Copy(s) PROVE TypeOK'
  BY <1>2 DEF Copy, Meets, Saving
<1>3. ASSUME NEW s \in Savers, Open(s) PROVE TypeOK'
  <2>1. PICK i \in Target : /\ fd' = [fd EXCEPT ![s] = i] /\ tmp' = i
                            /\ content' = [content EXCEPT ![i] = Torn]
    BY <1>3 DEF Open
  <2>2. i \in Inodes BY <2>1 DEF Target
  <2>3. QED BY <1>3, <2>1, <2>2 DEF Open
<1>4. ASSUME NEW s \in Savers, Write(s) PROVE TypeOK'
  <2>1. PICK o \in Outcomes(s) : content' = [content EXCEPT ![fd[s]] = o]
    BY <1>4 DEF Write
  <2>2. o \in Versions \cup {Torn} BY <2>1 DEF Outcomes
  <2>3. QED BY <1>4, <2>1, <2>2 DEF Write
<1>5. ASSUME NEW s \in Savers, SaveFails(s) PROVE TypeOK'
  BY <1>5 DEF SaveFails
<1>6. ASSUME NEW s \in Savers, Rename(s) PROVE TypeOK'
  BY <1>6 DEF Rename, Renamed
<1>7. CASE Crash
  <2>1. loadACL \in Versions /\ 0 \in Versions BY LoadsAVersion, TornIsNoVersion DEF NoFile
  <2>2. QED BY <1>7, <2>1 DEF Crash
<1>8. CASE UNCHANGED vars BY <1>8 DEF vars
<1>9. QED BY <1>1, <1>2, <1>3, <1>4, <1>5, <1>6, <1>7, <1>8 DEF Next

\* The state of the savers and of the files keeps its types, with any number
\* of savers: what loadACL finds is a version or is seen to be torn.
THEOREM AclTyped == Spec => []TypeOK
BY AclTypesInit, AclTypesStep, PTL DEF Spec

-----------------------------------------------------------------------------
(* Saves that meet no other. *)

\* Version numbers only grow; whoever is saving works on the newest lists.
NumbersOK ==
  /\ version <= newest /\ saved <= newest
  /\ \A s \in Savers : copy[s] <= newest
  /\ \A i \in Inodes : content[i] # Torn => content[i] <= newest
  /\ \A s \in Savers : pc[s] # "idle" => version = newest

\* Saves that run at the same time are in the crowd, and then the file is spoilt.
CrowdOK == /\ \A s, t \in Saving : s # t => s \in crowd
           /\ \A s \in Saving : s \in crowd => spoilt

\* A save that has met no other is the newest, the temporary file is its own,
\* and what it has written so far is in it.
AloneOK ==
  \A s \in Saving \ crowd :
    /\ saved <= copy[s]
    /\ ~spoilt => OnDisk <= copy[s]
    /\ pc[s] = "write" => tmp # NoInode /\ fd[s] = tmp /\ content[tmp] = Torn
    /\ pc[s] = "rename" => tmp # NoInode /\ content[tmp] = copy[s]

FileOK == ~spoilt => OnDisk # Torn /\ saved <= OnDisk

AclInv == /\ TypeOK /\ NumbersOK /\ CrowdOK /\ AloneOK /\ FileOK
          /\ tmp # NoInode => tmp # acl

LEMMA AclInit == Init => AclInv
BY AclTypesInit, TornIsNoVersion
DEF Init, AclInv, NumbersOK, CrowdOK, AloneOK, FileOK, Saving, OnDisk, NoFile, Versions

\* A step that leaves hub-acl.json, its content and its name alone.
LEMMA FileKept ==
  ASSUME TypeOK, acl' = acl, acl # NoInode => content'[acl] = content[acl]
  PROVE  OnDisk' = OnDisk
BY DEF OnDisk

\* What each step does to the lists and to the file, and that it preserves the
\* invariant.
LEMMA AclStep ==
  ASSUME AclInv, [Next]_vars
  PROVE  AclInv' /\ [Atomic!Next]_<<version, OnDisk, spoilt>>
<1> USE DEF files, history
<1>0. TypeOK' BY AclTypesStep DEF AclInv
<1>1. /\ OnDisk \in Versions \cup {Torn} /\ loadACL \in {0, OnDisk}
      /\ OnDisk # Torn => loadACL = OnDisk
      /\ Versions \subseteq Nat /\ Torn \in Nat /\ Torn \notin Versions
  BY LoadsAVersion, TornIsNoVersion DEF AclInv, loadACL, NoFile
<1>2. ASSUME NEW s \in Savers, Change(s) PROVE AclInv' /\ Atomic!Next
  <2>1. OnDisk' = OnDisk BY <1>2, FileKept DEF Change, AclInv
  <2>2. newest \in Nat /\ version \in Nat /\ version <= newest
    BY <1>1 DEF AclInv, TypeOK, NumbersOK
  <2>3. newest' = newest + 1 /\ version' = newest + 1 BY <1>2 DEF Change
  <2>4. Atomic!Change BY <1>2, <2>1, <2>2, <2>3 DEF Change, Atomic!Change
  <2>5. saved \in Nat /\ \A t \in Savers : copy[t] \in Nat
    BY <1>1 DEF AclInv, TypeOK
  <2>6. \A i \in Inodes : content[i] \in Nat BY <1>1 DEF AclInv, TypeOK
  <2>7. NumbersOK'
    BY <2>2, <2>3, <2>5, <2>6, <1>2 DEF Change, AclInv, NumbersOK, Torn
  <2>8. Saving' = Saving BY <1>2 DEF Change, Saving, AclInv, TypeOK
  <2>9. CrowdOK' BY <1>2, <2>8 DEF Change, AclInv, CrowdOK
  <2>10. AloneOK' /\ FileOK'
    BY <1>2, <2>1, <2>8 DEF Change, AclInv, TypeOK, AloneOK, FileOK, Saving, Torn
  <2>11. QED BY <1>0, <1>2, <2>4, <2>7, <2>9, <2>10 DEF AclInv, Change, Atomic!Next
<1>3. ASSUME NEW s \in Savers, Copy(s)
      PROVE  AclInv' /\ [Atomic!Next]_<<version, OnDisk, spoilt>>
  <2>1. OnDisk' = OnDisk BY <1>3, FileKept DEF Copy, AclInv
  <2>2. NumbersOK'
    BY <1>1, <1>3 DEF Copy, AclInv, TypeOK, NumbersOK, Torn
  <2>3. Saving' = Saving \cup {s} BY <1>3 DEF Copy, Saving, AclInv, TypeOK
  <2>4. CASE Saving = {}
    <3>1. spoilt' = spoilt /\ crowd' = crowd \ {s} /\ Saving' = {s}
      BY <1>3, <2>3, <2>4 DEF Copy, Meets
    <3>2. CrowdOK' BY <3>1 DEF CrowdOK
    <3>3. copy'[s] = newest /\ saved' = saved /\ pc'[s] = "open"
      BY <1>3 DEF Copy, AclInv, TypeOK, NumbersOK
    <3>4. ~spoilt => OnDisk <= newest
      BY <1>1 DEF AclInv, TypeOK, NumbersOK, FileOK, OnDisk, NoFile, Versions
    <3>5. AloneOK' /\ FileOK'
      BY <1>3, <2>1, <3>1, <3>3, <3>4 DEF Copy, AclInv, NumbersOK, AloneOK, FileOK, Torn
    <3>6. QED BY <1>0, <1>3, <2>1, <2>2, <3>1, <3>2, <3>5 DEF AclInv, Copy
  <2>5. CASE Saving # {}
    <3>1. spoilt' = TRUE /\ crowd' = crowd \cup Saving \cup {s}
      BY <1>3, <2>5 DEF Copy, Meets
    <3>2. CrowdOK' /\ AloneOK' /\ FileOK' BY <2>3, <3>1 DEF CrowdOK, AloneOK, FileOK
    <3>3. Atomic!Meet BY <1>3, <3>1 DEF Copy, Atomic!Meet
    <3>4. QED BY <1>0, <1>3, <2>2, <3>2, <3>3 DEF AclInv, Copy, Atomic!Next
  <2>6. QED BY <2>4, <2>5
<1>4. ASSUME NEW s \in Savers, Open(s)
      PROVE  AclInv' /\ UNCHANGED <<version, OnDisk, spoilt>>
  <2>1. PICK i \in Target : /\ fd' = [fd EXCEPT ![s] = i] /\ tmp' = i
                            /\ content' = [content EXCEPT ![i] = Torn]
    BY <1>4 DEF Open
  <2>2. i \in Inodes /\ i # acl /\ i # NoInode
    BY <2>1, SaversAssumption DEF Target, AclInv, TypeOK
  <2>3. OnDisk' = OnDisk BY <1>4, <2>1, <2>2, FileKept DEF Open, AclInv, TypeOK
  <2>4. NumbersOK' BY <1>1, <1>4, <2>1, <2>2 DEF Open, AclInv, TypeOK, NumbersOK, Torn
  <2>5. Saving' = Saving /\ s \in Saving BY <1>4 DEF Open, Saving, AclInv, TypeOK
  <2>6. CrowdOK' /\ FileOK' BY <1>4, <2>3, <2>5 DEF Open, AclInv, CrowdOK, FileOK, Torn
  <2>7. ASSUME NEW t \in Saving \ crowd PROVE t = s BY <2>5, <2>7 DEF AclInv, CrowdOK
  <2>8. AloneOK'
    BY <1>4, <2>1, <2>2, <2>3, <2>5, <2>7 DEF Open, AclInv, TypeOK, AloneOK, Torn
  <2>9. QED BY <1>0, <1>4, <2>1, <2>2, <2>3, <2>4, <2>6, <2>8 DEF AclInv, Open
<1>5. ASSUME NEW s \in Savers, Write(s)
      PROVE  AclInv' /\ [Atomic!Next]_<<version, OnDisk, spoilt>>
  <2>1. PICK o \in Outcomes(s) : content' = [content EXCEPT ![fd[s]] = o]
    BY <1>5 DEF Write
  <2>2. o \in {copy[s], Torn} /\ (content[fd[s]] = Torn => o = copy[s]) /\ copy[s] \in Versions
    BY <2>1 DEF Outcomes, AclInv, TypeOK
  <2>3. NumbersOK' BY <1>1, <1>5, <2>1, <2>2 DEF Write, AclInv, TypeOK, NumbersOK, Torn
  <2>4. Saving' = Saving /\ s \in Saving BY <1>5 DEF Write, Saving, AclInv, TypeOK
  <2>5. CrowdOK' BY <1>5, <2>4 DEF Write, AclInv, CrowdOK
  <2>6. CASE s \notin crowd
    <3>1. content[tmp] = Torn /\ fd[s] = tmp /\ tmp \in Inodes /\ tmp # acl
      BY <1>5, <2>4, <2>6 DEF Write, AclInv, AloneOK, TypeOK
    <3>2. content' = [content EXCEPT ![tmp] = copy[s]] BY <2>1, <2>2, <3>1
    <3>3. OnDisk' = OnDisk BY <1>5, <3>1, <3>2, FileKept DEF Write, AclInv, TypeOK
    <3>4. FileOK' BY <1>5, <3>3 DEF Write, AclInv, FileOK, Torn
    <3>5. ASSUME NEW t \in Saving \ crowd PROVE t = s BY <2>4, <3>5 DEF AclInv, CrowdOK
    <3>6. AloneOK'
      BY <1>5, <2>4, <3>1, <3>2, <3>3, <3>5 DEF Write, AclInv, TypeOK, AloneOK, Torn
    <3>7. QED BY <1>0, <1>5, <2>3, <2>5, <3>3, <3>4, <3>6 DEF AclInv, Write
  <2>7. CASE s \in crowd
    <3>1. spoilt /\ Saving \ crowd = {} BY <2>4, <2>7 DEF AclInv, CrowdOK
    <3>2. spoilt' = TRUE /\ version' = version /\ crowd' = crowd
      BY <1>5, <3>1 DEF Write, AclInv, TypeOK
    <3>3. FileOK' /\ AloneOK' BY <2>4, <3>1, <3>2 DEF FileOK, AloneOK
    <3>4. Atomic!Meet BY <3>2 DEF Atomic!Meet
    <3>5. QED BY <1>0, <1>5, <2>3, <2>5, <3>3, <3>4 DEF AclInv, Write, Atomic!Next
  <2>8. QED BY <2>6, <2>7
<1>6. ASSUME NEW s \in Savers, SaveFails(s)
      PROVE  AclInv' /\ UNCHANGED <<version, OnDisk, spoilt>>
  <2>1. OnDisk' = OnDisk BY <1>6, FileKept DEF SaveFails, AclInv
  <2>2. NumbersOK' BY <1>1, <1>6 DEF SaveFails, AclInv, TypeOK, NumbersOK, Torn
  <2>3. Saving' = Saving \ {s} BY <1>6 DEF SaveFails, Saving, AclInv, TypeOK
  <2>4. CrowdOK' /\ FileOK' BY <1>6, <2>1, <2>3 DEF SaveFails, AclInv, CrowdOK, FileOK, Torn
  <2>5. AloneOK'
    BY <1>6, <2>1, <2>3 DEF SaveFails, AclInv, TypeOK, AloneOK, Saving, Torn
  <2>6. QED BY <1>0, <1>6, <2>1, <2>2, <2>4, <2>5 DEF AclInv, SaveFails
<1>7. ASSUME NEW s \in Savers, Rename(s)
      PROVE  AclInv' /\ [Atomic!Next]_<<version, OnDisk, spoilt>>
  <2>1. Saving' = Saving \ {s} /\ s \in Saving
    BY <1>7 DEF Rename, Saving, AclInv, TypeOK
  <2>2. NumbersOK' BY <1>1, <1>7 DEF Rename, AclInv, TypeOK, NumbersOK, Torn
  <2>3. tmp' = NoInode BY <1>7 DEF Rename
  <2>4. CASE s \notin crowd
    <3>1. tmp # NoInode /\ content[tmp] = copy[s] /\ saved <= copy[s]
      BY <1>7, <2>1, <2>4 DEF Rename, AclInv, AloneOK
    <3>2. acl' = tmp /\ content' = content /\ version' = version /\ spoilt' = FALSE
      BY <1>7, <2>4, <3>1 DEF Rename, Renamed
    <3>3. OnDisk' = copy[s] BY <3>1, <3>2 DEF OnDisk
    <3>4. copy[s] \in Versions /\ copy[s] <= version /\ copy[s] \in Nat /\ version \in Nat
      BY <1>1, <1>7 DEF Rename, AclInv, TypeOK, NumbersOK
    <3>5. spoilt \/ copy[s] >= OnDisk
      BY <1>1, <2>1, <2>4, <3>4 DEF AclInv, AloneOK
    <3>6. Atomic!Replace BY <3>2, <3>3, <3>4, <3>5 DEF Atomic!Replace
    <3>7. saved' = copy[s]
      BY <1>1, <1>7, <3>1, <3>4 DEF Rename, AclInv, TypeOK
    <3>8. FileOK' BY <1>1, <3>3, <3>4, <3>7 DEF FileOK, Torn
    <3>9. ASSUME NEW t \in Saving \ {s} PROVE t \in crowd /\ FALSE
      BY <2>1, <2>4, <3>9 DEF AclInv, CrowdOK
    <3>10. CrowdOK' /\ AloneOK' BY <2>1, <3>9 DEF CrowdOK, AloneOK
    <3>11. QED BY <1>0, <2>2, <2>3, <3>6, <3>8, <3>10 DEF AclInv, Atomic!Next
  <2>5. CASE s \in crowd
    <3>1. spoilt /\ Saving \ crowd = {} BY <2>1, <2>5 DEF AclInv, CrowdOK
    <3>2. spoilt' = TRUE /\ version' = version /\ crowd' = crowd
      BY <1>7, <2>5, <3>1 DEF Rename
    <3>3. CrowdOK' /\ FileOK' /\ AloneOK'
      BY <2>1, <3>1, <3>2 DEF AclInv, CrowdOK, FileOK, AloneOK
    <3>4. Atomic!Meet BY <3>2 DEF Atomic!Meet
    <3>5. QED BY <1>0, <2>2, <2>3, <3>3, <3>4 DEF AclInv, Atomic!Next
  <2>6. QED BY <2>4, <2>5
<1>8. CASE Crash
  <2>1. OnDisk' = OnDisk BY <1>8, FileKept DEF Crash, AclInv
  <2>2. version' = loadACL /\ UNCHANGED <<newest, tmp, acl, content, saved, spoilt, crowd>>
    BY <1>8 DEF Crash
  <2>3. Atomic!Restart BY <1>1, <2>1, <2>2 DEF Atomic!Restart, AclInv, FileOK
  <2>4. loadACL <= newest
    BY <1>1 DEF AclInv, TypeOK, NumbersOK, loadACL, OnDisk, NoFile
  <2>5. NumbersOK' BY <1>1, <1>8, <2>2, <2>4 DEF Crash, AclInv, TypeOK, NumbersOK, Torn
  <2>6. Saving' = {} BY <1>8 DEF Crash, Saving
  <2>7. CrowdOK' /\ AloneOK' BY <2>6 DEF CrowdOK, AloneOK
  <2>8. FileOK' BY <2>1, <2>2 DEF AclInv, FileOK, Torn
  <2>9. QED BY <1>0, <2>2, <2>3, <2>5, <2>7, <2>8 DEF AclInv, Atomic!Next
<1>9. CASE UNCHANGED vars
  <2>1. OnDisk' = OnDisk /\ Saving' = Saving BY <1>9 DEF vars, OnDisk, Saving
  <2>2. NumbersOK' /\ CrowdOK' /\ AloneOK' /\ FileOK'
    BY <1>9, <2>1 DEF vars, AclInv, NumbersOK, CrowdOK, AloneOK, FileOK, Torn
  <2>3. QED BY <1>0, <1>9, <2>1, <2>2 DEF vars, AclInv
<1>10. QED BY <1>2, <1>3, <1>4, <1>5, <1>6, <1>7, <1>8, <1>9 DEF Next

LEMMA AclInvariant == Spec => []AclInv
<1>1. AclInv /\ [Next]_vars => AclInv' BY AclStep
<1>2. QED BY <1>1, AclInit, PTL DEF Spec

\* However many goroutines save and whenever the process dies: as long as no two
\* saves have met, and again once a save has ended that met no other,
\* hub-acl.json can be read and holds the newest change whose saveACL has ended.
THEOREM SavesAreDurable == Spec => []SavedIsDurable
<1>1. AclInv => SavedIsDurable
  BY TornIsNoVersion
  DEF AclInv, FileOK, TypeOK, AclReadable, SavedIsDurable, loadACL, OnDisk, NoFile
<1>2. QED BY <1>1, AclInvariant, PTL

\* saveACL and loadACL implement AclFile with any number of savers: the Rename of
\* a save that met no other replaces the file in one step, by whole lists that are
\* not older, and only saves that meet spoil it.
THEOREM StoreImplementsFile == Spec => ImplementsAclFile
<1>1. Init => Atomic!Init BY DEF Init, Atomic!Init, OnDisk, NoFile
<1>2. AclInv /\ [Next]_vars => [Atomic!Next]_<<version, OnDisk, spoilt>> BY AclStep
<1>3. QED BY <1>1, <1>2, AclInvariant, PTL DEF Spec, ImplementsAclFile, Atomic!Spec
=============================================================================
