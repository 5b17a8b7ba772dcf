------------------------------ MODULE AclStore ------------------------------
(***************************************************************************)
(* How saveACL replaces hub-acl.json (internal/server/persist.go): copy    *)
(* the lists under the lock, os.WriteFile hub-acl.json.tmp (open with      *)
(* O_TRUNC, write, close), os.Rename it over hub-acl.json.  Every saver    *)
(* uses the same temporary name and nothing serialises them, so two savers *)
(* may hold the same inode open.  A version number stands for the lists.   *)
(* The process may die between any two steps; what it wrote stays (a crash *)
(* of the machine, which no fsync guards against, is not modelled).        *)
(***************************************************************************)
EXTENDS Naturals, FiniteSets

CONSTANTS Savers,      \* goroutines that change the lists and save
          Inodes,      \* files the temporary name may be created as
          NoInode,
          MaxVersion, MaxCrashes   \* bounds: changes of the lists, crashes

ASSUME SaversAssumption == NoInode \notin Inodes
ASSUME VersionsAssumption == MaxVersion \in Nat /\ MaxCrashes \in Nat

VARIABLES
  version,   \* the lists in memory
  newest,    \* the last version number given out
  pc,        \* where each saver is
  copy,      \* the version a saver copied
  fd,        \* the inode a saver has open
  tmp, acl,  \* the inodes that hub-acl.json.tmp and hub-acl.json name
  content,   \* what each inode holds: a version, or Torn
  saved,     \* history: the newest version whose saveACL has ended
  crowd,     \* history: the savers whose save has met another one
  spoilt,    \* history: two saves have met, and none has ended alone since
  crashes

files == <<fd, tmp, acl, content>>
history == <<saved, crowd, spoilt>>
vars == <<version, newest, pc, copy, files, history, crashes>>

\* An empty or mixed file: json.Unmarshal fails on it.
Torn == MaxVersion + 1
NoFile == 0
Versions == 0..MaxVersion

\* The types of the state.
TypeOK ==
  /\ version \in Versions /\ newest \in Versions /\ saved \in Versions
  /\ pc \in [Savers -> {"idle", "copy", "open", "write", "rename"}]
  /\ copy \in [Savers -> Versions]
  /\ fd \in [Savers -> Inodes \cup {NoInode}]
  /\ tmp \in Inodes \cup {NoInode} /\ acl \in Inodes \cup {NoInode}
  /\ content \in [Inodes -> Versions \cup {Torn}]
  /\ crowd \subseteq Savers /\ spoilt \in BOOLEAN
  /\ crashes \in Nat

Init ==
  /\ version = 0 /\ newest = 0 /\ saved = 0
  /\ pc = [s \in Savers |-> "idle"]
  /\ copy = [s \in Savers |-> 0]
  /\ fd = [s \in Savers |-> NoInode]
  /\ tmp = NoInode /\ acl = NoInode
  /\ content = [i \in Inodes |-> NoFile]
  /\ crowd = {} /\ spoilt = FALSE
  /\ crashes = 0

\* loadACL: no file and an unreadable file both leave the lists empty.
OnDisk == IF acl = NoInode THEN NoFile ELSE content[acl]
loadACL == IF OnDisk = Torn THEN NoFile ELSE OnDisk

\* A command changes the lists under s.mu and calls saveACL.
Change(s) ==
  /\ pc[s] = "idle" /\ newest < MaxVersion
  /\ newest' = newest + 1 /\ version' = newest + 1
  /\ pc' = [pc EXCEPT ![s] = "copy"]
  /\ UNCHANGED <<copy, files, history, crashes>>

\* The saves that run now: from the copy of the lists to the end of saveACL.
Saving == {s \in Savers : pc[s] \in {"open", "write", "rename"}}

\* A save that begins meets those that run.
Meets(s) == IF Saving = {} THEN UNCHANGED spoilt /\ crowd' = crowd \ {s}
            ELSE spoilt' = TRUE /\ crowd' = crowd \cup Saving \cup {s}

Copy(s) ==
  /\ pc[s] = "copy"
  /\ copy' = [copy EXCEPT ![s] = version]
  /\ pc' = [pc EXCEPT ![s] = "open"]
  /\ Meets(s)
  /\ UNCHANGED <<version, newest, files, saved, crashes>>

InPlace == IF acl = NoInode THEN Inodes ELSE {acl}   \* mutant: no temporary file

\* os.WriteFile opens (and truncates) the file the temporary name stands for.
Target == IF tmp # NoInode THEN {tmp}
          ELSE {i \in Inodes : i # acl /\ \A s \in Savers : fd[s] # i}

Open(s) ==
  /\ pc[s] = "open"
  /\ \E i \in Target :
       /\ fd' = [fd EXCEPT ![s] = i]
       /\ tmp' = i
       /\ content' = [content EXCEPT ![i] = Torn]
  /\ pc' = [pc EXCEPT ![s] = "write"]
  /\ UNCHANGED <<version, newest, copy, acl, history, crashes>>

Appended(s) == {content[fd[s]] + copy[s]}   \* mutant: the file is not truncated

\* The write starts at offset 0.  Over what another saver wrote to the inode
\* meanwhile it leaves that text's tail when that text is longer.
Outcomes(s) == IF content[fd[s]] \in {Torn, copy[s]} THEN {copy[s]} ELSE {copy[s], Torn}

Write(s) ==
  /\ pc[s] = "write"
  /\ \E o \in Outcomes(s) : content' = [content EXCEPT ![fd[s]] = o]
  /\ fd' = [fd EXCEPT ![s] = NoInode]
  /\ pc' = [pc EXCEPT ![s] = "rename"]
  /\ UNCHANGED <<version, newest, copy, tmp, acl, history, crashes>>

\* The disk is full, or the directory is gone: saveACL returns without a word,
\* whichever of the file operations reports it.
SaveFails(s) ==
  /\ pc[s] \in {"open", "write", "rename"}
  /\ fd' = [fd EXCEPT ![s] = NoInode]
  /\ pc' = [pc EXCEPT ![s] = "idle"]
  /\ UNCHANGED <<version, newest, copy, tmp, acl, content, history, crashes>>

NotRenamed == acl   \* mutant: the rename is forgotten
Renamed == tmp      \* where hub-acl.json points after os.Rename

\* os.Rename; when another saver has renamed the file away the error is ignored.
Rename(s) ==
  /\ pc[s] = "rename"
  /\ IF tmp = NoInode THEN UNCHANGED <<tmp, acl>> ELSE acl' = Renamed /\ tmp' = NoInode
  /\ saved' = IF copy[s] > saved THEN copy[s] ELSE saved
  /\ spoilt' = (spoilt /\ s \in crowd)
  /\ pc' = [pc EXCEPT ![s] = "idle"]
  /\ UNCHANGED <<version, newest, copy, fd, content, crowd, crashes>>

\* The process dies and is started again.
Crash ==
  /\ crashes < MaxCrashes
  /\ crashes' = crashes + 1
  /\ version' = loadACL
  /\ pc' = [s \in Savers |-> "idle"]
  /\ copy' = [s \in Savers |-> 0]
  /\ fd' = [s \in Savers |-> NoInode]
  /\ UNCHANGED <<newest, tmp, acl, content, history>>

Next == Crash \/ \E s \in Savers : \/ Change(s) \/ Copy(s) \/ Open(s) \/ Write(s)
                                   \/ SaveFails(s) \/ Rename(s)

Spec == Init /\ [][Next]_vars

-----------------------------------------------------------------------------
\* Whatever is on disk can be read back: a crash at any point of a save never
\* leaves hub-acl.json empty or mixed, which loadACL would take for no lists
\* at all ("persist ... across hub restarts", README.md:18).
AclReadable == OnDisk # Torn

\* A change whose saveACL has ended is still there after a restart, and the file
\* can be read, unless two saves have met; then it is so again from the end of the
\* next save that meets no other.
SavedIsDurable == ~spoilt => AclReadable /\ loadACL >= saved

\* saveACL and loadACL behave as one atomic, durable file, which goes bad when two
\* saves meet and is mended by the next one that meets no other.
Atomic == INSTANCE AclFile WITH mem <- version, file <- OnDisk
ImplementsAclFile == Atomic!Spec
=============================================================================
