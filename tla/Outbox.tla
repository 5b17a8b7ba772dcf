------------------------------- MODULE Outbox -------------------------------
(***************************************************************************)
(* The outbox of a room: files a user drops there are uploaded and offered *)
(* to the room.  internal/filesync/watch.go watches the directory,         *)
(* StartAutoSync in internal/client/core.go keeps the ledger of what was   *)
(* taken, and one offerFile goroutine per take uploads the file.  The      *)
(* ledger is shared with DownloadSharedFile, which marks what it fetched.  *)
(*                                                                         *)
(* A version of a file is the number of the write that made it; an upload  *)
(* reads a file in one step (Vault has the chunks).  Notices to the user   *)
(* are left out.  Outside src/: fsnotify reports every create and write of *)
(* a watched directory, in order, and its queue does not overflow.         *)
(***************************************************************************)
EXTENDS Naturals, FiniteSets, Sequences, SequencesExt

CONSTANTS
  Names,         \* file names
  Folders,       \* the names that are directories
  TooLarge,      \* the names of files above 100 MB
  Failing,       \* the names whose reading may fail
  Modes,         \* how the directory is watched: "fsnotify" or "poll"
  CoarseClock,   \* whether two writes may get one modification time
  OldTimes,      \* whether a file moved over another may be older than it
  Fetched,       \* the names that are also downloaded over HTTP
  MaxWrites, MaxFetches   \* bounds: changes of the outbox, downloads

ASSUME OutboxAssumption ==
  /\ Names # {} /\ Folders \subseteq Names /\ TooLarge \subseteq Names /\ Fetched \subseteq Names
  /\ Failing \subseteq Names
  /\ Modes \subseteq {"fsnotify", "poll"}
  /\ CoarseClock \in BOOLEAN /\ OldTimes \in BOOLEAN
  /\ MaxWrites \in Nat /\ MaxFetches \in Nat

VARIABLES
  disk,      \* the outbox: each name's version and modification time
  clock,     \* the file system's clock
  writes,    \* how many changes there were
  mode, place, \* how the watcher watches, and where it is
  events,    \* the events fsnotify has for it
  todo,      \* the directory entries a scan has yet to look at
  seen,      \* the poll's own memory of modification times
  found,     \* the file and time the watcher is about to take
  ledger,    \* syncLedger: modification time by name, 0 when absent
  active,    \* activeDownloads
  fetch,     \* a DownloadSharedFile: its name, place, and the time it will mark
  fetches,
  jobs,      \* the offerFile goroutines
  takes,     \* history: the name and time of every offerFile that was started
  offered,   \* history: the names and versions that were uploaded and offered
  failed,    \* history: the names and versions whose upload ended with an error
  disturbed  \* history: the names a download has interfered with

outbox == <<disk, clock, writes>>
watcher == <<mode, place, events, todo, seen, found>>
download == <<active, fetch, fetches, disturbed>>
results == <<offered, failed>>
vars == <<outbox, watcher, ledger, download, jobs, takes, results>>

Version == [ver : Nat, mt : Nat]
Missing == [ver |-> 0, mt |-> 0]
Exists(f) == disk[f].ver # 0

\* The types of the state.
TypeOK ==
  /\ disk \in [Names -> Version] /\ clock \in Nat /\ writes \in 0..MaxWrites
  /\ mode \in {"fsnotify", "poll"}
  /\ place \in {"start", "watch", "scan", "mark", "loop", "stopped"}
  /\ events \in Seq(Names)
  /\ todo \subseteq Names /\ seen \in [Names -> Nat]
  /\ found \in [name : Names, mt : Nat]
  /\ ledger \in [Names -> Nat]
  /\ active \subseteq Names /\ disturbed \subseteq Names
  /\ fetch \in [name : Names, at : {"none", "get", "mark"}, mt : Nat]
  /\ jobs \in Seq([name : Names, ver : Nat])
  /\ takes \in Seq(Names \X Nat)
  /\ offered \subseteq Names \X Nat /\ failed \subseteq Names \X Nat

Init ==
  /\ \E first \in SUBSET Names :
       disk = [f \in Names |-> IF f \in first THEN [ver |-> 1, mt |-> 1] ELSE Missing]
  /\ clock = 2 /\ writes = 0
  /\ mode = "fsnotify" /\ place = "start" /\ events = <<>>
  /\ todo = {} /\ seen = [f \in Names |-> 0]
  /\ found = [name |-> CHOOSE f \in Names : TRUE, mt |-> 0]
  /\ ledger = [f \in Names |-> 0] /\ active = {} /\ disturbed = {}
  /\ fetch = [name |-> CHOOSE f \in Names : TRUE, at |-> "none", mt |-> 0]
  /\ fetches = 0
  /\ jobs = <<>> /\ takes = <<>> /\ offered = {} /\ failed = {}

(***************************************************************************)
(* The user.                                                               *)
(***************************************************************************)
AfterScan == mode = "fsnotify" /\ place = "loop"   \* mutant: the watch is added after the scan
Watched == mode = "fsnotify" /\ place \in {"scan", "mark", "loop"}

\* fsnotify reports a new file twice, as created and as written.
Reported(f) == IF ~Watched THEN events
               ELSE events \o (IF Exists(f) THEN <<f>> ELSE <<f, f>>)

\* The clock moves between two writes, unless it is coarse.
Ticks == IF CoarseClock THEN {clock, clock + 1} ELSE {clock + 1}

WriteFile(f) ==
  /\ writes < MaxWrites
  /\ writes' = writes + 1
  /\ disk' = [disk EXCEPT ![f] = [ver |-> writes + 2, mt |-> clock]]
  /\ clock' \in Ticks
  /\ events' = Reported(f)
  /\ UNCHANGED <<mode, place, todo, seen, found, ledger, download, jobs, takes, results>>

\* mv keeps the modification time of the file it moves.
MoveIn(f, mt) ==
  /\ writes < MaxWrites
  /\ OldTimes \/ (~Exists(f) /\ ledger[f] = 0 /\ seen[f] = 0)
  /\ writes' = writes + 1
  /\ disk' = [disk EXCEPT ![f] = [ver |-> writes + 2, mt |-> mt]]
  /\ events' = IF Watched THEN Append(events, f) ELSE events
  /\ UNCHANGED <<clock, mode, place, todo, seen, found, ledger, download, jobs, takes,
                 results>>

\* A removal is reported and ignored.
RemoveFile(f) ==
  /\ Exists(f) /\ writes < MaxWrites
  /\ writes' = writes + 1
  /\ disk' = [disk EXCEPT ![f] = Missing]
  /\ UNCHANGED <<clock, watcher, ledger, download, jobs, takes, results>>

(***************************************************************************)
(* Watcher.                                                                *)
(***************************************************************************)
\* watchFS falls back to poll when the directory cannot be watched.
Events(m) ==
  /\ place = "start"
  /\ mode' = m
  /\ place' = IF m = "fsnotify" THEN "watch" ELSE "loop"
  /\ UNCHANGED <<outbox, events, todo, seen, found, ledger, download, jobs, takes, results>>

\* fw.Add, then the directory is read once.  From here on Watched holds.
AddWatch ==
  /\ place = "watch"
  /\ place' = "scan"
  /\ todo' = {f \in Names : Exists(f)}
  /\ UNCHANGED <<outbox, mode, events, seen, found, ledger, download, jobs, takes, results>>

\* poll: the ticker.
Tick ==
  /\ place = "loop" /\ mode = "poll"
  /\ place' = "scan"
  /\ todo' = {f \in Names : Exists(f)}
  /\ UNCHANGED <<outbox, mode, events, seen, found, ledger, download, jobs, takes, results>>

\* emit, first half: isDownloading and isSynced.  The second half is Take.
isSynced(f, mt) == ledger[f] # 0 /\ mt <= ledger[f]
Skipped(f, mt) == f \in active \/ isSynced(f, mt)

Emit(f, back) ==
  IF Skipped(f, disk[f].mt)
  THEN place' = back /\ UNCHANGED found
  ELSE place' = "mark" /\ found' = [name |-> f, mt |-> disk[f].mt]

\* scan looks at the entries it read, one after the other; the poll skips what
\* it has seen, the initial scan of watchFS has seen nothing.
Old(f) == mode = "poll" /\ seen[f] # 0 /\ disk[f].mt <= seen[f]

Scan(f) ==
  /\ place = "scan" /\ f \in todo
  /\ todo' = todo \ {f}
  /\ IF ~Exists(f) \/ Old(f)
     THEN UNCHANGED <<seen, place, found>>
     ELSE /\ seen' = IF mode = "poll" THEN [seen EXCEPT ![f] = disk[f].mt] ELSE seen
          /\ Emit(f, "scan")
  /\ UNCHANGED <<outbox, mode, events, ledger, download, jobs, takes, results>>

EndScan ==
  /\ place = "scan" /\ todo = {}
  /\ place' = "loop"
  /\ UNCHANGED <<outbox, mode, events, todo, seen, found, ledger, download, jobs, takes,
                 results>>

\* watchFS: the next event; a file that is gone is no event.
NextEvent ==
  /\ place = "loop" /\ mode = "fsnotify" /\ events # <<>>
  /\ events' = Tail(events)
  /\ IF Exists(Head(events)) THEN Emit(Head(events), "loop") ELSE UNCHANGED <<place, found>>
  /\ UNCHANGED <<outbox, mode, todo, seen, ledger, download, jobs, takes, results>>

\* emit, second half: markSynced, and the upload starts.  The ledger has the
\* file before it is uploaded.
Unmarked == ledger   \* mutant: a taken file is not marked
Deleted == [f \in Names \ {found.name} |-> ledger[f]]   \* mutant: the entry is deleted
Marked == [ledger EXCEPT ![found.name] = found.mt]

Take ==
  /\ place = "mark"
  /\ place' = IF todo # {} THEN "scan" ELSE "loop"
  /\ ledger' = Marked
  /\ jobs' = Append(jobs, [name |-> found.name, ver |-> 0])
  /\ takes' = Append(takes, <<found.name, found.mt>>)
  /\ UNCHANGED <<outbox, mode, events, todo, seen, found, download, results>>

\* The connection ends: Ctx is done, Stop.
Stop ==
  /\ place = "loop"
  /\ place' = "stopped"
  /\ UNCHANGED <<outbox, mode, events, todo, seen, found, ledger, download, jobs, takes,
                 results>>

(***************************************************************************)
(* offerFile.                                                              *)
(***************************************************************************)
\* UploadMux opens and reads the file as it is now; a directory, a file that
\* is gone and one that is too large end the upload for good.
Refused(f) == f \in Folders \cup TooLarge \/ ~Exists(f)

Read(i) ==
  /\ i \in DOMAIN jobs /\ jobs[i].ver = 0
  /\ jobs' = IF Refused(jobs[i].name) THEN RemoveAt(jobs, i)
             ELSE [jobs EXCEPT ![i].ver = disk[jobs[i].name].ver]
  /\ UNCHANGED <<outbox, watcher, ledger, download, takes, results>>

\* os.Open fails, or io.ReadFull at some chunk: offerFile reports the error, and
\* the ledger keeps the mark, so that this version is not tried again.
ReadFails(i) ==
  /\ i \in DOMAIN jobs /\ jobs[i].ver = 0 /\ jobs[i].name \in Failing
  /\ ~Refused(jobs[i].name)
  /\ failed' = failed \cup {<<jobs[i].name, disk[jobs[i].name].ver>>}
  /\ jobs' = RemoveAt(jobs, i)
  /\ UNCHANGED <<outbox, watcher, ledger, download, takes, offered>>

\* The chunks and the FILE_OFFER are on their way.
Offer(i) ==
  /\ i \in DOMAIN jobs /\ jobs[i].ver # 0
  /\ offered' = offered \cup {<<jobs[i].name, jobs[i].ver>>}
  /\ jobs' = RemoveAt(jobs, i)
  /\ UNCHANGED <<outbox, watcher, ledger, download, takes, failed>>

(***************************************************************************)
(* DownloadSharedFile of a file of that name, into the inbox.              *)
(***************************************************************************)
StartFetch(f) ==
  /\ fetch.at = "none" /\ f \in Fetched /\ fetches < MaxFetches
  /\ fetches' = fetches + 1
  /\ active' = active \cup {f} /\ disturbed' = disturbed \cup {f}
  /\ fetch' = [name |-> f, at |-> "get", mt |-> 0]
  /\ UNCHANGED <<outbox, watcher, ledger, jobs, takes, results>>

\* The file is in the inbox; its time is read.
Fetch ==
  /\ fetch.at = "get"
  /\ fetch' = [fetch EXCEPT !.at = "mark", !.mt = clock]
  /\ UNCHANGED <<outbox, watcher, ledger, active, fetches, disturbed, jobs, takes, results>>

EndFetch ==
  /\ fetch.at # "none"
  /\ ledger' = IF fetch.at = "mark" THEN [ledger EXCEPT ![fetch.name] = fetch.mt] ELSE ledger
  /\ active' = active \ {fetch.name}
  /\ fetch' = [fetch EXCEPT !.at = "none", !.mt = 0]
  /\ UNCHANGED <<outbox, watcher, fetches, disturbed, jobs, takes, results>>

User == \E f \in Names : WriteFile(f) \/ RemoveFile(f) \/ \E mt \in 1..(clock - 1) : MoveIn(f, mt)
Watch == \/ \E m \in Modes : Events(m)
         \/ AddWatch \/ Tick \/ EndScan \/ NextEvent \/ Take
         \/ \E f \in Names : Scan(f)
Work == \E i \in 1..Len(jobs) : Read(i) \/ ReadFails(i) \/ Offer(i)
Downloads == (\E f \in Names : StartFetch(f)) \/ Fetch \/ EndFetch

Next == User \/ Watch \/ Work \/ Downloads \/ Stop

Spec == Init /\ [][Next]_vars

\* The watcher's goroutine and the uploads run; nothing makes the user write.
FairSpec == Spec /\ WF_vars(Watch) /\ WF_vars(Work)

-----------------------------------------------------------------------------
\* The last version of f in the outbox has been offered.
UpToDate(f) == place = "stopped" \/ ~Exists(f) \/ <<f, disk[f].ver>> \in offered

\* "Drop files in outbox" (README.md:67): the last version of a file there is
\* offered, also when it came before the watch, between the watch and the scan,
\* or while an earlier version of it was being uploaded or failed to be.  (Folders
\* and large files are refused, a last version whose own upload failed is
\* FailedIsRetried's, and names that were also downloaded are DownloadedToo's.)
LastVersionOffered ==
  \A f \in Names \ (Folders \cup TooLarge) :
    <>[](UpToDate(f) \/ f \in disturbed \/ <<f, disk[f].ver>> \in failed)

\* However often fsnotify reports a change and a scan finds it again, one
\* modification of a file starts one upload.
TakenOnce ==
  \A i, j \in DOMAIN takes :
    i # j /\ takes[i][1] \notin disturbed => takes[i] # takes[j]

\* "Update ledger so we don't re-upload what we just downloaded"
\* (client/core.go:920): but the ledger goes by name, and a newer file of that
\* name in the outbox is not offered either.
DownloadedToo ==
  \A f \in Names \ (Folders \cup TooLarge) : <>[](UpToDate(f) \/ <<f, disk[f].ver>> \in failed)

\* "Drop files in outbox" (README.md:67), without the exception: the ledger has
\* the file before the upload (client/core.go:633), so a version whose upload
\* failed is not offered unless the file is written again.
FailedIsRetried ==
  \A f \in Names \ (Folders \cup TooLarge) : <>[](UpToDate(f) \/ f \in disturbed)
=============================================================================
