-------------------------------- MODULE Hub --------------------------------
(***************************************************************************)
(* Membership of a CONNER hub (internal/server): who is registered with    *)
(* the ClientManager, who is WHITELISTED or an admin, the access lists in  *)
(* memory and in hub-acl.json, and when the members are told to rotate     *)
(* their sender keys (EPOCH).                                              *)
(*                                                                         *)
(* The goroutines are one handleConnection per connection, the hub's admin *)
(* panel, the starting file server, and the delayed removals that a block  *)
(* and the panel's kick spawn.  An action is a stretch of one goroutine    *)
(* that writes one of: the client table, one Client, the access lists, the *)
(* file, the set of members an EPOCH goes to.  The reads that decide the   *)
(* write belong to the same action.                                        *)
(*                                                                         *)
(* Texts, the dashboard log and the history ring are left out: no decision *)
(* of this component reads them.  hub-acl.json is replaced in one step     *)
(* here; AclStore has the steps of the replacement.                        *)
(***************************************************************************)
EXTENDS Naturals, FiniteSets

CONSTANTS
  Conns,       \* TCP connections; a connection is its remote address
  Keys,        \* Ed25519 identity keys (base64)
  Nicks,       \* nicknames
  Ids,         \* self-reported identities (onion or IP) that bans apply to
  Hellos,      \* the ClientHello contents that may arrive
  AutoModes,   \* the values --auto-approve may have at a boot
  Tui, Fs,     \* the admin panel and the file-server goroutines
  TuiCommands, \* the commands the operator types in the panel
  NoNick, NoConn,
  MaxBoots, MaxConnects, MaxOps   \* bounds: hub starts, accepts, admin commands

Actors == Conns \cup {Tui, Fs}

ASSUME ActorsAssumption ==
  /\ Tui \notin Conns /\ Fs \notin Conns /\ Tui # Fs
  /\ NoConn \notin Conns
  /\ NoNick \notin Nicks

ASSUME InputsAssumption ==
  /\ Hellos # {} /\ Hellos \subseteq [key : Keys, nick : Nicks, id : Ids]
  /\ AutoModes \subseteq BOOLEAN
  /\ TuiCommands \subseteq {"approve", "block", "kick", "op"}

ASSUME BoundsAssumption ==
  MaxBoots \in Nat /\ MaxConnects \in Nat /\ MaxOps \in Nat

VARIABLES
  clients,     \* ClientManager.clients: the registered connections
  cl,          \* the Client each connection's goroutine allocated
  up,          \* FALSE once the hub has closed the connection
  whitelist,   \* WhitelistMap: key -> nick
  blacklist,   \* the identities in BlacklistMap
  admins,      \* the keys in Admins
  vaultToken,  \* VaultToken: 0 is "", b the token drawn in boot b
  autoApprove, \* AutoApprove
  pc,          \* where each goroutine is
  cont,        \* where a goroutine continues after saveACL or BumpEpoch
  tgt,         \* the Client a goroutine is granting, approving or blocking
  seen,        \* whitelistedNick: what handleConnection read from WhitelistMap
  snap,        \* the aclFile a goroutine copied in saveACL
  removals,    \* removeClient calls that wait for their 100 ms
  rotating,    \* delayed removeClient calls that have yet to call BumpEpoch
  disk,        \* hub-acl.json
  atEpoch,     \* whom the last EPOCH was sent to
  latest,      \* history: the lists in the newest snapshot saveACL took
  boots, connects, ops

access == <<whitelist, blacklist, admins>>
conn == <<clients, cl, up>>
goroutines == <<pc, cont, tgt>>
later == <<removals, rotating>>
hub == <<vaultToken, atEpoch>>
saving == <<snap, disk, latest>>
counts == <<boots, connects, ops>>
vars == <<conn, access, hub, autoApprove, goroutines, seen, saving, later, counts>>

NickOrNone == Nicks \cup {NoNick}
States == {"PENDING", "WHITELISTED"}
Client == [key : Keys, nick : Nicks, id : Ids, state : States, admin : BOOLEAN]
Lists == [wl : [Keys -> NickOrNone], bl : SUBSET Ids, adm : SUBSET Keys]
Acl == [lists : Lists, tok : Nat]
Labels == {"idle", "check", "nick", "add", "ok", "welcome", "grant", "list",
           "remember", "save", "write", "epoch", "ready", "failed", "spawn",
           "apvGrant", "apvLists", "fsStart"}

\* The types of the state; a Client outlives its registration.
TypeOK ==
  /\ clients \subseteq Conns
  /\ cl \in [Conns -> Client]
  /\ up \in [Conns -> BOOLEAN]
  /\ whitelist \in [Keys -> NickOrNone]
  /\ blacklist \subseteq Ids
  /\ admins \subseteq Keys
  /\ vaultToken \in Nat
  /\ autoApprove \in BOOLEAN
  /\ pc \in [Actors -> Labels]
  /\ cont \in [Actors -> {"epoch", "spawn", "ready", "idle"}]
  /\ tgt \in [Actors -> Conns \cup {NoConn}]
  /\ seen \in [Conns -> NickOrNone]
  /\ snap \in [Actors -> Acl]
  /\ removals \in [Conns -> Nat]
  /\ rotating \in Nat
  /\ disk \in Acl
  /\ latest \in Lists
  /\ atEpoch \subseteq Conns
  /\ boots \in Nat /\ connects \in Nat /\ ops \in Nat

\* s.WhitelistMap, s.BlacklistMap and s.Admins as saveACL copies them
InMemory == [wl |-> whitelist, bl |-> blacklist, adm |-> admins]
NoLists == [wl |-> [k \in Keys |-> NoNick], bl |-> {}, adm |-> {}]
NoAcl == [lists |-> NoLists, tok |-> 0]

Members == {c \in clients : cl[c].state = "WHITELISTED"}
WhitelistedCount == Cardinality(Members)
isStoredAdmin(key) == key \in admins

Goto(a, label) == pc' = [pc EXCEPT ![a] = label]

(* A goroutine asks for saveACL; it goes on at k once the file is replaced. *)
Save(a, k) == /\ pc' = [pc EXCEPT ![a] = "save"]
              /\ cont' = [cont EXCEPT ![a] = k]

(***************************************************************************)
(* Starting: NewServer, loadACL and StartOn.  A restart may come at any    *)
(* point: a signal, a crash, the operator.                                 *)
(***************************************************************************)
NewClient(h) == [key |-> h.key, nick |-> h.nick, id |-> h.id,
                 state |-> "PENDING", admin |-> FALSE]
Fresh == [c \in Conns |-> NewClient(CHOOSE h \in Hellos : TRUE)]
Started == [a \in Actors |-> IF a = Fs THEN "fsStart"
                             ELSE IF a = Tui THEN "ready" ELSE "idle"]

Init ==
  /\ clients = {} /\ cl = Fresh /\ up = [c \in Conns |-> FALSE]
  /\ whitelist = NoLists.wl /\ blacklist = {} /\ admins = {} /\ vaultToken = 0
  /\ autoApprove \in AutoModes
  /\ pc = Started
  /\ cont = [a \in Actors |-> "ready"]
  /\ tgt = [a \in Actors |-> NoConn]
  /\ seen = [c \in Conns |-> NoNick]
  /\ snap = [a \in Actors |-> NoAcl]
  /\ removals = [c \in Conns |-> 0] /\ rotating = 0
  /\ atEpoch = {} /\ disk = NoAcl /\ latest = NoLists
  /\ boots = 1 /\ connects = 0 /\ ops = 0

loadACL ==
  /\ whitelist' = disk.lists.wl /\ blacklist' = disk.lists.bl
  /\ admins' = disk.lists.adm /\ vaultToken' = disk.tok

Restart ==
  /\ boots < MaxBoots
  /\ boots' = boots + 1
  /\ loadACL
  /\ autoApprove' \in AutoModes
  /\ clients' = {} /\ cl' = Fresh /\ up' = [c \in Conns |-> FALSE]
  /\ pc' = Started
  /\ cont' = [a \in Actors |-> "ready"]
  /\ tgt' = [a \in Actors |-> NoConn]
  /\ seen' = [c \in Conns |-> NoNick]
  /\ snap' = [a \in Actors |-> NoAcl]
  /\ removals' = [c \in Conns |-> 0] /\ rotating' = 0
  /\ atEpoch' = {} /\ latest' = disk.lists
  /\ UNCHANGED <<disk, connects, ops>>

(***************************************************************************)
(* saveACL: copy the lists under the lock, then replace the file with the  *)
(* copy.  Another goroutine may change the lists, or save, in between.     *)
(***************************************************************************)
saveACLCopy(a) ==
  /\ pc[a] = "save"
  /\ snap' = [snap EXCEPT ![a] = [lists |-> InMemory, tok |-> vaultToken]]
  /\ latest' = InMemory
  /\ Goto(a, "write")
  /\ UNCHANGED <<conn, access, hub, autoApprove, cont, tgt, seen, disk, later, counts>>

saveACLWrite(a) ==
  /\ pc[a] = "write"
  /\ disk' = snap[a]
  /\ snap' = [snap EXCEPT ![a] = NoAcl]
  /\ Goto(a, cont[a])
  /\ tgt' = [tgt EXCEPT ![a] = IF cont[a] = "spawn" THEN tgt[a] ELSE NoConn]
  /\ UNCHANGED <<conn, access, hub, autoApprove, cont, seen, latest, later, counts>>

\* rememberAdmin(key of tgt[a]); the saveACL it ends with is the next step.
rememberAdmin(a) ==
  /\ pc[a] = "remember"
  /\ admins' = admins \cup {cl[tgt[a]].key}
  /\ Goto(a, "save")
  /\ UNCHANGED <<conn, whitelist, blacklist, hub, autoApprove, cont, tgt, seen,
                 saving, later, counts>>

(***************************************************************************)
(* BumpEpoch: draw a vault token if there is none (without saving it) and  *)
(* send EPOCH to every WHITELISTED client.                                 *)
(***************************************************************************)
RedrawnToken == vaultToken + 1   \* mutant: a new token every time

DrawToken == IF vaultToken = 0 THEN boots ELSE vaultToken

BumpEpoch ==
  /\ vaultToken' = DrawToken
  /\ atEpoch' = Members

\* BumpEpoch as the last step of a join, of removeClient, or of a kick.
Epoch(a) ==
  /\ pc[a] = "epoch"
  /\ BumpEpoch
  /\ Goto(a, IF cont[a] = "idle" THEN "idle" ELSE "ready")
  /\ cont' = [cont EXCEPT ![a] = "ready"]
  /\ UNCHANGED <<conn, access, autoApprove, tgt, seen, saving, later, counts>>

(***************************************************************************)
(* handleConnection.  The hello has passed its own checks (version, proof  *)
(* of work, signature) when Accept takes it.                               *)
(***************************************************************************)
Accept(c, h) ==
  /\ connects < MaxConnects
  /\ pc[c] \in {"idle", "failed"} /\ c \notin clients /\ removals[c] = 0
  /\ \A a \in Actors : tgt[a] # c
  /\ cl' = [cl EXCEPT ![c] = NewClient(h)]
  /\ up' = [up EXCEPT ![c] = TRUE]
  /\ connects' = connects + 1
  /\ Goto(c, "check")
  /\ UNCHANGED <<clients, access, hub, autoApprove, cont, tgt, seen, saving, later,
                 boots, ops>>

Refused(c) == \/ \E k \in Keys \ {cl[c].key} : whitelist[k] = cl[c].nick
              \/ cl[c].id \in blacklist

\* The hub closes the connection before the Client is registered.
Reject(c) ==
  /\ Goto(c, "idle") /\ up' = [up EXCEPT ![c] = FALSE]
  /\ UNCHANGED seen

\* Read the access lists: refuse, or remember the nickname the key owns.
Check(c) ==
  /\ pc[c] = "check"
  /\ \/ Refused(c) /\ Reject(c)
     \/ /\ ~Refused(c)
        /\ seen' = [seen EXCEPT ![c] = whitelist[cl[c].key]]
        /\ Goto(c, "nick")
        /\ UNCHANGED up
  /\ UNCHANGED <<clients, cl, access, hub, autoApprove, cont, tgt, saving, later, counts>>

NickTaken(nick) == \E d \in clients : cl[d].nick = nick

NickCheck(c) ==
  /\ pc[c] = "nick"
  /\ \/ NickTaken(cl[c].nick) /\ Reject(c)
     \/ ~NickTaken(cl[c].nick) /\ Goto(c, "add") /\ UNCHANGED <<seen, up>>
  /\ UNCHANGED <<clients, cl, access, hub, autoApprove, cont, tgt, saving, later, counts>>

Returning(c) == seen[c] # NoNick

Whitelisted(r, nick, admin) == [key |-> r.key, nick |-> nick, id |-> r.id,
                                state |-> "WHITELISTED", admin |-> admin]

\* A returning key gets the nickname and the rank the lists gave it.
Add(c) ==
  /\ pc[c] = "add"
  /\ cl' = IF Returning(c)
           THEN [cl EXCEPT ![c] = Whitelisted(cl[c], seen[c], isStoredAdmin(cl[c].key))]
           ELSE cl
  /\ clients' = clients \cup {c}
  /\ Goto(c, "ok")
  /\ UNCHANGED <<up, access, hub, autoApprove, cont, tgt, seen, saving, later, counts>>

\* SendHandshakeOK.  When it fails the handler returns and closes the
\* connection, and the Client stays registered.
SendHandshakeOK(c) ==
  /\ pc[c] = "ok"
  /\ \/ Goto(c, "failed") /\ up' = [up EXCEPT ![c] = FALSE]
     \/ /\ up[c]
        /\ Goto(c, IF Returning(c) \/ autoApprove THEN "welcome" ELSE "ready")
        /\ UNCHANGED up
  /\ UNCHANGED <<clients, cl, access, hub, autoApprove, cont, tgt, seen, saving, later,
                 counts>>

SeenNick(c) == seen[c]   \* mutant: the branch for a new key forgotten

WelcomeNick(c) == IF Returning(c) THEN seen[c] ELSE cl[c].nick

Welcome(c) ==
  /\ pc[c] = "welcome"
  /\ cl' = [cl EXCEPT ![c] = Whitelisted(cl[c], WelcomeNick(c), cl[c].admin)]
  /\ Goto(c, "grant")
  /\ UNCHANGED <<clients, up, access, hub, autoApprove, cont, tgt, seen, saving, later,
                 counts>>

\* The first member, and a stored admin, become admin and are remembered as
\* such; every other key is put on the whitelist.
GetsAdmin(c) == isStoredAdmin(cl[c].key) \/ WhitelistedCount = 1

Grant(c) ==
  /\ pc[c] = "grant"
  /\ cl' = [cl EXCEPT ![c].admin = @ \/ GetsAdmin(c)]
  /\ Goto(c, IF GetsAdmin(c) THEN "remember" ELSE "list")
  /\ cont' = [cont EXCEPT ![c] = "epoch"]
  /\ tgt' = [tgt EXCEPT ![c] = c]
  /\ UNCHANGED <<clients, up, access, hub, autoApprove, seen, saving, later, counts>>

WhitelistNew(c) ==
  /\ pc[c] = "list"
  /\ whitelist' = [whitelist EXCEPT ![cl[c].key] = cl[c].nick]
  /\ Goto(c, "save")
  /\ UNCHANGED <<conn, blacklist, admins, hub, autoApprove, cont, tgt, seen, saving,
                 later, counts>>

(***************************************************************************)
(* removeClient: out of the table, close the connection; BumpEpoch when    *)
(* the Client was a member.                                                *)
(***************************************************************************)
CloseOnly(d) ==   \* mutant: the Client is closed and not removed
  /\ up' = [up EXCEPT ![d] = FALSE]
  /\ UNCHANGED <<clients, cl>>

Unregister(d) ==
  /\ clients' = clients \ {d}
  /\ up' = [up EXCEPT ![d] = FALSE]
  /\ UNCHANGED cl

IsMember(d) == cl[d].state = "WHITELISTED"

OpenAndReading(c) == pc[c] = "ready" /\ up[c]   \* mutant: a close is not noticed

Reading(c) == pc[c] = "ready"
AfterLeave(c) == IF IsMember(c) THEN "epoch" ELSE "idle"

\* The read pump ends (the peer left, or the hub closed the connection).
Leave(c) ==
  /\ Reading(c)
  /\ Unregister(c)
  /\ Goto(c, AfterLeave(c))
  /\ cont' = [cont EXCEPT ![c] = IF IsMember(c) THEN "idle" ELSE "ready"]
  /\ UNCHANGED <<access, hub, autoApprove, tgt, seen, saving, later, counts>>

\* The heartbeat loop closes a connection that was silent for 90 s; it
\* leaves the Client to the read pump.
Reap(c) ==
  /\ c \in clients /\ up[c] /\ pc[c] = "ready"
  /\ up' = [up EXCEPT ![c] = FALSE]
  /\ UNCHANGED <<clients, cl, access, hub, autoApprove, goroutines, seen, saving, later,
                 counts>>

NoRotation(d) == rotating   \* mutant: no EPOCH after a delayed removal

AfterRemoval(d) == IF IsMember(d) THEN rotating + 1 ELSE rotating

\* The goroutine spawned by a block or by the panel's kick, after 100 ms.
DelayedRemoval(d) ==
  /\ removals[d] > 0
  /\ Unregister(d)
  /\ removals' = [removals EXCEPT ![d] = @ - 1]
  /\ rotating' = AfterRemoval(d)
  /\ UNCHANGED <<access, hub, autoApprove, goroutines, seen, saving, counts>>

DelayedEpoch ==
  /\ rotating > 0
  /\ rotating' = rotating - 1
  /\ BumpEpoch
  /\ UNCHANGED <<conn, access, autoApprove, goroutines, seen, saving, removals, counts>>

(***************************************************************************)
(* Admin commands, typed in the panel or sent by an admin member.  A       *)
(* command names a nickname; when two clients have it, either may be the   *)
(* target.  A member's goroutine takes the next frame after the command.   *)
(***************************************************************************)
MayCommand(a, command) ==
  /\ pc[a] = "ready"
  /\ \/ a = Tui /\ command \in TuiCommands
     \/ a \in Conns /\ up[a] /\ IsMember(a) /\ cl[a].admin
  /\ ops < MaxOps
  /\ ops' = ops + 1

\* ApproveClient: State, then admin rank and EPOCH, then the lists, then the
\* file.
Approve(a, d) ==
  /\ MayCommand(a, "approve") /\ d \in clients
  /\ cl' = [cl EXCEPT ![d].state = "WHITELISTED"]
  /\ tgt' = [tgt EXCEPT ![a] = d]
  /\ cont' = [cont EXCEPT ![a] = "ready"]
  /\ Goto(a, "apvGrant")
  /\ UNCHANGED <<clients, up, access, hub, autoApprove, seen, saving, later,
                 boots, connects>>

ApproveGrant(a) ==
  /\ pc[a] = "apvGrant"
  /\ cl' = [cl EXCEPT ![tgt[a]].admin = @ \/ GetsAdmin(tgt[a])]
  /\ BumpEpoch
  /\ Goto(a, "apvLists")
  /\ UNCHANGED <<clients, up, access, autoApprove, cont, tgt, seen, saving, later, counts>>

ApprovedUnsaved(a) ==   \* mutant: only rememberAdmin saves
  IF cl[tgt[a]].admin THEN "remember" ELSE "ready"

AfterApprove(a) == IF cl[tgt[a]].admin THEN "remember" ELSE "save"

ApproveLists(a) ==
  /\ pc[a] = "apvLists"
  /\ whitelist' = [whitelist EXCEPT ![cl[tgt[a]].key] = cl[tgt[a]].nick]
  /\ blacklist' = blacklist \ {cl[tgt[a]].id}
  /\ Goto(a, AfterApprove(a))
  /\ UNCHANGED <<conn, admins, hub, autoApprove, cont, tgt, seen, saving, later, counts>>

\* BlockClient: the lists, the file, then the delayed removal.
Block(a, d) ==
  /\ MayCommand(a, "block") /\ d \in clients
  /\ blacklist' = blacklist \cup {cl[d].id}
  /\ whitelist' = [whitelist EXCEPT ![cl[d].key] = NoNick]
  /\ admins' = admins \ {cl[d].key}
  /\ tgt' = [tgt EXCEPT ![a] = d]
  /\ cont' = [cont EXCEPT ![a] = "spawn"]
  /\ Goto(a, "save")
  /\ UNCHANGED <<conn, hub, autoApprove, seen, saving, later, boots, connects>>

SpawnRemoval(a) ==
  /\ pc[a] = "spawn"
  /\ removals' = [removals EXCEPT ![tgt[a]] = @ + 1]
  /\ tgt' = [tgt EXCEPT ![a] = NoConn]
  /\ cont' = [cont EXCEPT ![a] = "ready"]
  /\ Goto(a, "ready")
  /\ UNCHANGED <<conn, access, hub, autoApprove, seen, saving, rotating, counts>>

\* A member's /kick removes at once, the panel's after 100 ms.
KickByMember(a, d) ==
  /\ a \in Conns /\ MayCommand(a, "kick") /\ d \in clients
  /\ Unregister(d)
  /\ Goto(a, IF IsMember(d) THEN "epoch" ELSE "ready")
  /\ cont' = [cont EXCEPT ![a] = "ready"]
  /\ UNCHANGED <<access, hub, autoApprove, tgt, seen, saving, later, boots, connects>>

KickByTui(d) ==
  /\ MayCommand(Tui, "kick") /\ d \in clients
  /\ removals' = [removals EXCEPT ![d] = @ + 1]
  /\ UNCHANGED <<conn, access, hub, autoApprove, goroutines, seen, saving, rotating,
                 boots, connects>>

\* A member's /op is remembered, the panel's only sets the flag.
OpByMember(a, d) ==
  /\ a \in Conns /\ MayCommand(a, "op") /\ d \in clients
  /\ cl' = [cl EXCEPT ![d].admin = TRUE]
  /\ tgt' = [tgt EXCEPT ![a] = d]
  /\ cont' = [cont EXCEPT ![a] = "ready"]
  /\ Goto(a, "remember")
  /\ UNCHANGED <<clients, up, access, hub, autoApprove, seen, saving, later,
                 boots, connects>>

OpByTui(d) ==
  /\ MayCommand(Tui, "op") /\ d \in clients
  /\ cl' = [cl EXCEPT ![d].admin = TRUE]
  /\ UNCHANGED <<clients, up, access, hub, autoApprove, goroutines, seen, saving, later,
                 boots, connects>>

(***************************************************************************)
(* startFileServer, as far as membership sees it: RotateVaultToken once    *)
(* the listener is bound, nothing when all ten ports are taken.            *)
(***************************************************************************)
FileServerStarts ==
  /\ pc[Fs] = "fsStart"
  /\ vaultToken' = DrawToken
  /\ IF vaultToken = 0 THEN Save(Fs, "idle") ELSE Goto(Fs, "idle") /\ UNCHANGED cont
  /\ UNCHANGED <<conn, access, autoApprove, tgt, seen, saving, later, atEpoch, counts>>

FileServerFails ==
  /\ pc[Fs] = "fsStart"
  /\ Goto(Fs, "idle")
  /\ UNCHANGED <<conn, access, hub, autoApprove, cont, tgt, seen, saving, later, counts>>

Handshake(c) == \/ Check(c) \/ NickCheck(c) \/ Add(c) \/ SendHandshakeOK(c)
                \/ Welcome(c) \/ Grant(c) \/ WhitelistNew(c)

\* What a goroutine does next without waiting for the network or a person.
Step(a) == \/ saveACLCopy(a) \/ saveACLWrite(a) \/ rememberAdmin(a) \/ Epoch(a)
           \/ ApproveGrant(a) \/ ApproveLists(a) \/ SpawnRemoval(a)

Command == \/ \E a \in Actors, d \in Conns :
                \/ Approve(a, d) \/ Block(a, d) \/ KickByMember(a, d) \/ OpByMember(a, d)
           \/ \E d \in Conns : KickByTui(d) \/ OpByTui(d)

Next ==
  \/ \E c \in Conns, h \in Hellos : Accept(c, h)
  \/ \E c \in Conns : Handshake(c) \/ Leave(c) \/ Reap(c) \/ DelayedRemoval(c)
  \/ \E a \in Actors : Step(a)
  \/ DelayedEpoch
  \/ Command
  \/ FileServerStarts \/ FileServerFails
  \/ Restart

Spec == Init /\ [][Next]_vars

\* The Go scheduler runs every goroutine that can move, a handshake has a
\* 60 s deadline, and a read pump ends once the hub has closed its connection.
Fairness ==
  /\ \A c \in Conns : WF_vars(Handshake(c)) /\ WF_vars(~up[c] /\ Leave(c))
  /\ \A c \in Conns : WF_vars(DelayedRemoval(c))
  /\ \A a \in Actors : WF_vars(Step(a))
  /\ WF_vars(DelayedEpoch)

FairSpec == Spec /\ Fairness

-----------------------------------------------------------------------------
\* c's handler has registered c and has yet to call BumpEpoch for it.
Joining(c) == \/ pc[c] = "ok" /\ Returning(c)
              \/ pc[c] \in {"welcome", "grant", "list"}
              \/ pc[c] \in {"remember", "save", "write", "epoch"} /\ cont[c] = "epoch"
Approving(c) == \E a \in Actors : pc[a] = "apvGrant" /\ tgt[a] = c
RotationDue == rotating > 0 \/ \E a \in Actors : pc[a] = "epoch"

\* A member the last EPOCH missed is still in the handler or in the approval
\* that will send one, or is a client whose handshake answer failed.
EpochReachesMembers ==
  \A c \in Members \ atEpoch : Joining(c) \/ Approving(c) \/ pc[c] = "failed"

\* As long as the last EPOCH had a recipient who is no longer a member, a
\* goroutine is about to send the next one.
EpochFollowsLeavers == atEpoch \subseteq Members \/ RotationDue

\* Sender keys follow the membership (BumpEpoch after every join, approval,
\* leave, kick and block, docs/THREAT_MODEL.md:39).
EpochCoversMembership == EpochReachesMembers /\ EpochFollowsLeavers

\* Every registered client has a goroutine that will unregister it, except the
\* one whose SendHandshakeOK failed (the early return of core.go:443).
RegisteredHasHandler ==
  \A c \in clients : /\ pc[c] \notin {"idle", "check", "nick", "add"}
                     /\ ~(pc[c] = "epoch" /\ cont[c] = "idle")

\* No change of the access lists is left unsaved: when the lists differ from
\* the newest snapshot, a goroutine is still to take another one (every path of
\* ApproveClient, BlockClient, /op and the handshake ends in saveACL).
EveryChangeIsSaved ==
  InMemory # latest => \E a \in Actors : pc[a] \in {"remember", "save"}

\* A hub that starts again has the token its members hold, or draws one because
\* it has none: no file, and no copy a goroutine has still to write, brings back
\* another ("vault token stays valid for existing files", docs/WORKFLOW.md:8).
StoredTokenIsCurrent ==
  /\ disk.tok \in {0, vaultToken}
  /\ \A a \in Actors : pc[a] = "write" => snap[a].tok \in {0, vaultToken}

\* A blocked client is eventually out of the client table, whatever its own
\* handler and other commands do meanwhile.
BlockedLeaves ==
  \A a \in Actors, c \in Conns : pc[a] = "spawn" /\ tgt[a] = c ~> c \notin clients

\* A connection the hub closed does not stay registered.
ClosedLeaves ==
  \A c \in Conns : c \in clients /\ ~up[c] /\ pc[c] # "failed"
                     ~> c \notin clients \/ pc[c] = "failed"

-----------------------------------------------------------------------------
(* What the documents say of the hub and the code does not do. *)

\* No goroutine is between a change and its end.
Settled == /\ \A c \in Conns : pc[c] \in {"idle", "ready", "failed"}
           /\ pc[Tui] = "ready" /\ pc[Fs] = "idle" /\ rotating = 0

\* "First member + /op persist in hub-acl.json across hub restarts"
\* (README.md:18): whoever holds admin rights is among the stored admins.
AdminsAreRemembered == Settled => \A c \in clients : cl[c].admin => cl[c].key \in admins

\* "The first whitelisted member is granted admin" (docs/THREAT_MODEL.md:54):
\* a hub that has members has an admin.
SomeoneIsAdmin == Settled /\ Members # {} => admins # {}

\* "First member + /op" (README.md:18): without an /op only one key, the first
\* member's, becomes an admin.
OnlyFirstMemberIsAdmin == ops = 0 => Cardinality(admins) <= 1

\* "Wait for admin /approve unless returning pinned key" (README.md:54): the
\* key of a member who has joined is pinned.
MembersArePinned == Settled => \A c \in Members : whitelist[cl[c].key] # NoNick

\* "nickname already taken" (core.go:407): no two clients share a nickname.
NicknamesUnique == \A c, d \in clients : cl[c].nick = cl[d].nick => c = d

\* "Hub ACL (whitelist, bans, admins, vault token) lives in hub-acl.json"
\* (docs/THREAT_MODEL.md:67): with no goroutine at work the file has the lists.
ListsAreOnDisk == Settled => disk.lists = InMemory

\* "vault token stays valid for existing files" (docs/WORKFLOW.md:8), and
\* THREAT_MODEL.md:67: the token members were given survives a restart.
TokenIsOnDisk == Settled /\ atEpoch # {} => disk.tok = vaultToken
=============================================================================
