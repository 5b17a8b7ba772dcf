# CONNER: specification and proofs

CONNER is an end-to-end encrypted chat for small groups: a hub that clients reach
over Tor or a LAN, sender-key group chat, a vault for files, and a terminal user
interface on both sides. This directory holds TLA+ models of its core logic, TLC
runs over small instances, and TLAPS proofs for instances of any size. All source
paths are relative to the repository.

Contents: [inventory](#inventory), [modules](#modules), [runs](#runs),
[fairness](#fairness), [proofs](#proofs), [where the code and its documents
disagree](#where-the-code-and-its-documents-disagree), [what is not
modelled](#what-is-not-modelled), [plan](#plan).

To repeat a run: `tlc -config HubSafe.cfg MCHub`. To repeat a proof: `tlapm
HubProofs.tla`. `PROJECT.json` maps every definition to the lines it models.

## Inventory

| Part | State | Operations | Hard about it | What makes it correct |
|---|---|---|---|---|
| Hub membership (`internal/server/core.go`, `manager.go`, `commands.go`) | client table, each client's state and rank, whitelist, bans, admins, vault token, epoch | accept and handshake, `ApproveClient`, `BlockClient`, `/kick`, `/op`, `removeClient`, reaper, `BumpEpoch` | one goroutine per connection plus the operator panel, the file server and delayed removals; most decisions read one lock's state and act under the next | an EPOCH follows every membership change; nobody stays registered unattended; every list change is saved; no restart brings back another vault token |
| Hub access file (`persist.go`) | `hub-acl.json`, its temporary file | `loadACL`, `saveACL`, `rememberAdmin` | copy under lock, write without; one temporary name for all; crashes | saves that do not meet leave a whole snapshot, and a finished one survives |
| Relay (`core.go`) | a bounded `SendChan` per client | `SendMessage`, `BroadcastUserList`, `BroadcastToState` | drops when full; two broadcasts overtake each other | per-client order |
| Ratchet (`internal/crypto/ratchet.go`) | chain key, step, skipped keys | `GetMessageKey` | requests in any order, a window of 100 | each step's own key, at most once, none lost |
| Sender keys (`internal/crypto/sender.go`, `internal/client/core.go`) | own chain, a chain per peer, undecrypted messages | `ResetEpoch`, `AdoptPeer`, `NextSend`, `Recv`, `queuePending`, `flushPending` | keys, epochs and messages in any relative order; the goroutine of `Connect` publishes beside `readPump` | no message twice, no replaced seed in use, a kicked member learns no new seed, the exchange ends |
| File plane (`UploadMux`, `DownloadMux`, `handleFilePut`, `handleFileGet`, HTTP fallback) | vault file, download registry, ledger | upload, offer, get, serve, cleanup, fallback | uploads of one name overlap; cleanup and deadlines at any time | what is reported complete is complete; every download ends |
| Client session (`internal/client/core.go`, `queue.go`, `tui/app.go`) | one `Client` per connection, send and update channels, overflow file | connect, pumps, reconnect, drain, room switch | goroutines of old connections live on; commands of the TUI run concurrently; texts wait for their key | frames at most once, chats in order, the session returns |
| Identity store (`identity_store.go`) | pins, open warnings | `Check`, `Trust`, `HasMismatch` | three goroutines use it in several steps each | an unpinned key blocks sending; warnings are real |
| Hub connections (`internal/server/core.go`, `internal/protocol/protocol.go`) | connection counter, sockets, a write pump and a `SendChan` per client | accept, the frames of the handshake, pump, `removeClient`, heartbeat | a frame is two writes without a lock; clients vanish silently; the counter is read, then incremented | frame boundaries hold and nothing overtakes; the limit holds; slots come back |
| Outbox (`internal/filesync/watch.go`, `StartAutoSync`) | watcher, ledger by name and time, active downloads | watch or poll, scan, emit, `offerFile` | changes between watch, scan and upload; a ledger shared with downloads and written before the upload | the last version is offered; one change is taken once |
| Own identity key (`loadIdentityKeys`, `internal/crypto/wrap.go`) | a bare and a wrapped key file | load, wrap, generate, burn | crashes between file operations, ignored write errors, passphrases that differ | one user, one key; no bare key beside a passphrase |
| Without protocol state | rate limit, message memory, invites, protobuf, primitives, Tor, configuration, drawing, clipboard, monitoring; history store and P2P service, which nothing starts | | | |

How the parts interact. A client's read pump receives from the relay and calls the
sender keys, the identity store and the download registry; its write pump takes
from `SendChan`, asks the identity store, and encrypts with the sender keys. The
TUI feeds `SendChan` and takes from `UpdateChan`. Membership changes at the hub
reach clients as `USER_LIST` and `EPOCH`, which make every client publish a seed
(`SENDER_KEY`); these are relayed like chats. Files travel over the same session
and, as a fallback, over HTTP with the vault token that `EPOCH` carries.

The hazards of each part, at the line where they bite, are in `PROJECT.json`.

## Modules

| Module | Models | Notes |
|---|---|---|
| `Hub` | membership, commands, access lists, token, epoch | one action per stretch of a goroutine between two critical sections; `pc`, `cont` and `tgt` are each goroutine's place, what it goes on with after a save, and the client it is about |
| `AclStore` | `saveACL`/`loadACL` at the level of file operations | inodes, so that two savers that open one temporary name share its content; a file is torn from its truncation until its write is through; each file operation may fail; `crowd` and `spoilt` (which saves have met) are history |
| `AclFile` | what the file promises | abstract; a file replaced in one step, which only saves that meet can spoil; `AclStore` implements it |
| `Ratchet` | `GetMessageKey` | a key is the number of derivations it took |
| `KeyWindow` | what a receiving ratchet promises | abstract; `Ratchet` implements it |
| `GroupSession` | the clients' sender keys and the relay between them | a ciphertext remembers seed and step, the receiver sees the step; `publishes` and `exported` are the place of `Connect`'s goroutine; `known`, `fresh`, `used` and `lost` (of whom, since they last queued the seed in force, a seed was dropped or an older one queued) are history |
| `Vault` | the file plane for one file name | a chunk is its upload and its index; on disk it is a header and a body, written one after the other |
| `Session` | one client across connections | `Client`s are numbered; the older ones' goroutines remain; the empty `m.state` is called `ONLINE`; `pending` and `flushing` are `pendingDecrypt` and the part of it `flushPending` is at; a chat whose text comes late is a second row, a "text" |
| `Pins` | the identity store and its callers | read pump and write pump in two steps each; its names start with `Pins`, and those of `Ratchet` with `Ratchet`, so that `KeyProofs` can extend both together with `Keyring` |
| `HubConns` | accept loop, handshake, write pumps and heartbeat as reads and writes on connections | a frame is a length and a payload on the wire; `accepted` is history |
| `Outbox` | the watcher of a room's outbox, the ledger, the uploads it starts | a version is the number of the write that made it; `takes`, `offered`, `failed` and `disturbed` are history |
| `Keyring` | the client's own key on disk | a file that is cut short is as good as none; `announced` is history |
| `MC*` | instances for TLC | constants and symmetry only |
| `*Proofs` | theorems | see below |

Correspondence, by example. `Hub!Check`, `NickCheck`, `Add`, `SendHandshakeOK`,
`Welcome`, `Grant`, `WhitelistNew` and `Epoch` are `handleConnection` from the
hello to the read loop, cut where the code releases a lock or does I/O;
`Leave` is the end of the read loop with `removeClient`; `SpawnRemoval` and
`DelayedRemoval` are `BlockClient`'s goroutine. `GroupSession!ReadPump` is one
turn of `readPump`, with one disjunct per message type. `Session!Incoming` is one
`Update` of the TUI. Every abstraction is stated at the top of its module: the
main ones are that cryptography is perfect, that messages are whole, that a write
to a live connection arrives, and that texts are left out.

Mutants. Each module has a few operators marked `mutant`: plausible slips in
the code (a forgotten delete, a dropped guard). They are used by no definition;
`PROJECT.json` says which definition each of them replaces and which property
then fails, which shows that the property depends on the code.

## Runs

Passing runs:

| Run | Asks | Bounds, and why they are enough |
|---|---|---|
| `HubSafe` | does EPOCH follow every change, is every registered client attended, is every list change saved | two people, two connections, with and without auto-approve, one command of any kind by the operator or an admin: two handlers race in every stage, and a command meets either. Longer histories are the proofs' part: all of these properties are proved |
| `HubLive` | do blocked and closed clients leave, does a restarted hub have its members' token or none | one connection that comes twice, two commands (approve and block meet on one target), a restart; the file server's save and a handler's overtake each other |
| `AclSaves` | is the file atomic and durable while saves do not meet, and again after the next that meets no other | three savers, four versions, two crashes: two saves meet, a third mends the file or meets them too; four inodes are the file, the temporary one, and those still open after they were renamed |
| `Ratchet` | does the ratchet implement `KeyWindow` | window 2 and steps to 7: every mix of skip, late use, too old and too far, several windows long |
| `GroupLive` | no message twice, the kicked learns no new seed, no stale seed at rest but for the exceptions `NoStaleChain` names, and the exchange comes to rest | two members of whom one types one message and has just connected, so that `Connect`'s goroutine reads its seed, before or after an EPOCH, and sends it (`Publishes = 1`; the second publish of the code repeats the first), one membership change of any kind; with `Window` and `PendingMax` 1 both limits are reached, and the queues of three frames at the hub and at the client overflow |
| `VaultFiles` | are chunks in order, is a single version complete, does every download end | two uploads by two clients, both through the session (so that their writes mix) or one by HTTP; a removal, a deadline for each download, a hub queue of two frames and a download channel of one, which both overflow |
| `SessionRounds` | frames at most once, one session, chats in order, the session comes back | three connections (the last stays up, else nothing need ever settle), a send queue of one frame so that the overflow file is used, two peers whose keys may be missing, any three inputs: two chats that wait and the key that flushes them, or one that waits, one that does not, and the key. With `PendingMax = 1` two may wait, and a third drops the oldest |
| `HubConns` | does the limit hold, does the client read what `SendChan` took, in order, do slots come back, do pumps end | two connections at a limit that serves one, so that one waits for the other's slot; a channel of one message and two messages, so that one waits or is dropped |
| `Outbox` | is the last version offered, is a change taken once | two files, of which one may fail to be read, two changes, one download; watched and polled; neither is a folder or too large, which `offerFile` refuses at once. Two changes are a file that comes before, between or after watch and scan, and one that changes while it is uploaded. The clock moves between two writes (`CoarseClock = FALSE`) and no older file replaces a newer one (`OldTimes = FALSE`) |
| `Keyring` | does a user keep one identity, is it wrapped at rest | two passphrases, four keys, any number of processes and crashes; the user does not change a passphrase once given (`Careful`) and the disk takes writes (`WritesFail = FALSE`) |
| `PinsSafe` | does an unpinned key block, are warnings real | two peers, two keys, five list entries, a failing save, a restart |

Deadlock checking is off where the bounds let a model run out of inputs and in
programs that may wait for a user for ever; in `Ratchet` it is on.

The capacities of channels (256, 200, 100, 64) and the window (100) are constants
of the modules; runs use small ones so that "full" happens. `SessionRounds` takes
an update channel that has room for the notice `ComesBack` depends on.

What the flags exclude is what the code does not protect against, and TLC shows
each of it: with `CoarseClock` or `OldTimes` a change is never offered, because
the ledger compares times with "not after"; with `WritesFail` the bare key is
removed after a wrapped copy that was never written; without `Careful`, a start
without the passphrase makes a second identity, and one with a wrong passphrase
overwrites the first.

## Fairness

Only weak fairness of what runs by itself is assumed:

* `Hub`: each handler's next step (the handshake has a 60 s deadline, so it moves
  on), the end of a read loop whose connection was closed, the delayed removal and
  its rotation. Nothing forces commands, arrivals or departures.
* `GroupSession`: the hub's broadcasts and relays, both pumps of each client and
  `Connect`'s goroutine, which only sleeps for 150 ms; nobody is forced to type.
* `Vault`: both pumps, the serving of a request, the download loop and its
  deadline (`DownloadMux` looks at the clock between two frames; the channel
  receive has a timer).
* `HubConns`: the accept loop, each handler (its deadline makes the handshake move
  on), reads and writes on a closed connection, which return, and the heartbeat.
  A client need not read and need not go away, so a write to an open connection
  need not finish.
* `Outbox`: the watcher's goroutine and the uploads; nobody is forced to write a
  file or to finish a download.
* `Session`: the pumps, the loop of `flushPending`, waiters, the TUI's `Update` and the reconnect command,
  which repeats every 5 s (`docs/WORKFLOW.md:10`).

## Proofs

Proved for every value of the constants, from the named assumptions in the
modules (markers such as `NoKey` are not keys; `HubConns` counts its connections
and `Vault` numbers its uploads, so these two sets are finite). Every invariant and
refinement of the passing runs is proved, two of `Keyring` under the assumptions that
its run makes too.

* **`HubProofs`**: `TypeOK`, `EpochCoversMembership`, `RegisteredHasHandler`,
  `EveryChangeIsSaved` and `StoredTokenIsCurrent`.
  The inductive invariant `HubInv` adds three facts to them: a goroutine about to
  use its target has one (`TargetOK`); a connection's goroutine that is saving
  goes on to join or read, never to end (`ContinuesOK`, without which a save could
  end with a registered client nobody serves); and a join always continues to
  `BumpEpoch`, while a client not yet registered is no member (`JoinOK`, without
  which a member could be missed by the last epoch with nobody about to send the
  next). For the token, `TokenOK` adds that whatever is on disk or about to be written
  was copied from memory, which changes its token only from none. Each lemma has one
  step per action.
* **`KeyProofs`**, the keys of messages (`Ratchet`): `RatchetTypeOK`, `RightKey`,
  `NoKeyLost` and the refinement `ImplementsKeyWindow`. The strengthening is
  `KeysInStep`: the chain key is the current step's, and each stored key its own
  step's. Initial states map to initial states and each step to `Hand` or a stutter.
* **`KeyProofs`**, the peers' keys (`Pins`): `UntrustedIsBlocked` and
  `MismatchIsReal`. The first is not inductive, since it does not say *whose* warning
  blocks; `Blocked` says that an unpinned DM key has its own peer's warning or is
  about to be checked, that the entry to be checked is the one in use, and that a
  warning is about the key in use, so that `/trust` pins that one.
* **`KeyProofs`**, one's own key (`Keyring`): `TypeOK` for every user and every
  disk (`KeysOK`: whatever a file or the process holds was generated, and where
  `loadIdentityKeys` uses a key it has one); `OneIdentity` and `WrappedAtRest`, for
  any number of starts and crashes, from the two assumptions of the run
  (`Careful = TRUE`, `WritesFail = FALSE`), which are hypotheses of the theorems.
  `OneIdentity` says nothing of the files; `AnnouncedLoads` says that what the files
  hold gives every announced key again, and `PlaceOK` what each point inside
  `loadIdentityKeys` knows of them, so that a crash there loses nothing.
* **`HubConnsProofs`**: `TypeOK`, `HandlersBounded` and `ReceivesInOrder`, for any
  limit and any number of connections. `ConnsInv` says that the counter is exactly
  the number of handlers that run, and `GateOK` that the connection the accept loop
  has let through and not yet counted found room: since then the counter has only
  fallen, for one goroutine adds to it and the handlers subtract. For the order of
  frames, `FlowInv` says what is on a connection's wire at each place of its handler
  and its pump: nobody has started a second frame while a first is half written, and
  wire and channel together hold what was accepted (`ChanOK`, `LengthOK`, `AnswerOK`).
* **`AclProofs`**: `TypeOK`, `SavedIsDurable` and the refinement `ImplementsAclFile`,
  for any number of savers and crashes and file operations that fail. Nothing keeps two
  saves apart, and `AclTorn` shows what they do to each other; so the statements say
  what holds all the same: before two saves have met, and after the next save that
  meets no other, whatever the earlier ones left behind. `AclInv` says that saves that
  run at the same time are all in the crowd and the file then counts as spoilt
  (`CrowdOK`), that a save that has met no other is the newest, that the temporary file
  is its own and holds what it has written so far (`AloneOK`), and that a file that is
  not spoilt is whole and not older than any save that has ended (`FileOK`).
* **`SessionProofs`**: `TypeOK`, `OneSession`, `ShownInOrder` and `SentOnce`, for any
  number of connections, inputs and notices and any channel sizes.
  - `TokenInv`, for `OneSession`: the user's place in the reconnect loop is a token.
    The notice that starts a reconnect, the running reconnect command and the dialled
    `Client` its answer brings are never there together, and an open connection is
    the TUI's or the token's.
  - `OrderInv`, for `ShownInOrder`: as long as no late notice has come, one
    `waitForMsg` is waiting or its message is being handled (`OneWaiter`), only the
    TUI's `Client`, or the one it is about to get, holds messages (`Backlog`), rows
    further along the way precede those behind them (`Rising`), and what waits for a
    key is newer than every late text of that sender which is already on its way
    (`Waiting`), so that `flushPending` brings each once and in order.
  - `OnceInv`, for `SentOnce`: every frame is numbered when it is typed, and over all
    the places it may be (queues, disk, a flush under way, the wire) it is in one.
* **`GroupProofs`**: `TypeOK`, `KickedLearnsNoSeed`, `ShownOnce` and `NoStaleChain`,
  for any group, any window and queue sizes (so any losses) and any number of
  membership changes.
  - `SeedInv`, for `KickedLearnsNoSeed`: the property speaks of what the kicked
    member was sent; `SeedInv` speaks of what may still reach it (`MayReach`): no
    frame on any queue, broadcast or relay that leads to it is a seed made after the
    kick, or an EPOCH of after the kick, with which it would make one itself. A frame
    that was under way stays harmless because a new seed is always later than all
    before (`KeyMade`).
  - `FlushedDoes`, for the rest: what the loop of `flushPending` makes of a queue of
    any length. Each of its facts is an induction over the frames, done by looking
    at the first frame at which it would fail (`LeastOf`); `Tried` is the loop's
    invariant, and `Part` says that what is read and what is left are parts of the
    queue in their order.
  - `OnceInv`, for `ShownOnce`: `shown` alone does not say why a message is not shown
    again. A member's messages leave it with rising numbers (`SentInOrder`), those
    that have reached another member have smaller numbers than any still on the way
    to it (`Passed`), and each is in one place there: on its queue, pending or shown
    (`Apart`).
  - `FollowInv`, for `NoStaleChain`, which speaks of the moment when everything has
    arrived: before that, behind every older key of a member that is on the way to
    another, and behind every older seed the other holds, the latest seed is on its
    way, unless the member is in `lost` (`Followed`). What `Connect`'s
    goroutine has read is a seed its member has made (`ExportInv`); when that one is not
    in force any more, sending it puts the member in `lost` until it queues its current
    seed again.
* **`OutboxProofs`**: `TypeOK` and `TakenOnce`, for both ways of watching, coarse or
  fine clocks and moved files. `TakenOnce` is not inductive: `LedgerOK` adds that the
  ledger is not older than anything taken, and that between emit's check and its mark
  the file found stays newer than the ledger, because only downloads write the ledger
  meanwhile and only for names they disturb (`FetchesOK`); `TimesOK` keeps 0, the
  ledger's mark for none, from being a modification time.
* **`VaultProofs`**: `TypeOK`, `InOrder` and `SuccessIsComplete`, for any number of
  uploads by any clients, any file and queue sizes and any number of removals.
  - `OrderInv`, for `InOrder`: while no download has failed they do not overlap
    (`Alone`), and when one ends none of its frames is left (`Quiet`), so that all
    frames on the connection and in the channel belong to one stream. `Linked` joins
    what was written, the channel, the connection and the place of `handleFileGet` by
    marks between the frames, which bound the indices and, as long as no frame was
    dropped, count them.
  - `SoleInv`, for `SuccessIsComplete`: a removal during the upload leaves a vault
    file with the chunks from some `k` on (`InVault`), which is offered as if it were
    whole. What the proof shows is that no download reports it: the hub numbers the
    chunks it reads from 0 and the index is authenticated, so that none decrypts
    unless `k` is 0, and FIN tells `Size - k` (`Carries`, `Delivered`).

Model-checked only: everything about liveness (`BlockedLeaves`, `ClosedLeaves`,
`EventuallySettles`, `DownloadsEnd`, `ComesBack`, `SlotsComeBack`, `BusyPumpEnds`,
`LastVersionOffered`), since fairness and `ENABLED` are out of the prover's reach.

Properties whose exceptions are not obvious:

* `InOrder`: a chunk dropped at a full queue leaves a gap that `DecryptChunk` does not
  notice, since each frame brings its own index. It says that indices rise, and
  that there is no gap while the queues have taken every frame; the run's queues
  overflow, and with `Uploads = {1}`, `Legacies = {{}}`, `Size = 4`, `SendCap = 3` the
  uploader's does too.
* `NoStaleChain`: a seed dropped at a full queue is not sent again, and whoever missed
  it keeps the replaced one; and a seed that `Connect`'s goroutine read before an EPOCH
  may be queued behind the one `readPump` makes for it, and is then the one everybody
  adopts. `lost` holds the members to whom this has happened, until they queue the
  seed in force again. Without the exception the statement is `SeedsAreReplaced`.
* `ShownInOrder`: a chat without its sender's key is shown with a note at once, and
  again with its text when the key comes, after chats that were sent later.

## Where the code and its documents disagree

The run `AclTorn` states what a document says, and TLC shows a behaviour of the
code that is otherwise: two savers share one temporary file, and a torn one is
published. `PROJECT.json` quotes the lines.

The modules state further sentences of the documents, the comments and the program's
own messages that do not hold, each quoted at its definition. TLC refutes each of
them when it takes the place of the properties in the configuration named here.

| Statement | Configuration | What happens |
|---|---|---|
| `Hub!SomeoneIsAdmin` | `HubSafe` | two people join at once, both count two members, nobody is admin |
| `Hub!OnlyFirstMemberIsAdmin` | `HubSafe` | whoever joins while nobody else is there is an admin for good |
| `Hub!AdminsAreRemembered` | `HubSafe` | the panel's `/op` is not stored |
| `Hub!MembersArePinned` | `HubSafe` | the member an auto-approving hub makes admin is never pinned |
| `Hub!NicknamesUnique` | `HubSafe` | two handshakes with one nickname pass the check together |
| `Hub!ListsAreOnDisk` | `HubSafe` | of two parallel saves, the older copy is written last |
| `Hub!TokenIsOnDisk` | `HubSafe` | a vault token drawn by `BumpEpoch` is given out and not saved |
| `GroupSession!EveryoneHasKeys` | `GroupLive` | a seed that arrives before one's own EPOCH is forgotten and not sent again |
| `GroupSession!NoMessageLost` | `GroupLive` | a message that meets another seed is dropped, not queued |
| `GroupSession!UsedKeysAreGone` | `GroupLive` | a seed announced again makes used keys derivable |
| `GroupSession!SeedsAreReplaced` | `GroupLive` | `Connect`'s goroutine reads the seed, an EPOCH replaces it, the old one is queued last |
| `GroupSession!NextIsReadable` | `GroupLive` | the same reset leaves a sender beyond the window out of reach |
| `Vault!NotMixed` | `VaultFiles` | one downloaded file has chunks of two uploads |
| `Vault!UploadedIsInVault` | `VaultFiles`, `Uploads = {1}`, `Legacies = {{}}`, `Owner <- AllByAlice`, `Size = 3`, `SendCap = 2` | an upload that overflowed to disk is announced as complete |
| `Vault!OneDownloadPerFile` | `VaultFiles`, `Uploads = {1, 2, 3}`, `Legacies = {{}}`, `Owner <- AllByAlice`, `Size = 1` | two downloads of one file run at once |
| `Vault!FallbackReads` | `VaultFiles` | the HTTP fallback cannot read what the session stored |
| `HubConns!PumpsEnd` | `HubConns` | a removed client's pump with an empty `SendChan` waits for ever |
| `HubConns!AtMostMaxRaw` | `HubConns` | one more connection than the limit is served |
| `Outbox!DownloadedToo` | `Outbox` | a file dropped in the outbox is not offered because one of its name was downloaded |
| `Outbox!FailedIsRetried` | `Outbox` | a version whose upload failed is in the ledger and not tried again |
| `Session!ClosedIsNoticed` | `SessionRounds`, `UpdateCap = 1` | the notice of a closed connection is dropped when the channel is full |
| `Session!TypedIsKept` | `SessionRounds` | a message written to a dead connection is gone |
| `Session!OverflowIsKept` | `SessionRounds`, `MaxInputs = 4` | a flush that meets a full queue forgets what follows |
| `Session!RoomOnWire` | `SessionRounds` | a message leaves with the room that is current later |
| `Session!OutboxWatched` | `SessionRounds` | nobody watches the outbox after a reconnect |
| `Pins!DmForPinned` | `PinsSafe` | a DM is encrypted for a changed key before the warning |

## What is not modelled

* Time, except that deadlines and tickers may fire at any moment.
* The rate limit: `allowMessage` is a counter private to one client's read loop,
  which only decides whether a chat is relayed.
* Message memory (`memory.go`): a capped list behind one mutex, which only the
  operator's screen reads. `internal/store/history.go` and
  `internal/client/p2p.go`: nothing in the program opens or starts them.
* Acks, typing notices and reactions, which are relayed and change no state.
* In `Vault`, several names (and so the row the operator's delete hits), and
  chunks of different lengths; opening a vault file and writing the first header
  are one step, and so are `os.Create` and `io.Copy` of an HTTP upload.
* In `Outbox`, an upload reads its file in one step, and a restart of the watcher
  by a reconnect, which `Session` shows not to happen.
* In `Session`, the keys, pongs and heartbeats that also pass through `SendChan`; and
  the TUI takes any System message with the text "Connection closed" for the notice.
  In `GroupSession`, a seed published by `Connect`'s goroutine of an older `Client`.
* In `Keyring`, a `/burn` while a reconnect is loading the key.
* In `Vault`, `InOrder` is stated until a download fails, because late frames of
  a failed download reach the next one of the same name.
* In `Session`, `ShownInOrder` is stated until a background transfer of an old
  `Client` has sent a notice: such a notice starts a second `waitForMsg`.
* Codecs (invites, frames, protobuf), cryptographic primitives, Tor, the drawing
  of screens, clipboard, monitoring, paths and configuration: no protocol state.

## Plan

Done: `Hub`, `AclFile`, `AclStore`, `KeyWindow`, `Ratchet`, `GroupSession`,
`Vault` with chunks in two writes and queues that overflow, `Session`, `Pins`,
`HubConns`, `Outbox`, `Keyring`, and the proofs of all their safety properties.

Next, in this order:

1. Composition: `Hub` with `GroupSession`, so that EPOCH and USER_LIST come from
   the hub's own goroutines, in their interleavings, and not from an event list.
2. `Vault` with several names.
