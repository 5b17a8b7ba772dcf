------------------------------- MODULE Vault -------------------------------
(***************************************************************************)
(* The file plane for one file name: uploads through the chat session      *)
(* (FILE_PUT), the hub's vault file, and the downloads that file offers    *)
(* start at a receiving client (FILE_GET, FILE_DATA), with the localhost   *)
(* HTTP vault as their fallback (internal/client/core.go,                  *)
(* internal/server/core.go, internal/crypto/chunk.go and stream.go).       *)
(*                                                                         *)
(* An upload is one run of offerFile over one version of the file.  A      *)
(* chunk is <<its upload, the index sealed into it>>; DecryptChunk accepts *)
(* it at that index only.  Every version has Size chunks and all chunks    *)
(* have the same length on disk.  All clients hold the hub's vault token   *)
(* and the offers are readable (module GroupSession has the case where     *)
(* they are not).                                                          *)
(*                                                                         *)
(* On disk a chunk is a header (its length) and a body, two writes.  Bytes *)
(* that do not lie where a reader expects them decrypt for nobody, so one  *)
(* Garbage chunk stands for all that follows a misread header.  Opening a  *)
(* file and writing the first header is one step.                          *)
(***************************************************************************)
EXTENDS Naturals, Sequences, FiniteSets

CONSTANTS
  Uploads,       \* runs of offerFile, numbered
  Legacies,      \* which of them may be an older client's, through HTTP /upload
  Clients,       \* uploading clients
  Owner,         \* the client of each upload
  Size,          \* chunks per version
  SendCap,       \* capacity of an uploader's SendChan: 256 in the code
  DownCap,       \* capacity of Client.SendChan at the hub: 100 in the code
  GetCap,        \* capacity of a download's channel: 64 in the code
  MaxCleans      \* bound: how often the vault file is removed

ASSUME VaultAssumption ==
  /\ IsFiniteSet(Uploads) /\ Uploads # {} /\ Uploads = 1..Cardinality(Uploads)
  /\ Legacies \subseteq SUBSET Uploads /\ Owner \in [Uploads -> Clients]
  /\ Size \in Nat \ {0}
  /\ SendCap \in Nat /\ DownCap \in Nat /\ GetCap \in Nat
  /\ MaxCleans \in Nat

VARIABLES
  legacy,       \* the uploads through HTTP
  next,         \* per upload: the chunk it sends next, then fin, offer, done
  sendq,        \* per uploader: SendChan
  parked,       \* per uploader: the frames EnqueueOrSend put in the DiskQueue
  vault,        \* the items of the vault file; empty when there is none
  putting,      \* per uploader: the chunk whose body the hub has yet to write
  gets,         \* FILE_GET frames on their way to the hub
  serve,        \* the handleFileGet under way
  down,         \* frames on their way to the receiver
  lost,         \* history: whether a frame was dropped because a queue was full
  downloading,  \* activeDownloads[name]
  seen,         \* whether syncLedger has the name
  fileGets,     \* the download registered in fileGets[name], 0: none
  phase,        \* per download: where it is
  chan,         \* per download: its channel
  out,          \* per download: the chunks written to the inbox file
  cleans        \* files removed so far; it also tells one vault file from the next

uploading == <<legacy, next, sendq, parked>>
stored == <<vault, putting>>
relayed == <<down, lost>>
downloads == <<downloading, seen, fileGets, phase, chan, out>>
vars == <<uploading, stored, gets, serve, relayed, downloads, cleans>>

Jobs == Uploads                 \* each upload makes one offer
Chunk == Uploads \X (0..(Size - 1))
Fin == Size
Offer == Size + 1
Done == Size + 2
Garbage == <<0, Done>>
Frames == [kind : {"OFFER", "DATA", "FIN"}, idx : Nat, chunk : Chunk \cup {Garbage}]
NoChunk == <<1, 0>>
Header == [part |-> "header", chunk |-> NoChunk]
EndMarker == [part |-> "end", chunk |-> NoChunk]
Junk == [part |-> "junk", chunk |-> NoChunk]
Body(chunk) == [part |-> "body", chunk |-> chunk]
Items == [part : {"header", "body", "end", "junk"}, chunk : Chunk]

\* A FILE_PUT between its two writes: the body of which chunk, in which file.
Put == [on : BOOLEAN, chunk : Chunk, file : Nat]
NotPutting == [on |-> FALSE, chunk |-> NoChunk, file |-> 0]

\* The types of the state.
TypeOK ==
  /\ legacy \subseteq Uploads /\ next \in [Uploads -> 0..Done]
  /\ sendq \in [Clients -> Seq(Uploads \X (0..Offer))]
  /\ parked \in [Clients -> Seq(Uploads \X (0..Offer))]
  /\ vault \in Seq(Items) /\ gets \in Nat
  /\ putting \in [Clients -> Put]
  /\ serve \in [on : BOOLEAN, pos : Nat, file : Nat, removed : Seq(Items)]
  /\ down \in Seq(Frames) /\ lost \in BOOLEAN
  /\ downloading \in BOOLEAN /\ seen \in BOOLEAN
  /\ fileGets \in Jobs \cup {0}
  /\ phase \in [Jobs -> {"none", "start", "mux", "http", "ending", "leaving",
                         "done", "fellBack"}]
  /\ chan \in [Jobs -> Seq(Frames)]
  /\ out \in [Jobs -> Seq(Chunk)]
  /\ cleans \in Nat

NotServing == [on |-> FALSE, pos |-> 0, file |-> 0, removed |-> <<>>]

Init ==
  /\ legacy \in Legacies /\ next = [u \in Uploads |-> 0]
  /\ sendq = [c \in Clients |-> <<>>] /\ parked = [c \in Clients |-> <<>>]
  /\ vault = <<>> /\ putting = [c \in Clients |-> NotPutting] /\ gets = 0
  /\ serve = NotServing /\ down = <<>> /\ lost = FALSE
  /\ downloading = FALSE /\ seen = FALSE /\ fileGets = 0
  /\ phase = [j \in Jobs |-> "none"]
  /\ chan = [j \in Jobs |-> <<>>] /\ out = [j \in Jobs |-> <<>>]
  /\ cleans = 0

(***************************************************************************)
(* The uploading client: offerFile and UploadMux.                          *)
(***************************************************************************)
\* EnqueueOrSend: SendChan, or the disk when it is full.
EnqueueOrSend(c, frame) ==
  IF Len(sendq[c]) < SendCap
  THEN sendq' = [sendq EXCEPT ![c] = Append(@, frame)] /\ UNCHANGED parked
  ELSE parked' = [parked EXCEPT ![c] = Append(@, frame)] /\ UNCHANGED sendq

\* One turn of the loop, or the closing frame (index -1) after it.
UploadMux(u) ==
  /\ u \notin legacy /\ next[u] <= Fin
  /\ EnqueueOrSend(Owner[u], <<u, next[u]>>)
  /\ next' = [next EXCEPT ![u] = @ + 1]
  /\ UNCHANGED <<legacy, stored, gets, serve, relayed, downloads, cleans>>

\* offerFile reports "Uploaded to Vault" and offers; this send waits for room.
OfferFile(u) ==
  /\ next[u] = Offer /\ Len(sendq[Owner[u]]) < SendCap
  /\ sendq' = [sendq EXCEPT ![Owner[u]] = Append(@, <<u, Offer>>)]
  /\ next' = [next EXCEPT ![u] = Done]
  /\ UNCHANGED <<legacy, parked, stored, gets, serve, relayed, downloads, cleans>>

\* POST /upload: the stream of EncryptReaderTo, with its end marker, as it is.
Whole(u) == [i \in 1..Size |-> <<u, i - 1>>]
AsFile(chunks) == [n \in 1..(2 * Len(chunks)) |->
                     IF n % 2 = 1 THEN Header ELSE Body(chunks[n \div 2])]

HttpUpload(u) ==
  /\ u \in legacy /\ next[u] = 0
  /\ vault' = Append(AsFile(Whole(u)), EndMarker)
  /\ next' = [next EXCEPT ![u] = Offer]
  /\ UNCHANGED <<legacy, sendq, parked, putting, gets, serve, relayed, downloads, cleans>>

(***************************************************************************)
(* The hub.                                                                *)
(***************************************************************************)
\* SendMessage drops the frame when the receiver's SendChan is full.
SendMessage(frame) ==
  /\ down' = IF Len(down) < DownCap THEN Append(down, frame) ELSE down
  /\ lost' = (lost \/ Len(down) >= DownCap)

\* handleFilePut, first half: chunk 0 truncates, every other one is appended.
PutHeader(c) ==
  /\ sendq[c] # <<>> /\ Head(sendq[c])[2] < Fin /\ ~putting[c].on
  /\ LET chunk == Head(sendq[c]) IN
       /\ vault' = IF chunk[2] = 0 THEN <<Header>> ELSE Append(vault, Header)
       /\ putting' = [putting EXCEPT ![c] = [on |-> TRUE, chunk |-> chunk, file |-> cleans]]
  /\ sendq' = [sendq EXCEPT ![c] = Tail(@)]
  /\ UNCHANGED <<legacy, next, parked, gets, serve, relayed, downloads, cleans>>

\* Second half.  Chunk 0 was not opened for appending: its body goes behind the
\* first header, over what another handler may have put there meanwhile.
After(file) == IF file[2].part = "body" THEN SubSeq(file, 3, Len(file))
               ELSE IF Len(file) > 2 THEN <<Junk>> ELSE <<>>
Written(file, chunk) ==
  IF chunk[2] = 0 /\ Len(file) > 1
  THEN <<file[1], Body(chunk)>> \o After(file)
  ELSE Append(file, Body(chunk))

\* The file may have been removed since; then only who has it open sees this.
PutBody(c) ==
  /\ putting[c].on
  /\ putting' = [putting EXCEPT ![c] = NotPutting]
  /\ LET put == putting[c] IN
       /\ vault' = IF put.file = cleans THEN Written(vault, put.chunk) ELSE vault
       /\ serve' = IF put.file # cleans /\ serve.on /\ serve.file = put.file
                   THEN [serve EXCEPT !.removed = Written(@, put.chunk)] ELSE serve
  /\ UNCHANGED <<uploading, gets, relayed, downloads, cleans>>

\* The closing frame (index -1) is only logged.
PutFin(c) ==
  /\ sendq[c] # <<>> /\ Head(sendq[c])[2] = Fin /\ ~putting[c].on
  /\ sendq' = [sendq EXCEPT ![c] = Tail(@)]
  /\ UNCHANGED <<legacy, next, parked, stored, gets, serve, relayed, downloads, cleans>>

HandleOffer(c) ==
  /\ sendq[c] # <<>> /\ Head(sendq[c])[2] = Offer /\ ~putting[c].on
  /\ SendMessage([kind |-> "OFFER", idx |-> 0, chunk |-> NoChunk])
  /\ sendq' = [sendq EXCEPT ![c] = Tail(@)]
  /\ UNCHANGED <<legacy, next, parked, stored, gets, serve, downloads, cleans>>

\* handleFileGet opens the file; without one the client gets only a notice.
HandleGet ==
  /\ gets > 0 /\ ~serve.on
  /\ gets' = gets - 1
  /\ serve' = IF vault = <<>> THEN serve ELSE [NotServing EXCEPT !.on = TRUE, !.file = cleans]
  /\ UNCHANGED <<uploading, stored, relayed, downloads, cleans>>

\* What the open file holds: other handlers truncate and append to it meanwhile,
\* and it outlives its removal.
Open == IF serve.file # cleans THEN serve.removed ELSE vault
OneShort == serve.pos + 3 > Len(Open)   \* mutant: the last chunk is not read
AtEnd == serve.pos + 2 <= Len(Open) => Open[serve.pos + 1].part # "header"

\* A header and a body; when two handlers mixed theirs, something else.
ReadChunk == IF Open[serve.pos + 2].part = "body" THEN Open[serve.pos + 2].chunk ELSE Garbage

\* The loop of handleFileGet: the hub numbers the chunks by their position.
FromMinusOne == (serve.pos \div 2) - 1   \* mutant: idx starts at the fin mark, -1
Position == serve.pos \div 2

ServeChunk ==
  /\ serve.on /\ ~AtEnd
  /\ SendMessage([kind |-> "DATA", idx |-> Position, chunk |-> ReadChunk])
  /\ serve' = [serve EXCEPT !.pos = IF ReadChunk = Garbage THEN Len(Open) ELSE @ + 2]
  /\ UNCHANGED <<uploading, stored, gets, downloads, cleans>>

ServeFin ==
  /\ serve.on /\ AtEnd
  /\ SendMessage([kind |-> "FIN", idx |-> Position, chunk |-> NoChunk])
  /\ serve' = NotServing
  /\ UNCHANGED <<uploading, stored, gets, downloads, cleans>>

\* A removed file is kept for the handler that has it open.
RemoveFile ==
  /\ cleans < MaxCleans /\ vault # <<>>
  /\ cleans' = cleans + 1
  /\ vault' = <<>>
  /\ serve' = IF serve.on /\ serve.file = cleans THEN [serve EXCEPT !.removed = vault]
              ELSE serve
  /\ UNCHANGED <<uploading, putting, gets, relayed, downloads>>

\* The cleanup loop removes a file that is 10 minutes old, the operator any file.
Cleanup == RemoveFile
DeleteBlob == RemoveFile

(***************************************************************************)
(* The receiving client: readPump.                                         *)
(***************************************************************************)
Ignored == seen \/ downloading

\* FILE_OFFER: mark the name active and start a download.
ReadOffer ==
  /\ down # <<>> /\ Head(down).kind = "OFFER"
  /\ down' = Tail(down)
  /\ IF Ignored THEN UNCHANGED <<downloading, phase>>
     ELSE \E j \in Jobs :
            /\ phase[j] = "none" /\ \A i \in 1..(j - 1) : phase[i] # "none"
            /\ phase' = [phase EXCEPT ![j] = "start"]
            /\ downloading' = TRUE
  /\ UNCHANGED <<uploading, stored, gets, serve, lost, seen, fileGets, chan, out, cleans>>

\* FILE_DATA goes to the registered download, or nowhere; when the download's
\* channel is full it is dropped.
Registered == fileGets # 0
HasRoom == Len(chan[fileGets]) < GetCap

ReadData ==
  /\ down # <<>> /\ Head(down).kind # "OFFER"
  /\ down' = Tail(down)
  /\ chan' = IF Registered /\ HasRoom
             THEN [chan EXCEPT ![fileGets] = Append(@, Head(down))] ELSE chan
  /\ lost' = (lost \/ (Registered /\ ~HasRoom))
  /\ UNCHANGED <<uploading, stored, gets, serve, downloading, seen, fileGets, phase, out, cleans>>

(***************************************************************************)
(* A download: DownloadMux, then DownloadSharedFile when it failed.        *)
(***************************************************************************)
\* Register the channel, then ask; the inbox file is created empty.
StartMux(j) ==
  /\ phase[j] = "start"
  /\ fileGets' = j
  /\ gets' = gets + 1
  /\ phase' = [phase EXCEPT ![j] = "mux"]
  /\ UNCHANGED <<uploading, stored, serve, relayed, downloading, seen, chan, out,
                 cleans>>

\* DownloadMux returns: its defer deletes whatever fileGets[name] is by then.
\* An error leads to DownloadSharedFile, which marks the name active again.
\* Nobody reads its channel any more.
MuxFails(j) ==
  /\ fileGets' = 0 /\ downloading' = TRUE
  /\ phase' = [phase EXCEPT ![j] = "http"]
  /\ chan' = [chan EXCEPT ![j] = <<>>]

AnyIndex(frame) == TRUE   \* mutant: the index is not bound into the AAD
DecryptChunk(frame) == frame.chunk # Garbage /\ frame.chunk[2] = frame.idx

TakeData(j) ==
  /\ phase[j] = "mux" /\ chan[j] # <<>> /\ Head(chan[j]).kind = "DATA"
  /\ IF DecryptChunk(Head(chan[j]))
     THEN /\ out' = [out EXCEPT ![j] = Append(@, Head(chan[j]).chunk)]
          /\ chan' = [chan EXCEPT ![j] = Tail(@)]
          /\ UNCHANGED <<fileGets, downloading, phase>>
     ELSE MuxFails(j) /\ UNCHANGED out
  /\ UNCHANGED <<uploading, stored, gets, serve, relayed, seen, cleans>>

TakeFin(j) ==
  /\ phase[j] = "mux" /\ chan[j] # <<>> /\ Head(chan[j]).kind = "FIN"
  /\ chan' = [chan EXCEPT ![j] = <<>>]
  /\ fileGets' = 0
  /\ phase' = [phase EXCEPT ![j] = "ending"]
  /\ UNCHANGED <<uploading, stored, gets, serve, relayed, downloading, seen, out,
                 cleans>>

WaitsForever(j) == FALSE   \* mutant: no deadline
\* The deadline of two minutes; it is looked at between two frames.
DeadlinePassed(j) == TRUE

Timeout(j) ==
  /\ phase[j] = "mux" /\ DeadlinePassed(j)
  /\ MuxFails(j)
  /\ UNCHANGED <<uploading, stored, gets, serve, relayed, seen, out, cleans>>

\* DecryptReaderTo over the vault file: chunks in order, up to the end marker.
Contents == [i \in 1..(Len(vault) \div 2) |-> vault[2 * i].chunk]
Readable == /\ vault = Append(AsFile(Contents), EndMarker)
            /\ \A i \in DOMAIN Contents : Contents[i][2] = i - 1

HttpEnds(j) ==
  /\ phase[j] = "http"
  /\ downloading' = FALSE
  /\ phase' = [phase EXCEPT ![j] = "leaving"]
  /\ UNCHANGED <<uploading, stored, gets, serve, relayed, fileGets, chan, cleans>>

HttpSucceeds(j) ==
  /\ Readable /\ HttpEnds(j)
  /\ seen' = TRUE
  /\ out' = [out EXCEPT ![j] = Contents]

\* The port is not reachable, the file is gone, or it does not decrypt.
HttpFails(j) == HttpEnds(j) /\ UNCHANGED <<seen, out>>

\* The goroutine's own defer: setDownloading(name, false).
EndDownload(j) ==
  /\ phase[j] \in {"ending", "leaving"}
  /\ downloading' = FALSE
  /\ phase' = [phase EXCEPT ![j] = IF phase[j] = "ending" THEN "done" ELSE "fellBack"]
  /\ UNCHANGED <<uploading, stored, gets, serve, relayed, seen, fileGets, chan, out,
                 cleans>>

Upload(u) == UploadMux(u) \/ OfferFile(u) \/ HttpUpload(u)
Handle(c) == PutHeader(c) \/ PutBody(c) \/ PutFin(c) \/ HandleOffer(c)
ReadPump == ReadOffer \/ ReadData
Serve == HandleGet \/ ServeChunk \/ ServeFin
Download(j) == \/ StartMux(j) \/ TakeData(j) \/ TakeFin(j) \/ Timeout(j)
               \/ HttpSucceeds(j) \/ HttpFails(j) \/ EndDownload(j)

Next == \/ \E u \in Uploads : Upload(u)
        \/ \E c \in Clients : Handle(c)
        \/ Serve \/ Cleanup \/ DeleteBlob \/ ReadPump
        \/ \E j \in Jobs : Download(j)

Spec == Init /\ [][Next]_vars

\* Goroutines that can move do; a download looks at its deadline again and again.
FairSpec == /\ Spec /\ WF_vars(Serve) /\ WF_vars(ReadPump)
            /\ \A u \in Uploads : WF_vars(Upload(u))
            /\ \A c \in Clients : WF_vars(Handle(c))
            /\ \A j \in Jobs : WF_vars(Download(j))

-----------------------------------------------------------------------------
\* What a download has written are chunks in the order of their indices, none
\* twice, and without a gap as long as the queues have taken every frame,
\* although other uploads truncate and extend the vault file while the hub
\* reads it: the hub numbers by position and DecryptChunk checks the index.
\* (Not after a download that failed: its late frames reach the next one.)
Undisturbed(j) == \A i \in 1..(j - 1) : phase[i] \in {"ending", "done"}
InOrder ==
  \A j \in Jobs : Undisturbed(j) =>
    \A n \in 1..Len(out[j]) :
      /\ \A m \in 1..(n - 1) : out[j][m][2] < out[j][n][2]
      /\ ~lost => out[j][n][2] = n - 1

\* As long as one version has been uploaded and the queues have taken every
\* frame, a mux download that succeeds wrote all its chunks, whatever the
\* cleanup and the deadline do meanwhile (the offer follows the last FILE_PUT on
\* the same connection, docs/WORKFLOW.md:6).
SuccessIsComplete ==
  \A u \in Uploads :
    ~lost /\ parked[Owner[u]] = <<>> /\ (\A v \in Uploads : next[v] > 0 <=> v = u) =>
    \A j \in Jobs : phase[j] \in {"ending", "done"} => out[j] = Whole(u)

\* A name does not stay in activeDownloads: later offers are taken up again.
DownloadsEnd == []<>(~downloading)

-----------------------------------------------------------------------------
(* What the texts say of the file plane and the code does not do. *)

\* "AAD binds fileID + index so chunks cannot be swapped" (chunk.go:12): a
\* download never writes chunks of two versions.
NotMixed ==
  \A j \in Jobs : phase[j] \in {"ending", "done"} =>
    \A i, k \in 1..Len(out[j]) : out[j][i][1] = out[j][k][1]

\* "Uploaded to Vault" (client/core.go:651): once the offer is on its way and
\* nothing else is, the vault holds what was reported.
UploadedIsInVault ==
  \A u \in Uploads : next[u] = Done /\ sendq[Owner[u]] = <<>>
                       => vault = AsFile(Whole(u)) \/ Uploads # {u}

\* "Mark as active to prevent duplicate triggers" (client/core.go:474): at most
\* one download of a name is under way.
OneDownloadPerFile ==
  \A i, j \in Jobs : phase[i] \in {"start", "mux", "http"}
                       /\ phase[j] \in {"start", "mux", "http"} => i = j

\* "HTTP vault on 127.0.0.1 remains as fallback" (ARCHITECTURE.md:28): a file
\* that was uploaded completely can be read through it.
FallbackReads ==
  \A u \in Uploads : vault = AsFile(Whole(u)) /\ next[u] > Fin => Readable
=============================================================================
