---------------------------- MODULE VaultProofs -----------------------------
(***************************************************************************)
(* The file plane, for any uploads, any number of chunks, any queues and   *)
(* any number of removals of the vault file.                               *)
(***************************************************************************)
EXTENDS Vault, FiniteSetTheorems, SequenceTheorems, TLAPS

-----------------------------------------------------------------------------
(* The state keeps its types. *)

\* Uploads are numbered from 1, so that 0 is no upload and Garbage no chunk.
LEMMA UploadNumbers ==
  /\ 1 \in Uploads /\ 0 \notin Uploads /\ Uploads \subseteq Nat
  /\ NoChunk \in Chunk /\ Garbage \notin Chunk
  /\ Size \in Nat /\ Size >= 1
  /\ \A j \in Jobs : 1..(j - 1) \subseteq Jobs
<1>1. Cardinality(Uploads) \in Nat BY VaultAssumption, FS_CardinalityType
<1>2. PICK n \in Nat : Uploads = 1..n BY <1>1, VaultAssumption
<1>3. n # 0 BY <1>2, VaultAssumption
<1>4. 1 \in Uploads /\ 0 \notin Uploads /\ Uploads \subseteq Nat BY <1>2, <1>3
<1>5. Size \in Nat /\ Size >= 1 BY VaultAssumption
<1>6. NoChunk \in Chunk BY <1>4, <1>5 DEF NoChunk, Chunk
<1>7. Garbage \notin Chunk BY <1>4 DEF Garbage, Chunk
<1>8. \A j \in Jobs : 1..(j - 1) \subseteq Jobs BY <1>2 DEF Jobs
<1>9. QED BY <1>4, <1>5, <1>6, <1>7, <1>8

LEMMA ItemTypes ==
  /\ Header \in Items /\ EndMarker \in Items /\ Junk \in Items
  /\ \A c \in Chunk : Body(c) \in Items
<1>1. NoChunk \in Chunk BY UploadNumbers
<1>2. QED BY <1>1 DEF Header, EndMarker, Junk, Body, Items

LEMMA FrameTypes ==
  \A k \in {"OFFER", "DATA", "FIN"}, i \in Nat, c \in Chunk \cup {Garbage} :
    [kind |-> k, idx |-> i, chunk |-> c] \in Frames
BY DEF Frames

LEMMA AsFileType == ASSUME NEW chunks \in Seq(Chunk) PROVE AsFile(chunks) \in Seq(Items)
<1> DEFINE n == Len(chunks)
<1>1. n \in Nat /\ \A i \in 1..n : chunks[i] \in Chunk OBVIOUS
<1>2. AsFile(chunks) = [m \in 1..(2 * n) |->
                          IF m % 2 = 1 THEN Header ELSE Body(chunks[m \div 2])]
  BY DEF AsFile
<1> HIDE DEF n
<1>3. \A m \in 1..(2 * n) : m % 2 # 1 => m \div 2 \in 1..n BY <1>1
<1>4. \A m \in 1..(2 * n) : (IF m % 2 = 1 THEN Header ELSE Body(chunks[m \div 2])) \in Items
  BY <1>1, <1>3, ItemTypes
<1>5. AsFile(chunks) \in [1..(2 * n) -> Items] BY <1>2, <1>4
<1>6. 2 * n \in Nat BY <1>1
<1>7. QED BY <1>5, <1>6, SeqDef

LEMMA WholeType == ASSUME NEW u \in Uploads PROVE Whole(u) \in Seq(Chunk) /\ Len(Whole(u)) = Size
<1>1. \A i \in 1..Size : <<u, i - 1>> \in Chunk BY UploadNumbers DEF Chunk
<1>2. Whole(u) \in [1..Size -> Chunk] BY <1>1 DEF Whole
<1>3. QED BY <1>2, UploadNumbers, SeqDef

LEMMA WrittenType ==
  ASSUME NEW file \in Seq(Items), NEW chunk \in Chunk
  PROVE  Written(file, chunk) \in Seq(Items)
<1>1. Body(chunk) \in Items BY ItemTypes
<1>2. CASE chunk[2] = 0 /\ Len(file) > 1
  <2>1. file[1] \in Items BY <1>2
  <2>2. <<file[1], Body(chunk)>> \in Seq(Items) BY <1>1, <2>1
  <2>3. After(file) \in Seq(Items)
    <3>1. SubSeq(file, 3, Len(file)) \in Seq(Items) OBVIOUS
    <3>2. <<Junk>> \in Seq(Items) /\ <<>> \in Seq(Items) BY ItemTypes
    <3>3. QED BY <3>1, <3>2 DEF After
  <2> HIDE DEF After
  <2>4. <<file[1], Body(chunk)>> \o After(file) \in Seq(Items)
    BY <2>2, <2>3, ConcatProperties
  <2>5. QED BY <1>2, <2>4 DEF Written
<1>3. CASE ~(chunk[2] = 0 /\ Len(file) > 1)
  <2>1. Append(file, Body(chunk)) \in Seq(Items) BY <1>1, AppendProperties
  <2>2. QED BY <1>3, <2>1 DEF Written
<1>4. QED BY <1>2, <1>3

LEMMA VaultInitTyped == Init => TypeOK
<1> SUFFICES ASSUME Init PROVE TypeOK OBVIOUS
<1>1. legacy \subseteq Uploads /\ next \in [Uploads -> 0..Done]
  <2>1. Done \in Nat BY UploadNumbers DEF Done
  <2>2. QED BY <2>1, VaultAssumption DEF Init
<1>2. putting \in [Clients -> Put]
  <2>1. NotPutting \in Put BY UploadNumbers DEF NotPutting, Put
  <2>2. QED BY <2>1 DEF Init
<1>3. serve \in [on : BOOLEAN, pos : Nat, file : Nat, removed : Seq(Items)]
  BY DEF Init, NotServing
<1>4. chan \in [Jobs -> Seq(Frames)] /\ out \in [Jobs -> Seq(Chunk)] /\ down \in Seq(Frames)
  BY DEF Init
<1>5. sendq \in [Clients -> Seq(Uploads \X (0..Offer))]
      /\ parked \in [Clients -> Seq(Uploads \X (0..Offer))]
  BY DEF Init
<1>6. vault \in Seq(Items) BY DEF Init
<1>7. QED BY <1>1, <1>2, <1>3, <1>4, <1>5, <1>6 DEF Init, TypeOK

\* A queue takes a frame, or gives one.
LEMMA QueueTypes ==
  ASSUME NEW S, NEW D, NEW f \in [D -> Seq(S)], NEW d \in D
  PROVE  /\ \A x \in S : [f EXCEPT ![d] = Append(f[d], x)] \in [D -> Seq(S)]
         /\ f[d] # <<>> => Head(f[d]) \in S /\ [f EXCEPT ![d] = Tail(f[d])] \in [D -> Seq(S)]
         /\ [f EXCEPT ![d] = <<>>] \in [D -> Seq(S)]
<1>1. f[d] \in Seq(S) OBVIOUS
<1>2. \A x \in S : Append(f[d], x) \in Seq(S) BY <1>1, AppendProperties
<1>3. f[d] # <<>> => Head(f[d]) \in S /\ Tail(f[d]) \in Seq(S) BY <1>1, HeadTailProperties
<1>4. QED BY <1>2, <1>3

LEMMA UploadTyped == ASSUME TypeOK, NEW u \in Uploads, Upload(u) PROVE TypeOK'
<1>1. /\ Owner[u] \in Clients /\ Done \in Nat /\ Fin = Size /\ Offer = Size + 1 /\ Done = Size + 2
      /\ Size \in Nat
  BY VaultAssumption, UploadNumbers DEF Fin, Offer, Done
<1>2. next[u] \in 0..Done BY DEF TypeOK
<1>3. CASE UploadMux(u)
  <2>1. next[u] <= Fin /\ next' = [next EXCEPT ![u] = next[u] + 1] BY <1>3 DEF UploadMux
  <2>2. next' \in [Uploads -> 0..Done] BY <1>1, <1>2, <2>1 DEF TypeOK
  <2>3. <<u, next[u]>> \in Uploads \X (0..Offer) BY <1>1, <1>2, <2>1
  <2>4. /\ sendq' \in [Clients -> Seq(Uploads \X (0..Offer))]
        /\ parked' \in [Clients -> Seq(Uploads \X (0..Offer))]
    <3> DEFINE x == <<u, next[u]>>  c == Owner[u]
    <3>1. \/ sendq' = [sendq EXCEPT ![c] = Append(sendq[c], x)] /\ parked' = parked
          \/ parked' = [parked EXCEPT ![c] = Append(parked[c], x)] /\ sendq' = sendq
      BY <1>3 DEF UploadMux, EnqueueOrSend
    <3> HIDE DEF x
    <3>2. /\ [sendq EXCEPT ![c] = Append(sendq[c], x)] \in [Clients -> Seq(Uploads \X (0..Offer))]
          /\ [parked EXCEPT ![c] = Append(parked[c], x)] \in [Clients -> Seq(Uploads \X (0..Offer))]
      BY <1>1, <2>3, QueueTypes DEF TypeOK, x
    <3>3. QED BY <3>1, <3>2 DEF TypeOK
  <2>5. QED
    BY <1>3, <2>2, <2>4 DEF UploadMux, TypeOK, stored, relayed, downloads
<1>4. CASE OfferFile(u)
  <2>1. next' = [next EXCEPT ![u] = Done] BY <1>4 DEF OfferFile
  <2>2. next' \in [Uploads -> 0..Done] BY <1>1, <2>1 DEF TypeOK
  <2>3. <<u, Offer>> \in Uploads \X (0..Offer) BY <1>1
  <2>4. sendq' \in [Clients -> Seq(Uploads \X (0..Offer))]
    BY <1>1, <1>4, <2>3, QueueTypes DEF OfferFile, TypeOK
  <2>5. QED BY <1>4, <2>2, <2>4 DEF OfferFile, TypeOK, stored, relayed, downloads
<1>5. CASE HttpUpload(u)
  <2>1. next' = [next EXCEPT ![u] = Offer] BY <1>5 DEF HttpUpload
  <2>2. next' \in [Uploads -> 0..Done] BY <1>1, <2>1 DEF TypeOK
  <2>3. AsFile(Whole(u)) \in Seq(Items) BY AsFileType, WholeType
  <2>4. Append(AsFile(Whole(u)), EndMarker) \in Seq(Items) BY <2>3, ItemTypes, AppendProperties
  <2>5. QED BY <1>5, <2>2, <2>4 DEF HttpUpload, TypeOK, relayed, downloads
<1>6. QED BY <1>3, <1>4, <1>5 DEF Upload

\* The receiver's queue takes a frame or drops it.
LEMMA SendTypes ==
  ASSUME TypeOK, NEW x \in Frames, SendMessage(x)
  PROVE  down' \in Seq(Frames) /\ lost' \in BOOLEAN
BY AppendProperties DEF SendMessage, TypeOK

LEMMA HandleTyped == ASSUME TypeOK, NEW c \in Clients, Handle(c) PROVE TypeOK'
<1>1. Size \in Nat /\ Fin = Size BY UploadNumbers DEF Fin
<1>2. sendq[c] \in Seq(Uploads \X (0..Offer)) BY DEF TypeOK
<1>3. CASE PutHeader(c)
  <2> DEFINE chunk == Head(sendq[c])
  <2>1. chunk \in Uploads \X (0..Offer) /\ chunk[2] < Fin /\ sendq[c] # <<>>
    BY <1>2, <1>3 DEF PutHeader
  <2>2. chunk \in Chunk BY <1>1, <2>1 DEF Chunk, Offer
  <2>3. sendq' \in [Clients -> Seq(Uploads \X (0..Offer))]
    BY <1>3, <2>1, QueueTypes DEF PutHeader, TypeOK
  <2>4. vault' \in Seq(Items)
    <3>1. Append(vault, Header) \in Seq(Items) BY ItemTypes, AppendProperties DEF TypeOK
    <3>2. <<Header>> \in Seq(Items) BY ItemTypes
    <3>3. QED BY <1>3, <3>1, <3>2 DEF PutHeader
  <2>5. putting' \in [Clients -> Put]
    <3> DEFINE put == [on |-> TRUE, chunk |-> chunk, file |-> cleans]
    <3>1. put \in Put BY <2>2 DEF Put, TypeOK
    <3>2. putting' = [putting EXCEPT ![c] = put] BY <1>3 DEF PutHeader
    <3> HIDE DEF put
    <3>3. QED BY <3>1, <3>2 DEF TypeOK
  <2>6. QED BY <1>3, <2>3, <2>4, <2>5 DEF PutHeader, TypeOK, relayed, downloads
<1>4. CASE PutBody(c)
  <2>1. putting[c].chunk \in Chunk BY DEF TypeOK, Put
  <2>2. vault' \in Seq(Items) BY <1>4, <2>1, WrittenType DEF PutBody, TypeOK
  <2>3. Written(serve.removed, putting[c].chunk) \in Seq(Items)
    BY <2>1, WrittenType DEF TypeOK
  <2>4. serve' \in [on : BOOLEAN, pos : Nat, file : Nat, removed : Seq(Items)]
    BY <1>4, <2>3 DEF PutBody, TypeOK
  <2>5. NotPutting \in Put BY UploadNumbers DEF NotPutting, Put
  <2>6. putting' \in [Clients -> Put] BY <1>4, <2>5 DEF PutBody, TypeOK
  <2>7. QED BY <1>4, <2>2, <2>4, <2>6 DEF PutBody, TypeOK, uploading, relayed, downloads
<1>5. CASE PutFin(c)
  <2>1. sendq' \in [Clients -> Seq(Uploads \X (0..Offer))]
    BY <1>5, QueueTypes DEF PutFin, TypeOK
  <2>2. QED BY <1>5, <2>1 DEF PutFin, TypeOK, stored, relayed, downloads
<1>6. CASE HandleOffer(c)
  <2>1. sendq' \in [Clients -> Seq(Uploads \X (0..Offer))]
    BY <1>6, QueueTypes DEF HandleOffer, TypeOK
  <2>2. [kind |-> "OFFER", idx |-> 0, chunk |-> NoChunk] \in Frames
    BY FrameTypes, UploadNumbers
  <2>3. down' \in Seq(Frames) /\ lost' \in BOOLEAN BY <1>6, <2>2, SendTypes DEF HandleOffer
  <2>4. QED BY <1>6, <2>1, <2>3 DEF HandleOffer, TypeOK, stored, downloads
<1>7. QED BY <1>3, <1>4, <1>5, <1>6 DEF Handle

\* What the loop of handleFileGet reads and sends.
LEMMA OpenTypes ==
  ASSUME TypeOK
  PROVE  /\ Open \in Seq(Items) /\ Position \in Nat
         /\ ~AtEnd => /\ serve.pos + 2 \in 1..Len(Open) /\ serve.pos + 1 \in 1..Len(Open)
                      /\ Open[serve.pos + 1].part = "header"
                      /\ ReadChunk \in Chunk \cup {Garbage}
<1>1. Open \in Seq(Items) /\ serve.pos \in Nat BY DEF Open, TypeOK
<1> DEFINE n == Len(Open)  p == serve.pos
<1>2. n \in Nat /\ p \in Nat BY <1>1
<1>3. Position \in Nat BY <1>2 DEF Position
<1>4. ASSUME ~AtEnd PROVE p + 2 \in 1..n /\ p + 1 \in 1..n /\ Open[p + 1].part = "header"
  <2>1. p + 2 <= n /\ Open[p + 1].part = "header" BY <1>4 DEF AtEnd
  <2> HIDE DEF n, p
  <2>2. QED BY <1>2, <2>1
<1>5. ASSUME ~AtEnd PROVE ReadChunk \in Chunk \cup {Garbage}
  <2>1. Open[p + 2] \in Items BY <1>1, <1>4, <1>5
  <2>2. QED BY <2>1 DEF ReadChunk, Items
<1>6. QED BY <1>1, <1>3, <1>4, <1>5

LEMMA ServeTyped == ASSUME TypeOK, Serve PROVE TypeOK'
<1>1. NotServing \in [on : BOOLEAN, pos : Nat, file : Nat, removed : Seq(Items)]
  BY DEF NotServing
<1>2. CASE HandleGet
  <2>1. serve' \in [on : BOOLEAN, pos : Nat, file : Nat, removed : Seq(Items)]
    BY <1>1, <1>2 DEF HandleGet, TypeOK
  <2>2. gets' \in Nat BY <1>2 DEF HandleGet, TypeOK
  <2>3. QED BY <1>2, <2>1, <2>2 DEF HandleGet, TypeOK, uploading, stored, relayed, downloads
<1>3. CASE ServeChunk
  <2> DEFINE x == [kind |-> "DATA", idx |-> Position, chunk |-> ReadChunk]
  <2>1. ~AtEnd /\ SendMessage(x) BY <1>3 DEF ServeChunk
  <2>2. x \in Frames BY <2>1, OpenTypes, FrameTypes
  <2> HIDE DEF x
  <2>3. down' \in Seq(Frames) /\ lost' \in BOOLEAN BY <2>1, <2>2, SendTypes
  <2>4. serve' \in [on : BOOLEAN, pos : Nat, file : Nat, removed : Seq(Items)]
    <3> DEFINE p == IF ReadChunk = Garbage THEN Len(Open) ELSE serve.pos + 2
    <3>1. Len(Open) \in Nat /\ serve.pos \in Nat BY OpenTypes DEF TypeOK
    <3>2. p \in Nat BY <3>1
    <3>3. serve' = [serve EXCEPT !.pos = p] BY <1>3 DEF ServeChunk
    <3> HIDE DEF p
    <3>4. QED BY <3>2, <3>3 DEF TypeOK
  <2>5. QED BY <1>3, <2>3, <2>4 DEF ServeChunk, TypeOK, uploading, stored, downloads
<1>4. CASE ServeFin
  <2> DEFINE x == [kind |-> "FIN", idx |-> Position, chunk |-> NoChunk]
  <2>1. SendMessage(x) BY <1>4 DEF ServeFin
  <2>2. x \in Frames BY OpenTypes, FrameTypes, UploadNumbers
  <2> HIDE DEF x
  <2>3. down' \in Seq(Frames) /\ lost' \in BOOLEAN BY <2>1, <2>2, SendTypes
  <2>4. QED BY <1>1, <1>4, <2>3 DEF ServeFin, TypeOK, uploading, stored, downloads
<1>5. QED BY <1>2, <1>3, <1>4 DEF Serve

LEMMA RemoveTyped == ASSUME TypeOK, RemoveFile PROVE TypeOK'
<1>1. serve' \in [on : BOOLEAN, pos : Nat, file : Nat, removed : Seq(Items)]
  <2>1. vault \in Seq(Items) BY DEF TypeOK
  <2>2. [serve EXCEPT !.removed = vault]
          \in [on : BOOLEAN, pos : Nat, file : Nat, removed : Seq(Items)]
    BY <2>1 DEF TypeOK
  <2>3. QED BY <2>2 DEF RemoveFile, TypeOK
<1>2. vault' \in Seq(Items) /\ cleans' \in Nat BY DEF RemoveFile, TypeOK
<1>3. QED BY <1>1, <1>2 DEF RemoveFile, TypeOK, uploading, relayed, downloads

LEMMA ReadTyped == ASSUME TypeOK, ReadPump PROVE TypeOK'
<1>1. CASE ReadOffer
  <2>1. down' \in Seq(Frames) BY <1>1 DEF ReadOffer, TypeOK
  <2>2. /\ downloading' \in BOOLEAN
        /\ phase' \in [Jobs -> {"none", "start", "mux", "http", "ending", "leaving",
                                "done", "fellBack"}]
    BY <1>1 DEF ReadOffer, TypeOK
  <2>3. QED BY <1>1, <2>1, <2>2 DEF ReadOffer, TypeOK, uploading, stored
<1>2. CASE ReadData
  <2>1. down # <<>> /\ down' = Tail(down) BY <1>2 DEF ReadData
  <2>2. down' \in Seq(Frames) /\ Head(down) \in Frames BY <2>1 DEF TypeOK
  <2>3. chan' \in [Jobs -> Seq(Frames)]
    BY <1>2, <2>2, QueueTypes DEF ReadData, Registered, TypeOK
  <2>4. lost' \in BOOLEAN BY <1>2 DEF ReadData, TypeOK
  <2>5. QED BY <1>2, <2>2, <2>3, <2>4 DEF ReadData, TypeOK, uploading, stored
<1>3. QED BY <1>1, <1>2 DEF ReadPump

\* What DecryptReaderTo makes of a file.
LEMMA ContentsType == ASSUME TypeOK PROVE Contents \in Seq(Chunk)
<1> DEFINE n == Len(vault)
<1>1. n \in Nat /\ \A i \in 1..n : vault[i].chunk \in Chunk
  <2>1. vault \in Seq(Items) BY DEF TypeOK
  <2>2. \A x \in Items : x.chunk \in Chunk BY DEF Items
  <2>3. n \in Nat /\ \A i \in 1..n : vault[i] \in Items BY <2>1
  <2>4. QED BY <2>2, <2>3
<1>2. Contents = [i \in 1..(n \div 2) |-> vault[2 * i].chunk] BY DEF Contents
<1> HIDE DEF n
<1>3. n \div 2 \in Nat /\ \A i \in 1..(n \div 2) : 2 * i \in 1..n BY <1>1
<1>4. Contents \in [1..(n \div 2) -> Chunk] BY <1>1, <1>2, <1>3
<1>5. QED BY <1>3, <1>4, SeqDef

LEMMA DownloadTyped == ASSUME TypeOK, NEW j \in Jobs, Download(j) PROVE TypeOK'
<1> DEFINE Phases == {"none", "start", "mux", "http", "ending", "leaving", "done", "fellBack"}
<1>1. \A x \in Phases : [phase EXCEPT ![j] = x] \in [Jobs -> Phases] BY DEF TypeOK
<1>2. [chan EXCEPT ![j] = <<>>] \in [Jobs -> Seq(Frames)] BY QueueTypes DEF TypeOK
<1>3. CASE StartMux(j)
  BY <1>1, <1>3 DEF StartMux, TypeOK, uploading, stored, relayed
<1>4. ASSUME MuxFails(j)
      PROVE  /\ fileGets' \in Jobs \cup {0} /\ downloading' \in BOOLEAN
             /\ phase' \in [Jobs -> Phases] /\ chan' \in [Jobs -> Seq(Frames)]
  BY <1>1, <1>2, <1>4 DEF MuxFails
<1>5. CASE TakeData(j)
  <2> DEFINE x == Head(chan[j])
  <2>1. chan[j] # <<>> /\ chan[j] \in Seq(Frames) BY <1>5 DEF TakeData, TypeOK
  <2>2. x \in Frames BY <2>1
  <2>3. CASE DecryptChunk(x)
    <3>1. /\ out' = [out EXCEPT ![j] = Append(out[j], x.chunk)]
          /\ chan' = [chan EXCEPT ![j] = Tail(chan[j])]
          /\ UNCHANGED <<fileGets, downloading, phase>>
      BY <1>5, <2>3 DEF TakeData
    <3>2. x.chunk \in Chunk BY <2>2, <2>3 DEF DecryptChunk, Frames
    <3> HIDE DEF x
    <3>3. out' \in [Jobs -> Seq(Chunk)] BY <3>1, <3>2, QueueTypes DEF TypeOK
    <3>4. chan' \in [Jobs -> Seq(Frames)] BY <2>1, <3>1, QueueTypes DEF TypeOK
    <3>5. QED BY <1>5, <3>1, <3>3, <3>4 DEF TakeData, TypeOK, uploading, stored, relayed
  <2>4. CASE ~DecryptChunk(x)
    <3>1. MuxFails(j) /\ UNCHANGED out BY <1>5, <2>4 DEF TakeData
    <3>2. QED BY <1>4, <1>5, <3>1 DEF TakeData, TypeOK, uploading, stored, relayed
  <2>5. QED BY <2>3, <2>4
<1>6. CASE TakeFin(j)
  BY <1>1, <1>2, <1>6 DEF TakeFin, TypeOK, uploading, stored, relayed
<1>7. CASE Timeout(j)
  BY <1>4, <1>7 DEF Timeout, TypeOK, uploading, stored, relayed
<1>8. CASE HttpSucceeds(j)
  <2>1. out' \in [Jobs -> Seq(Chunk)] BY <1>8, ContentsType DEF HttpSucceeds, TypeOK
  <2>2. QED
    BY <1>1, <1>8, <2>1 DEF HttpSucceeds, HttpEnds, TypeOK, uploading, stored, relayed
<1>9. CASE HttpFails(j)
  BY <1>1, <1>9 DEF HttpFails, HttpEnds, TypeOK, uploading, stored, relayed
<1>10. CASE EndDownload(j)
  BY <1>1, <1>10 DEF EndDownload, TypeOK, uploading, stored, relayed
<1>11. QED BY <1>3, <1>5, <1>6, <1>7, <1>8, <1>9, <1>10 DEF Download

LEMMA VaultStepTyped == ASSUME TypeOK, [Next]_vars PROVE TypeOK'
<1>1. CASE UNCHANGED vars
  BY <1>1 DEF vars, uploading, stored, relayed, downloads, TypeOK
<1>2. QED
  BY <1>1, UploadTyped, HandleTyped, ServeTyped, RemoveTyped, ReadTyped, DownloadTyped
  DEF Next, Cleanup, DeleteBlob

\* The state of the file plane keeps its types: whatever two handlers make of the
\* vault file, the frames and the inbox files hold chunks that were uploaded.
THEOREM VaultTyped == Spec => []TypeOK
BY VaultInitTyped, VaultStepTyped, PTL DEF Spec

-----------------------------------------------------------------------------
(* A download gets its chunks in order.                                    *)
(*                                                                         *)
(* The frames of a download lie in its channel and, behind them, on the    *)
(* connection; the hub is about to send the one at Position.  Marks number *)
(* the gaps between the frames: the mark before a frame bounds its index   *)
(* from below, the one behind it from above, and as long as no frame was   *)
(* dropped the marks count exactly.                                        *)

Marks(q) == [1..(Len(q) + 1) -> Nat]

Passes(a, x, b, exact) ==
  IF x.kind = "DATA"
  THEN /\ a <= x.idx /\ x.idx < b
       /\ exact => a = x.idx /\ (x.chunk # Garbage => b = x.idx + 1)
  ELSE /\ a <= b
       /\ exact => a = b /\ (x.kind = "FIN" => a = x.idx)

Flow(f, q, exact) == \A n \in 1..Len(q) : Passes(f[n], q[n], f[n + 1], exact)

Meets(a, b, exact) == a <= b /\ (exact => a = b)

\* What was written, the channel, the connection, and whether and where the hub
\* goes on.
Linked(o, q, d, on, p, exact) ==
  \E g \in Marks(q), f \in Marks(d) :
    /\ Flow(g, q, exact) /\ Flow(f, d, exact)
    /\ \A m \in 1..Len(o) : o[m][2] < g[1]
    /\ exact => g[1] = Len(o)
    /\ Meets(g[Len(q) + 1], f[1], exact)
    /\ on => Meets(f[Len(d) + 1], p, exact)

\* One more frame behind the last mark.
LEMMA FlowAppend ==
  ASSUME NEW q \in Seq(Frames), NEW x \in Frames, NEW exact \in BOOLEAN, NEW f \in Marks(q),
         Flow(f, q, exact), NEW b \in Nat, Passes(f[Len(q) + 1], x, b, exact)
  PROVE  \E h \in Marks(Append(q, x)) :
           /\ Flow(h, Append(q, x), exact)
           /\ h[1] = f[1] /\ h[Len(Append(q, x)) + 1] = b
<1> DEFINE n == Len(q)  t == Append(q, x)
<1>1. n \in Nat /\ Len(t) = n + 1 /\ t[n + 1] = x /\ \A i \in 1..n : t[i] = q[i]
  BY AppendProperties
<1>2. f \in [1..(n + 1) -> Nat] BY DEF Marks
<1>3. Passes(f[n + 1], x, b, exact) /\ \A i \in 1..n : Passes(f[i], q[i], f[i + 1], exact)
  BY DEF Flow
<1> DEFINE h == [i \in 1..(n + 2) |-> IF i = n + 2 THEN b ELSE f[i]]
<1> HIDE DEF n, t
<1>4. h \in [1..((n + 1) + 1) -> Nat] /\ h[1] = f[1] /\ h[(n + 1) + 1] = b
  BY <1>1, <1>2
<1>5. \A i \in 1..(n + 1) : h[i] = f[i] BY <1>1, <1>2
<1>6. h[n + 2] = b BY <1>1
<1> HIDE DEF h
<1>7. ASSUME NEW i \in 1..(n + 1) PROVE Passes(h[i], t[i], h[i + 1], exact)
  <2>1. CASE i = n + 1
    <3>1. h[i] = f[n + 1] /\ t[i] = x /\ h[i + 1] = b BY <1>1, <1>5, <1>6, <2>1
    <3>2. QED BY <1>3, <3>1
  <2>2. CASE i # n + 1
    <3>1. i \in 1..n /\ i + 1 \in 1..(n + 1) BY <1>1, <2>2
    <3>2. h[i] = f[i] /\ t[i] = q[i] /\ h[i + 1] = f[i + 1] BY <1>1, <1>5, <3>1
    <3>3. QED BY <1>3, <3>1, <3>2
  <2>3. QED BY <2>1, <2>2
<1>8. h \in Marks(t) BY <1>1, <1>4 DEF Marks
<1>9. Flow(h, t, exact) BY <1>1, <1>7 DEF Flow
<1>10. QED BY <1>1, <1>4, <1>8, <1>9 DEF t

\* The first frame is taken away.
LEMMA FlowTail ==
  ASSUME NEW q \in Seq(Frames), q # <<>>, NEW exact \in BOOLEAN, NEW f \in Marks(q),
         Flow(f, q, exact)
  PROVE  /\ f[1] \in Nat /\ f[2] \in Nat /\ Passes(f[1], Head(q), f[2], exact)
         /\ \E h \in Marks(Tail(q)) :
              /\ Flow(h, Tail(q), exact)
              /\ h[1] = f[2] /\ h[Len(Tail(q)) + 1] = f[Len(q) + 1]
<1> DEFINE n == Len(q)  t == Tail(q)
<1>1. n \in Nat /\ n # 0 /\ Len(t) = n - 1 /\ Head(q) = q[1] OBVIOUS
<1>2. \A i \in 1..(n - 1) : t[i] = q[i + 1] OBVIOUS
<1>3. f \in [1..(n + 1) -> Nat] BY DEF Marks
<1>4. \A i \in 1..n : Passes(f[i], q[i], f[i + 1], exact) BY DEF Flow
<1> DEFINE h == [i \in 1..n |-> f[i + 1]]
<1> HIDE DEF n, t
<1>5. f[1] \in Nat /\ f[2] \in Nat BY <1>1, <1>3
<1>6. Passes(f[1], Head(q), f[2], exact)
  <2>1. Passes(f[1], q[1], f[1 + 1], exact) BY <1>1, <1>4
  <2>2. QED BY <1>1, <2>1
<1>7. h \in [1..((n - 1) + 1) -> Nat] /\ h[1] = f[2] /\ h[(n - 1) + 1] = f[n + 1]
  BY <1>1, <1>3
<1>8. \A i \in 1..(n - 1) : h[i] = f[i + 1] /\ h[i + 1] = f[(i + 1) + 1] BY <1>1
<1> HIDE DEF h
<1>9. ASSUME NEW i \in 1..(n - 1) PROVE Passes(h[i], t[i], h[i + 1], exact)
  <2>1. i + 1 \in 1..n BY <1>1
  <2>2. Passes(f[i + 1], q[i + 1], f[(i + 1) + 1], exact) BY <1>4, <2>1
  <2>3. QED BY <1>2, <1>8, <2>2
<1>10. h \in Marks(t) BY <1>1, <1>7 DEF Marks
<1>11. Flow(h, t, exact) BY <1>1, <1>9 DEF Flow
<1>12. QED BY <1>1, <1>5, <1>6, <1>7, <1>10, <1>11 DEF n, t

LEMMA FlowWeakens ==
  ASSUME NEW q, NEW f, NEW exact \in BOOLEAN, NEW less \in BOOLEAN, less => exact,
         Flow(f, q, exact)
  PROVE  Flow(f, q, less)
BY DEF Flow, Passes

\* Frames that are dropped only weaken the link.
LEMMA LinkWeakens ==
  ASSUME NEW o, NEW q \in Seq(Frames), NEW d \in Seq(Frames), NEW on \in BOOLEAN, NEW now \in BOOLEAN, NEW p \in Nat,
         NEW r \in Nat,
         NEW exact \in BOOLEAN, NEW less \in BOOLEAN, less => exact,
         Linked(o, q, d, on, p, exact), now => on, p <= r, less => p = r
  PROVE  Linked(o, q, d, now, r, less)
<1>1. PICK g \in Marks(q), f \in Marks(d) :
        /\ Flow(g, q, exact) /\ Flow(f, d, exact)
        /\ \A m \in 1..Len(o) : o[m][2] < g[1]
        /\ exact => g[1] = Len(o)
        /\ Meets(g[Len(q) + 1], f[1], exact)
        /\ on => Meets(f[Len(d) + 1], p, exact)
  BY DEF Linked
<1>2. Flow(g, q, less) /\ Flow(f, d, less) BY <1>1, FlowWeakens
<1>3. Meets(g[Len(q) + 1], f[1], less) BY <1>1 DEF Meets
<1>4. f[Len(d) + 1] \in Nat
  <2>1. Len(d) + 1 \in 1..(Len(d) + 1) OBVIOUS
  <2>2. QED BY <2>1 DEF Marks
<1>5. now => Meets(f[Len(d) + 1], r, less)
  <2> DEFINE a == f[Len(d) + 1]
  <2>1. a \in Nat /\ (on => a <= p /\ (exact => a = p)) BY <1>1, <1>4 DEF Meets
  <2> HIDE DEF a
  <2>2. now => a <= r /\ (less => a = r) BY <2>1
  <2>3. QED BY <2>2 DEF a, Meets
<1>6. QED BY <1>1, <1>2, <1>3, <1>5 DEF Linked

LEMMA LinkLoses ==
  ASSUME NEW o, NEW q \in Seq(Frames), NEW d \in Seq(Frames), NEW on \in BOOLEAN, NEW p \in Nat,
         NEW exact \in BOOLEAN, Linked(o, q, d, on, p, exact), NEW less \in BOOLEAN, ~less
  PROVE  Linked(o, q, d, on, p, less)
BY LinkWeakens

\* A download begins with nothing of its own on the way.
LEMMA LinkStarts ==
  ASSUME NEW d \in Seq(Frames), \A n \in 1..Len(d) : d[n].kind = "OFFER",
         NEW on, NEW p \in Nat, on => p = 0, NEW exact \in BOOLEAN
  PROVE  Linked(<<>>, <<>>, d, on, p, exact)
<1> DEFINE n == Len(d)  g == [i \in 1..1 |-> 0]  f == [i \in 1..(n + 1) |-> 0]
<1>1. n \in Nat OBVIOUS
<1>2. g \in Marks(<<>>) /\ g[1] = 0 /\ g[Len(<<>>) + 1] = 0 BY DEF Marks
<1>3. f \in Marks(d) BY <1>1 DEF Marks
<1>4. Flow(g, <<>>, exact) BY DEF Flow
<1>5. f[1] = 0 /\ f[n + 1] = 0 /\ \A i \in 1..n : f[i] = 0 /\ f[i + 1] = 0
  <2> HIDE DEF n
  <2>1. QED BY <1>1
<1> HIDE DEF f, g
<1>6. Flow(f, d, exact)
  <2>1. \A i \in 1..n : d[i].kind # "DATA" /\ d[i].kind # "FIN" OBVIOUS
  <2>2. QED BY <1>5, <2>1 DEF Flow, Passes
<1>7. Meets(g[Len(<<>>) + 1], f[1], exact) BY <1>2, <1>5 DEF Meets
<1>8. on => Meets(f[n + 1], p, exact) BY <1>5 DEF Meets
<1>9. \A m \in 1..Len(<<>>) : <<>>[m][2] < g[1] OBVIOUS
<1>10. exact => g[1] = Len(<<>>) BY <1>2
<1>11. QED BY <1>2, <1>3, <1>4, <1>6, <1>7, <1>8, <1>9, <1>10 DEF Linked

\* The hub sends the frame at p and goes on at r, or is done.
LEMMA LinkSends ==
  ASSUME NEW o, NEW q \in Seq(Frames), NEW d \in Seq(Frames), NEW p \in Nat, NEW r \in Nat,
         NEW now, NEW exact \in BOOLEAN, Linked(o, q, d, TRUE, p, exact), NEW x \in Frames,
         x.kind \in {"DATA", "FIN"}, x.idx = p,
         x.kind = "DATA" => p < r /\ (x.chunk # Garbage => r = p + 1),
         x.kind = "FIN" => ~now
  PROVE  Linked(o, q, Append(d, x), now, r, exact)
<1>1. PICK g \in Marks(q), f \in Marks(d) :
        /\ Flow(g, q, exact) /\ Flow(f, d, exact)
        /\ \A m \in 1..Len(o) : o[m][2] < g[1]
        /\ exact => g[1] = Len(o)
        /\ Meets(g[Len(q) + 1], f[1], exact)
        /\ Meets(f[Len(d) + 1], p, exact)
  BY DEF Linked
<1> DEFINE b == IF x.kind = "DATA" THEN r ELSE p
<1>2. b \in Nat /\ Passes(f[Len(d) + 1], x, b, exact) BY <1>1 DEF Passes, Meets
<1>3. PICK h \in Marks(Append(d, x)) :
        /\ Flow(h, Append(d, x), exact)
        /\ h[1] = f[1] /\ h[Len(Append(d, x)) + 1] = b
  BY <1>1, <1>2, FlowAppend
<1>4. now => b = r OBVIOUS
<1>5. now => Meets(h[Len(Append(d, x)) + 1], r, exact) BY <1>3, <1>4 DEF Meets
<1>6. Meets(g[Len(q) + 1], h[1], exact) BY <1>1, <1>3
<1>7. QED BY <1>1, <1>3, <1>5, <1>6 DEF Linked

\* An offer goes between the frames.
LEMMA LinkOffers ==
  ASSUME NEW o, NEW q \in Seq(Frames), NEW d \in Seq(Frames), NEW p \in Nat,
         NEW on, NEW exact \in BOOLEAN, Linked(o, q, d, on, p, exact), NEW x \in Frames,
         x.kind = "OFFER"
  PROVE  Linked(o, q, Append(d, x), on, p, exact)
<1>1. PICK g \in Marks(q), f \in Marks(d) :
        /\ Flow(g, q, exact) /\ Flow(f, d, exact)
        /\ \A m \in 1..Len(o) : o[m][2] < g[1]
        /\ exact => g[1] = Len(o)
        /\ Meets(g[Len(q) + 1], f[1], exact)
        /\ on => Meets(f[Len(d) + 1], p, exact)
  BY DEF Linked
<1>2. f[Len(d) + 1] \in Nat
  <2>1. Len(d) + 1 \in 1..(Len(d) + 1) OBVIOUS
  <2>2. QED BY <2>1 DEF Marks
<1>3. PICK b \in Nat : b = f[Len(d) + 1] BY <1>2
<1>4. Passes(f[Len(d) + 1], x, b, exact) BY <1>3 DEF Passes
<1>5. PICK h \in Marks(Append(d, x)) :
        /\ Flow(h, Append(d, x), exact)
        /\ h[1] = f[1] /\ h[Len(Append(d, x)) + 1] = b
  BY <1>1, <1>4, FlowAppend
<1>6. on => Meets(h[Len(Append(d, x)) + 1], p, exact) BY <1>1, <1>3, <1>5
<1>7. Meets(g[Len(q) + 1], h[1], exact) BY <1>1, <1>5
<1>8. QED BY <1>1, <1>5, <1>6, <1>7 DEF Linked

\* The reader takes the first frame off the connection and drops it.
LEMMA LinkSkips ==
  ASSUME NEW o, NEW q \in Seq(Frames), NEW d \in Seq(Frames), d # <<>>, NEW p \in Nat,
         NEW on, NEW exact \in BOOLEAN, Linked(o, q, d, on, p, exact),
         exact => Head(d).kind # "DATA"
  PROVE  Linked(o, q, Tail(d), on, p, exact)
<1>1. PICK g \in Marks(q), f \in Marks(d) :
        /\ Flow(g, q, exact) /\ Flow(f, d, exact)
        /\ \A m \in 1..Len(o) : o[m][2] < g[1]
        /\ exact => g[1] = Len(o)
        /\ Meets(g[Len(q) + 1], f[1], exact)
        /\ on => Meets(f[Len(d) + 1], p, exact)
  BY DEF Linked
<1>2. f[1] \in Nat /\ f[2] \in Nat /\ Passes(f[1], Head(d), f[2], exact) BY <1>1, FlowTail
<1>3. PICK h \in Marks(Tail(d)) :
        /\ Flow(h, Tail(d), exact)
        /\ h[1] = f[2] /\ h[Len(Tail(d)) + 1] = f[Len(d) + 1]
  BY <1>1, FlowTail
<1>4. Head(d).idx \in Nat
  <2>1. Head(d) \in Frames BY HeadTailProperties
  <2>2. QED BY <2>1 DEF Frames
<1>5. f[1] <= f[2] /\ (exact => f[1] = f[2]) BY <1>2, <1>4 DEF Passes
<1>6. g[Len(q) + 1] \in Nat
  <2>1. Len(q) + 1 \in 1..(Len(q) + 1) OBVIOUS
  <2>2. QED BY <2>1 DEF Marks
<1>7. Meets(g[Len(q) + 1], h[1], exact)
  <2> DEFINE a == g[Len(q) + 1]
  <2>1. a \in Nat /\ a <= f[1] /\ (exact => a = f[1]) BY <1>1, <1>6 DEF Meets
  <2> HIDE DEF a
  <2>2. a <= f[2] /\ (exact => a = f[2]) BY <1>2, <1>5, <2>1
  <2>3. QED BY <1>3, <2>2 DEF a, Meets
<1>8. on => Meets(h[Len(Tail(d)) + 1], p, exact) BY <1>1, <1>3
<1>9. QED BY <1>1, <1>3, <1>7, <1>8 DEF Linked

\* The reader hands the first frame to the download.
LEMMA LinkReads ==
  ASSUME NEW o, NEW q \in Seq(Frames), NEW d \in Seq(Frames), d # <<>>, NEW p \in Nat,
         NEW on, NEW exact \in BOOLEAN, Linked(o, q, d, on, p, exact)
  PROVE  Linked(o, Append(q, Head(d)), Tail(d), on, p, exact)
<1>1. PICK g \in Marks(q), f \in Marks(d) :
        /\ Flow(g, q, exact) /\ Flow(f, d, exact)
        /\ \A m \in 1..Len(o) : o[m][2] < g[1]
        /\ exact => g[1] = Len(o)
        /\ Meets(g[Len(q) + 1], f[1], exact)
        /\ on => Meets(f[Len(d) + 1], p, exact)
  BY DEF Linked
<1> DEFINE x == Head(d)
<1>2. f[1] \in Nat /\ f[2] \in Nat /\ Passes(f[1], x, f[2], exact) BY <1>1, FlowTail
<1>3. PICK h \in Marks(Tail(d)) :
        /\ Flow(h, Tail(d), exact)
        /\ h[1] = f[2] /\ h[Len(Tail(d)) + 1] = f[Len(d) + 1]
  BY <1>1, FlowTail
<1>4. x \in Frames BY HeadTailProperties
<1>5. x.idx \in Nat BY <1>4 DEF Frames
<1>6. g[Len(q) + 1] \in Nat
  <2>1. Len(q) + 1 \in 1..(Len(q) + 1) OBVIOUS
  <2>2. QED BY <2>1 DEF Marks
<1> HIDE DEF x
<1>7. Passes(g[Len(q) + 1], x, f[2], exact)
  <2> DEFINE a == g[Len(q) + 1]
  <2>1. a \in Nat /\ a <= f[1] /\ (exact => a = f[1]) BY <1>1, <1>6 DEF Meets
  <2> HIDE DEF a
  <2>2. Passes(a, x, f[2], exact) BY <1>2, <1>5, <2>1 DEF Passes
  <2>3. QED BY <2>2 DEF a
<1>8. PICK k \in Marks(Append(q, x)) :
        /\ Flow(k, Append(q, x), exact)
        /\ k[1] = g[1] /\ k[Len(Append(q, x)) + 1] = f[2]
  BY <1>1, <1>2, <1>4, <1>7, FlowAppend
<1>9. Meets(k[Len(Append(q, x)) + 1], h[1], exact) BY <1>2, <1>3, <1>8 DEF Meets
<1>10. on => Meets(h[Len(Tail(d)) + 1], p, exact) BY <1>1, <1>3
<1>11. Linked(o, Append(q, x), Tail(d), on, p, exact)
  BY <1>1, <1>3, <1>8, <1>9, <1>10 DEF Linked
<1>12. QED BY <1>11 DEF x

\* The download takes a chunk: its index is above all before, and the next one
\* as long as nothing was dropped.
LEMMA LinkTakes ==
  ASSUME NEW o \in Seq(Chunk), NEW q \in Seq(Frames), q # <<>>, NEW d \in Seq(Frames), NEW p \in Nat,
         NEW on, NEW exact \in BOOLEAN, Linked(o, q, d, on, p, exact),
         Head(q).kind = "DATA", DecryptChunk(Head(q))
  PROVE  /\ Linked(Append(o, Head(q).chunk), Tail(q), d, on, p, exact)
         /\ \A m \in 1..Len(o) : o[m][2] < Head(q).chunk[2]
         /\ exact => Head(q).chunk[2] = Len(o)
<1>1. PICK g \in Marks(q), f \in Marks(d) :
        /\ Flow(g, q, exact) /\ Flow(f, d, exact)
        /\ \A m \in 1..Len(o) : o[m][2] < g[1]
        /\ exact => g[1] = Len(o)
        /\ Meets(g[Len(q) + 1], f[1], exact)
        /\ on => Meets(f[Len(d) + 1], p, exact)
  BY DEF Linked
<1> DEFINE x == Head(q)
<1>2. g[1] \in Nat /\ g[2] \in Nat /\ Passes(g[1], x, g[2], exact) BY <1>1, FlowTail
<1>3. PICK h \in Marks(Tail(q)) :
        /\ Flow(h, Tail(q), exact)
        /\ h[1] = g[2] /\ h[Len(Tail(q)) + 1] = g[Len(q) + 1]
  BY <1>1, FlowTail
<1>4. x \in Frames BY HeadTailProperties
<1>5. x.kind = "DATA" /\ x.chunk # Garbage /\ x.chunk[2] = x.idx /\ x.idx \in Nat
      /\ x.chunk \in Chunk
  BY <1>4 DEF DecryptChunk, Frames
<1> HIDE DEF x
<1>6. /\ g[1] <= x.idx /\ x.idx < g[2]
      /\ exact => g[1] = x.idx /\ g[2] = x.idx + 1
  BY <1>2, <1>5 DEF Passes
<1> DEFINE l == Len(o)  t == Append(o, x.chunk)
<1>7. l \in Nat /\ Len(t) = l + 1 /\ t[l + 1] = x.chunk /\ \A m \in 1..l : t[m] = o[m]
  BY <1>5, AppendProperties
<1>8. \A m \in 1..l : o[m][2] \in Nat BY DEF Chunk
<1> HIDE DEF l, t
<1>9. \A m \in 1..l : o[m][2] < x.idx
  <2>1. \A m \in 1..l : o[m][2] < g[1] BY <1>1 DEF l
  <2>2. QED BY <1>2, <1>5, <1>6, <1>8, <2>1
<1>10. \A m \in 1..(l + 1) : t[m][2] < g[2]
  <2> SUFFICES ASSUME NEW m \in 1..(l + 1) PROVE t[m][2] < g[2] OBVIOUS
  <2>1. CASE m = l + 1 BY <1>5, <1>6, <1>7, <2>1
  <2>2. CASE m # l + 1
    <3>1. m \in 1..l BY <1>7, <2>2
    <3>2. t[m] = o[m] /\ o[m][2] < x.idx /\ o[m][2] \in Nat BY <1>7, <1>8, <1>9, <3>1
    <3>3. QED BY <1>2, <1>5, <1>6, <3>2
  <2>3. QED BY <2>1, <2>2
<1>11. exact => g[2] = l + 1 /\ x.idx = l BY <1>1, <1>2, <1>5, <1>6, <1>7 DEF l
<1>12. /\ \A m \in 1..Len(t) : t[m][2] < h[1]
       /\ exact => h[1] = Len(t)
  BY <1>3, <1>7, <1>10, <1>11
<1>13. Meets(h[Len(Tail(q)) + 1], f[1], exact) BY <1>1, <1>3
<1>14. Linked(t, Tail(q), d, on, p, exact)
  BY <1>1, <1>3, <1>12, <1>13 DEF Linked
<1>15. QED BY <1>5, <1>9, <1>11, <1>14 DEF l, t, x

-----------------------------------------------------------------------------
(* The downloads one after the other. *)

Silent == gets = 0 /\ ~serve.on
Offers(n) == \A i \in n..Len(down) : down[i].kind = "OFFER"
NothingComes == Silent /\ Offers(1)

\* The one stream of a download: its request, then the hub's frames, then FIN.
Stream(j) ==
  /\ fileGets = j
  /\ gets # 0 => gets = 1 /\ ~serve.on /\ Offers(1) /\ chan[j] = <<>> /\ out[j] = <<>>
  /\ \A n \in 1..Len(chan[j]) :
       /\ chan[j][n].kind \in {"DATA", "FIN"}
       /\ chan[j][n].kind = "FIN" => n = Len(chan[j]) /\ NothingComes
  /\ \A n \in 1..Len(down) : down[n].kind = "FIN" => Silent /\ Offers(n + 1)
  /\ Linked(out[j], chan[j], down, serve.on, Position, ~lost)

StartedInOrder == \A i, j \in Jobs : i < j /\ phase[j] # "none" => phase[i] # "none"

FreshJobs ==
  /\ \A j \in Jobs : phase[j] \in {"none", "start"} => out[j] = <<>> /\ chan[j] = <<>>
  /\ fileGets # 0 => phase[fileGets] \notin {"none", "start"}

\* As long as no download has failed, they do not overlap: the name is active
\* while one is under way, and when none is, none of its frames is either.
Last(j) == \A i \in Jobs : i > j => phase[i] = "none"
Alone == \A j \in Jobs : Undisturbed(j) /\ phase[j] \in {"start", "mux", "http", "ending"}
                           => downloading /\ Last(j)
Quiet == \A j \in Jobs : Undisturbed(j) /\ phase[j] \in {"none", "start", "ending", "done"}
                           /\ Last(j) => NothingComes
Streams == \A j \in Jobs : Undisturbed(j) /\ phase[j] = "mux" => Stream(j)

OrderInv == StartedInOrder /\ FreshJobs /\ Alone /\ Quiet /\ Streams /\ InOrder

LEMMA OrderInit == Init => OrderInv
<1> SUFFICES ASSUME Init PROVE OrderInv OBVIOUS
<1>1. /\ \A j \in Jobs : phase[j] = "none" /\ out[j] = <<>> /\ chan[j] = <<>>
      /\ fileGets = 0 /\ gets = 0 /\ serve.on = FALSE /\ down = <<>>
  BY DEF Init, NotServing
<1>2. NothingComes BY <1>1 DEF NothingComes, Silent, Offers
<1>3. InOrder BY <1>1 DEF InOrder
<1>4. QED BY <1>1, <1>2, <1>3
        DEF OrderInv, StartedInOrder, FreshJobs, Alone, Quiet, Streams

\* What most steps leave alone.
LEMMA OrderBystander ==
  ASSUME TypeOK, OrderInv, serve'.on = serve.on, serve'.pos = serve.pos,
         UNCHANGED <<gets, relayed, downloads>>
  PROVE  OrderInv'
<1>1. UNCHANGED <<gets, down, lost, downloading, fileGets, phase, chan, out>>
  BY DEF relayed, downloads
<1>2. (Silent <=> Silent') /\ (NothingComes <=> NothingComes') /\ \A n : Offers(n) <=> Offers(n)'
  BY <1>1 DEF Silent, NothingComes, Offers
<1>3. \A j \in Jobs : (Undisturbed(j) <=> Undisturbed(j)') /\ (Last(j) <=> Last(j)')
  BY <1>1 DEF Undisturbed, Last
<1>4. Position' = Position BY DEF Position
<1>5. \A j \in Jobs : Stream(j) => Stream(j)'
  <2> SUFFICES ASSUME NEW j \in Jobs, Stream(j) PROVE Stream(j)' OBVIOUS
  <2>1. Linked(out'[j], chan'[j], down', serve'.on, Position', ~lost')
    BY <1>1, <1>4 DEF Stream
  <2>2. \A n \in 1..Len(down) : down[n].kind = "FIN" => Silent /\ Offers(n + 1) BY DEF Stream
  <2>3. \A n \in 1..Len(down') : down'[n].kind = "FIN" => Silent' /\ Offers(n + 1)'
    BY <1>1, <1>2, <2>2 DEF Offers
  <2>4. QED BY <1>1, <1>2, <2>1, <2>3 DEF Stream, Offers
<1>6. InOrder' BY <1>1, <1>3 DEF OrderInv, InOrder
<1>7. QED BY <1>1, <1>2, <1>3, <1>5, <1>6
        DEF OrderInv, StartedInOrder, FreshJobs, Alone, Quiet, Streams

\* The steps that move a frame, and no download.
LEMMA OrderFrame ==
  ASSUME TypeOK, OrderInv, UNCHANGED <<downloading, fileGets, phase>>,
         NothingComes => NothingComes', InOrder',
         \A j \in Jobs : phase[j] \in {"none", "start"} => out'[j] = out[j] /\ chan'[j] = chan[j],
         \A j \in Jobs : phase[j] = "mux" /\ Undisturbed(j) /\ Stream(j) => Stream(j)'
  PROVE  OrderInv'
<1>1. \A j \in Jobs : (Undisturbed(j) <=> Undisturbed(j)') /\ (Last(j) <=> Last(j)')
  BY DEF Undisturbed, Last
<1>2. FreshJobs' BY DEF OrderInv, FreshJobs
<1>3. QED BY <1>1, <1>2 DEF OrderInv, StartedInOrder, Alone, Quiet, Streams

LEMMA OrderKept ==
  ASSUME TypeOK, InOrder, out' = out, lost => lost',
         \A j \in Jobs : Undisturbed(j)' => Undisturbed(j) \/ out[j] = <<>>
  PROVE  InOrder'
<1> SUFFICES ASSUME NEW j \in Jobs, Undisturbed(j)', NEW n \in 1..Len(out[j])
             PROVE  /\ \A m \in 1..(n - 1) : out[j][m][2] < out[j][n][2]
                    /\ ~lost' => out[j][n][2] = n - 1
  BY DEF InOrder
<1>1. Undisturbed(j) OBVIOUS
<1>2. QED BY <1>1 DEF InOrder

LEMMA Sent ==
  ASSUME TypeOK, NEW x \in Frames, SendMessage(x)
  PROVE  /\ Len(down) \in Nat /\ (lost => lost') /\ lost \in BOOLEAN
         /\ \/ /\ down' = Append(down, x) /\ lost' = lost
               /\ Len(down') = Len(down) + 1 /\ down'[Len(down) + 1] = x
               /\ \A i \in 1..Len(down) : down'[i] = down[i]
            \/ down' = down /\ lost' = TRUE
<1>1. down \in Seq(Frames) /\ lost \in BOOLEAN /\ DownCap \in Nat BY VaultAssumption DEF TypeOK
<1>2. Len(down) \in Nat BY <1>1
<1>3. CASE Len(down) < DownCap
  <2>1. down' = Append(down, x) /\ lost' = lost BY <1>1, <1>2, <1>3 DEF SendMessage
  <2>2. QED BY <1>1, <1>2, <2>1, AppendProperties
<1>4. CASE ~(Len(down) < DownCap)
  <2>1. Len(down) >= DownCap BY <1>1, <1>2, <1>4
  <2>2. down' = down /\ lost' = TRUE BY <1>4, <2>1 DEF SendMessage
  <2>3. QED BY <1>1, <1>2, <2>2
<1>5. QED BY <1>3, <1>4

\* Whose request, stream and offers are unchanged.
LEMMA OfferOrdered == ASSUME TypeOK, OrderInv, NEW c \in Clients, HandleOffer(c) PROVE OrderInv'
<1> DEFINE x == [kind |-> "OFFER", idx |-> 0, chunk |-> NoChunk]
<1>1. x \in Frames /\ x.kind = "OFFER" BY FrameTypes, UploadNumbers
<1>2. /\ SendMessage(x)
      /\ UNCHANGED <<gets, serve, downloading, fileGets, phase, chan, out>>
  BY DEF HandleOffer, downloads
<1> HIDE DEF x
<1>3. /\ Len(down) \in Nat /\ (lost => lost') /\ lost \in BOOLEAN
      /\ \/ /\ down' = Append(down, x) /\ lost' = lost
            /\ Len(down') = Len(down) + 1 /\ down'[Len(down) + 1] = x
            /\ \A i \in 1..Len(down) : down'[i] = down[i]
         \/ down' = down /\ lost' = TRUE
  BY <1>1, <1>2, Sent
<1>4. \A n \in Nat \ {0} : Offers(n) => Offers(n)'
  <2> SUFFICES ASSUME NEW n \in Nat \ {0}, Offers(n), NEW i \in n..Len(down')
               PROVE  down'[i].kind = "OFFER"
    BY DEF Offers
  <2>1. CASE down' = down BY <2>1 DEF Offers
  <2>2. CASE i \in 1..Len(down) /\ down'[i] = down[i] BY <2>2 DEF Offers
  <2>3. CASE i = Len(down) + 1 /\ down'[i] = x BY <1>1, <2>3
  <2>4. QED
    <3> DEFINE l == Len(down)  k == Len(down')
    <3>1. l \in Nat /\ i \in n..k /\ (k = l + 1 \/ down' = down) BY <1>3
    <3> HIDE DEF l, k
    <3>2. i \in 1..l \/ i = l + 1 \/ down' = down BY <3>1
    <3>3. QED BY <1>3, <2>1, <2>2, <2>3, <3>2 DEF l
<1>5. (Silent <=> Silent') /\ (NothingComes => NothingComes')
  BY <1>2, <1>4 DEF Silent, NothingComes
<1>6. ASSUME NEW j \in Jobs, Stream(j) PROVE Stream(j)'
  <2>1. Linked(out[j], chan[j], down, serve.on, Position, ~lost) BY <1>6 DEF Stream
  <2>2. /\ out[j] \in Seq(Chunk) /\ chan[j] \in Seq(Frames) /\ down \in Seq(Frames)
        /\ Position \in Nat
    BY OpenTypes DEF TypeOK
  <2>3. Linked(out[j], chan[j], down', serve.on, Position, ~lost')
    <3>1. CASE down' = Append(down, x) /\ lost' = lost
      BY <1>1, <2>1, <2>2, <3>1, LinkOffers
    <3>2. CASE down' = down /\ lost' = TRUE
      <4> DEFINE e == ~lost  less == ~lost'
      <4>1. /\ e \in BOOLEAN /\ less \in BOOLEAN /\ ~less /\ serve.on \in BOOLEAN
            /\ Linked(out[j], chan[j], down, serve.on, Position, e)
        BY <2>1, <3>2 DEF TypeOK
      <4> HIDE DEF e, less
      <4>2. Linked(out[j], chan[j], down, serve.on, Position, less) BY <2>2, <4>1, LinkLoses
      <4>3. QED BY <3>2, <4>2 DEF less
    <3>3. QED BY <1>3, <3>1, <3>2
  <2>4. Position' = Position BY <1>2 DEF Position
  <2>5. ASSUME NEW n \in 1..Len(down'), down'[n].kind = "FIN" PROVE Silent' /\ Offers(n + 1)'
    <3>1. n \in 1..Len(down) /\ down'[n] = down[n]
      <4> DEFINE l == Len(down)
      <4>1. \/ down' = down \/ (n \in 1..(l + 1) /\ down'[l + 1] = x)
        BY <1>3
      <4>2. l \in Nat /\ x.kind # "FIN" BY <1>1, <1>3
      <4> HIDE DEF l
      <4>3. down' = down \/ n \in 1..l BY <2>5, <4>1, <4>2
      <4>4. QED BY <1>3, <4>3 DEF l
    <3>2. Silent /\ Offers(n + 1) BY <1>6, <2>5, <3>1 DEF Stream
    <3>3. QED BY <1>4, <1>5, <3>2
  <2>6. QED BY <1>2, <1>4, <1>5, <1>6, <2>3, <2>4, <2>5 DEF Stream
<1>7. InOrder'
  <2>1. \A j \in Jobs : Undisturbed(j)' => Undisturbed(j) BY <1>2 DEF Undisturbed
  <2>2. QED BY <1>2, <1>3, <2>1, OrderKept DEF OrderInv
<1>8. QED BY <1>2, <1>5, <1>6, <1>7, OrderFrame

LEMMA GetOrdered == ASSUME TypeOK, TypeOK', OrderInv, HandleGet PROVE OrderInv'
<1>1. /\ gets # 0 /\ gets' = gets - 1 /\ gets \in Nat
      /\ UNCHANGED <<down, lost, downloading, fileGets, phase, chan, out>>
  BY DEF HandleGet, relayed, downloads, TypeOK
<1>2. (serve'.on => serve'.pos = 0) /\ serve.on = FALSE
  BY DEF HandleGet, NotServing, TypeOK
<1>3. ~NothingComes BY <1>1 DEF NothingComes, Silent
<1>4. ASSUME NEW j \in Jobs, Stream(j) PROVE Stream(j)'
  <2>1. gets' = 0 /\ Offers(1) /\ chan[j] = <<>> /\ out[j] = <<>> /\ fileGets = j
    BY <1>1, <1>4 DEF Stream
  <2>2. down \in Seq(Frames) /\ \A n \in 1..Len(down) : down[n].kind = "OFFER"
    BY <2>1 DEF Offers, TypeOK
  <2>3. Position' \in Nat /\ (serve'.on => Position' = 0)
    <3>1. serve'.pos \in Nat BY DEF TypeOK
    <3>2. QED BY <1>2, <3>1 DEF Position
  <2>4. Linked(<<>>, <<>>, down, serve'.on, Position', ~lost)
    <3> DEFINE e == ~lost
    <3>1. e \in BOOLEAN BY DEF TypeOK
    <3> HIDE DEF e
    <3>2. Linked(<<>>, <<>>, down, serve'.on, Position', e) BY <2>2, <2>3, <3>1, LinkStarts
    <3>3. QED BY <3>2 DEF e
  <2>5. Linked(out'[j], chan'[j], down', serve'.on, Position', ~lost') BY <1>1, <2>1, <2>4
  <2>6. \A n \in 1..Len(chan'[j]) : FALSE BY <1>1, <2>1
  <2>7. \A n \in 1..Len(down') : down'[n].kind # "FIN" BY <1>1, <2>2
  <2>8. QED BY <1>1, <2>1, <2>5, <2>6, <2>7 DEF Stream
<1>5. InOrder'
  <2>1. \A j \in Jobs : Undisturbed(j)' => Undisturbed(j) BY <1>1 DEF Undisturbed
  <2>2. QED BY <1>1, <2>1, OrderKept DEF OrderInv
<1>6. QED BY <1>1, <1>3, <1>4, <1>5, OrderFrame

\* handleFileGet goes forward, by one chunk or to the end.
LEMMA ServeAdvances ==
  ASSUME TypeOK, ServeChunk
  PROVE  /\ Position \in Nat /\ Position' \in Nat /\ Position < Position'
         /\ ReadChunk # Garbage => Position' = Position + 1
<1>1. ~AtEnd /\ serve' = [serve EXCEPT !.pos = IF ReadChunk = Garbage THEN Len(Open) ELSE serve.pos + 2]
  BY DEF ServeChunk
<1>2. serve.pos + 2 \in 1..Len(Open) /\ Len(Open) \in Nat /\ serve.pos \in Nat
  BY <1>1, OpenTypes DEF TypeOK
<1> DEFINE p == serve.pos  r == serve'.pos  l == Len(Open)
<1>3. /\ p \in Nat /\ l \in Nat /\ p + 2 <= l
      /\ r = IF ReadChunk = Garbage THEN l ELSE p + 2
  BY <1>1, <1>2 DEF TypeOK
<1>4. Position = p \div 2 /\ Position' = r \div 2 BY DEF Position
<1> HIDE DEF p, r, l
<1>5. \A k \in Nat : (k + 2) \div 2 = (k \div 2) + 1 OBVIOUS
<1>6. r \in Nat /\ p + 2 <= r BY <1>3
<1>7. p \div 2 \in Nat /\ r \div 2 \in Nat /\ p \div 2 < r \div 2 BY <1>3, <1>6
<1>8. ReadChunk # Garbage => r \div 2 = (p \div 2) + 1 BY <1>3, <1>5
<1>9. QED BY <1>4, <1>7, <1>8

LEMMA ChunkOrdered == ASSUME TypeOK, OrderInv, ServeChunk PROVE OrderInv'
<1> DEFINE x == [kind |-> "DATA", idx |-> Position, chunk |-> ReadChunk]
<1>1. /\ serve.on /\ ~AtEnd /\ SendMessage(x)
      /\ UNCHANGED <<gets, downloading, fileGets, phase, chan, out>>
  BY DEF ServeChunk, downloads
<1>2. serve.on = TRUE /\ serve'.on = TRUE BY DEF ServeChunk, TypeOK
<1>3. x \in Frames /\ x.kind = "DATA" /\ x.idx = Position /\ x.chunk = ReadChunk
  BY <1>1, OpenTypes, FrameTypes
<1> HIDE DEF x
<1>4. /\ Len(down) \in Nat /\ (lost => lost') /\ lost \in BOOLEAN
      /\ \/ /\ down' = Append(down, x) /\ lost' = lost
            /\ Len(down') = Len(down) + 1 /\ down'[Len(down) + 1] = x
            /\ \A i \in 1..Len(down) : down'[i] = down[i]
         \/ down' = down /\ lost' = TRUE
  BY <1>1, <1>3, Sent
<1>5. ~Silent BY <1>1 DEF Silent
<1>6. ASSUME NEW j \in Jobs, Stream(j) PROVE Stream(j)'
  <2> DEFINE e == ~lost  less == ~lost'  p == Position  r == Position'
  <2>1. /\ out[j] \in Seq(Chunk) /\ chan[j] \in Seq(Frames) /\ down \in Seq(Frames)
        /\ e \in BOOLEAN /\ less \in BOOLEAN /\ Linked(out[j], chan[j], down, TRUE, p, e)
    BY <1>2, <1>4, <1>6 DEF Stream, TypeOK
  <2>2. p \in Nat /\ r \in Nat /\ p < r /\ x.idx = p /\ (x.chunk # Garbage => r = p + 1)
    BY <1>3, ServeAdvances
  <2>3. Linked(out[j], chan[j], down', TRUE, r, less)
    <3>1. CASE down' = Append(down, x) /\ lost' = lost
      <4>1. e = less BY <1>4, <3>1
      <4> HIDE DEF e, less, p, r
      <4>2. Linked(out[j], chan[j], Append(down, x), TRUE, r, e)
        BY <1>3, <2>1, <2>2, LinkSends
      <4>3. QED BY <3>1, <4>1, <4>2
    <3>2. CASE down' = down /\ lost' = TRUE
      <4> DEFINE on == serve.on
      <4>1. ~less /\ on = TRUE /\ on \in BOOLEAN /\ Linked(out[j], chan[j], down, on, p, e)
        BY <1>2, <1>6, <3>2 DEF Stream
      <4> HIDE DEF e, less, p, r, on
      <4>2. p \in Nat /\ r \in Nat /\ p <= r BY <2>2
      <4>3. /\ out[j] \in Seq(Chunk) /\ chan[j] \in Seq(Frames) /\ down \in Seq(Frames)
            /\ e \in BOOLEAN /\ less \in BOOLEAN
        BY <2>1
      <4>4. Linked(out[j], chan[j], down, on, r, less) BY <4>1, <4>2, <4>3, LinkWeakens
      <4>5. QED BY <3>2, <4>1, <4>4
    <3>3. QED BY <1>4, <3>1, <3>2
  <2>4. Linked(out'[j], chan'[j], down', serve'.on, Position', ~lost') BY <1>1, <1>2, <2>3
  <2>5. gets = 0 BY <1>1, <1>6 DEF Stream
  <2>6. \A n \in 1..Len(chan[j]) : chan[j][n].kind = "DATA"
    BY <1>5, <1>6 DEF Stream, NothingComes
  <2>7. \A n \in 1..Len(down') : down'[n].kind # "FIN"
    <3> DEFINE l == Len(down)
    <3>1. l \in Nat /\ x.kind # "FIN" BY <1>3, <1>4
    <3>2. \A n \in 1..l : down[n].kind # "FIN" BY <1>5, <1>6 DEF Stream
    <3>3. CASE down' = down BY <3>2, <3>3
    <3>4. CASE /\ Len(down') = l + 1 /\ down'[l + 1] = x
               /\ \A i \in 1..l : down'[i] = down[i]
      <4> HIDE DEF l
      <4>1. QED BY <3>1, <3>2, <3>4
    <3>5. QED BY <1>4, <3>3, <3>4
  <2>8. QED BY <1>1, <1>6, <2>4, <2>5, <2>6, <2>7 DEF Stream
<1>7. InOrder'
  <2>1. \A j \in Jobs : Undisturbed(j)' => Undisturbed(j) BY <1>1 DEF Undisturbed
  <2>2. QED BY <1>1, <1>4, <2>1, OrderKept DEF OrderInv
<1>8. QED BY <1>1, <1>5, <1>6, <1>7, OrderFrame DEF NothingComes

LEMMA FinOrdered == ASSUME TypeOK, OrderInv, ServeFin PROVE OrderInv'
<1> DEFINE x == [kind |-> "FIN", idx |-> Position, chunk |-> NoChunk]
<1>1. /\ serve.on /\ SendMessage(x)
      /\ UNCHANGED <<gets, downloading, fileGets, phase, chan, out>>
  BY DEF ServeFin, downloads
<1>2. serve.on = TRUE /\ serve'.on = FALSE /\ serve'.pos = 0
  BY DEF ServeFin, NotServing, TypeOK
<1>3. x \in Frames /\ x.kind = "FIN" /\ x.idx = Position
  BY OpenTypes, FrameTypes, UploadNumbers
<1> HIDE DEF x
<1>4. /\ Len(down) \in Nat /\ (lost => lost') /\ lost \in BOOLEAN
      /\ \/ /\ down' = Append(down, x) /\ lost' = lost
            /\ Len(down') = Len(down) + 1 /\ down'[Len(down) + 1] = x
            /\ \A i \in 1..Len(down) : down'[i] = down[i]
         \/ down' = down /\ lost' = TRUE
  BY <1>1, <1>3, Sent
<1>5. ~Silent BY <1>1 DEF Silent
<1>6. ASSUME NEW j \in Jobs, Stream(j) PROVE Stream(j)'
  <2> DEFINE e == ~lost  less == ~lost'  p == Position  now == serve'.on
  <2>1. /\ out[j] \in Seq(Chunk) /\ chan[j] \in Seq(Frames) /\ down \in Seq(Frames)
        /\ e \in BOOLEAN /\ less \in BOOLEAN /\ Linked(out[j], chan[j], down, TRUE, p, e)
    BY <1>2, <1>4, <1>6 DEF Stream, TypeOK
  <2>2. p \in Nat /\ x.idx = p /\ ~now /\ now \in BOOLEAN BY <1>2, <1>3, OpenTypes
  <2>3. Position' \in Nat BY <1>2 DEF Position
  <2>4. Linked(out[j], chan[j], down', now, Position', less)
    <3>1. CASE down' = Append(down, x) /\ lost' = lost
      <4>1. e = less BY <1>4, <3>1
      <4> HIDE DEF e, less, p, now
      <4>2. Linked(out[j], chan[j], Append(down, x), now, Position', e)
        BY <1>3, <2>1, <2>2, <2>3, LinkSends
      <4>3. QED BY <3>1, <4>1, <4>2
    <3>2. CASE down' = down /\ lost' = TRUE
      <4> DEFINE on == serve.on
      <4>1. ~less /\ on \in BOOLEAN /\ Linked(out[j], chan[j], down, on, p, e)
        BY <1>2, <1>6, <3>2 DEF Stream
      <4> HIDE DEF e, less, p, now, on
      <4>2. Linked(out[j], chan[j], down, now, p, less) BY <2>1, <2>2, <4>1, LinkWeakens
      <4>3. Linked(out[j], chan[j], down, now, Position', less) BY <2>2, <4>2 DEF Linked
      <4>4. QED BY <3>2, <4>3
    <3>3. QED BY <1>4, <3>1, <3>2
  <2>5. Linked(out'[j], chan'[j], down', serve'.on, Position', ~lost') BY <1>1, <2>4
  <2>6. gets = 0 /\ Silent' BY <1>1, <1>2, <1>6 DEF Stream, Silent
  <2>7. \A n \in 1..Len(chan[j]) : chan[j][n].kind = "DATA"
    BY <1>5, <1>6 DEF Stream, NothingComes
  <2>8. ASSUME NEW n \in 1..Len(down'), down'[n].kind = "FIN" PROVE Offers(n + 1)'
    <3> DEFINE l == Len(down)
    <3>1. l \in Nat /\ \A i \in 1..l : down[i].kind # "FIN" BY <1>4, <1>5, <1>6 DEF Stream
    <3>2. CASE down' = down BY <2>8, <3>1, <3>2
    <3>3. CASE /\ Len(down') = l + 1 /\ down'[l + 1] = x
               /\ \A i \in 1..l : down'[i] = down[i]
      <4> HIDE DEF l
      <4>1. n = l + 1 BY <2>8, <3>1, <3>3
      <4>2. \A i : i \notin (n + 1)..Len(down') BY <3>1, <3>3, <4>1
      <4>3. QED BY <4>2 DEF Offers
    <3>4. QED BY <1>4, <3>2, <3>3
  <2>9. QED BY <1>1, <1>6, <2>5, <2>6, <2>7, <2>8 DEF Stream
<1>7. InOrder'
  <2>1. \A j \in Jobs : Undisturbed(j)' => Undisturbed(j) BY <1>1 DEF Undisturbed
  <2>2. QED BY <1>1, <1>4, <2>1, OrderKept DEF OrderInv
<1>8. QED BY <1>1, <1>5, <1>6, <1>7, OrderFrame DEF NothingComes

\* The reader takes the first frame: what is behind it moves up.
LEMMA DownTail ==
  ASSUME TypeOK, down # <<>>, down' = Tail(down)
  PROVE  /\ Head(down) \in Frames /\ Head(down) = down[1] /\ 1 \in 1..Len(down)
         /\ \A n \in 1..Len(down') : n + 1 \in 1..Len(down) /\ down'[n] = down[n + 1]
         /\ \A n \in Nat \ {0} : Offers(n + 1) => Offers(n)'
         /\ \A n \in Nat \ {0} : Offers(n) => Offers(n)'
<1> DEFINE l == Len(down)  t == Tail(down)
<1>1. down \in Seq(Frames) BY DEF TypeOK
<1>2. /\ l \in Nat /\ l # 0 /\ Len(t) = l - 1 /\ Head(down) \in Frames /\ Head(down) = down[1]
      /\ \A n \in 1..(l - 1) : t[n] = down[n + 1]
  BY <1>1
<1> HIDE DEF l, t
<1>3. 1 \in 1..l /\ \A n \in 1..(l - 1) : n + 1 \in 1..l BY <1>2
<1>4. \A n \in 1..Len(down') : n + 1 \in 1..l /\ down'[n] = down[n + 1] BY <1>2, <1>3 DEF t
<1>5. ASSUME NEW n \in Nat \ {0}, Offers(n) \/ Offers(n + 1) PROVE Offers(n)'
  <2> SUFFICES ASSUME NEW i \in n..Len(down') PROVE down'[i].kind = "OFFER" BY DEF Offers
  <2>1. i \in 1..(l - 1) /\ i + 1 \in (n + 1)..l /\ i + 1 \in n..l BY <1>2 DEF t
  <2>2. down[i + 1].kind = "OFFER" BY <1>5, <2>1 DEF Offers, l
  <2>3. QED BY <1>4, <2>2
<1>6. QED BY <1>2, <1>3, <1>4, <1>5 DEF l

LEMMA IgnoredOrdered ==
  ASSUME TypeOK, OrderInv, down # <<>>, Head(down).kind = "OFFER", down' = Tail(down),
         UNCHANGED <<gets, serve, lost, downloading, fileGets, phase, chan, out>>
  PROVE  OrderInv'
<1>1. /\ \A n \in 1..Len(down') : n + 1 \in 1..Len(down) /\ down'[n] = down[n + 1]
      /\ \A n \in Nat \ {0} : Offers(n + 1) => Offers(n)'
      /\ \A n \in Nat \ {0} : Offers(n) => Offers(n)'
  BY DownTail
<1>2. (Silent <=> Silent') /\ (NothingComes => NothingComes')
  BY <1>1 DEF Silent, NothingComes
<1>3. Position' = Position BY DEF Position
<1>4. ASSUME NEW j \in Jobs, Stream(j) PROVE Stream(j)'
  <2> DEFINE e == ~lost  on == serve.on  p == Position
  <2>1. /\ out[j] \in Seq(Chunk) /\ chan[j] \in Seq(Frames) /\ down \in Seq(Frames)
        /\ e \in BOOLEAN /\ p \in Nat /\ Linked(out[j], chan[j], down, on, p, e)
    BY <1>4, OpenTypes DEF Stream, TypeOK
  <2> HIDE DEF e, on, p
  <2>2. Linked(out[j], chan[j], Tail(down), on, p, e) BY <2>1, LinkSkips
  <2>3. Linked(out'[j], chan'[j], down', serve'.on, Position', ~lost')
    BY <1>3, <2>2 DEF e, on, p
  <2>4. ASSUME NEW n \in 1..Len(down'), down'[n].kind = "FIN" PROVE Silent' /\ Offers(n + 1)'
    <3>1. n + 1 \in 1..Len(down) /\ down[n + 1].kind = "FIN" /\ n + 1 \in Nat \ {0}
      BY <1>1, <2>4
    <3>2. Silent /\ Offers((n + 1) + 1) BY <1>4, <3>1 DEF Stream
    <3>3. QED BY <1>1, <1>2, <3>1, <3>2
  <2>5. QED BY <1>1, <1>2, <1>4, <2>3, <2>4 DEF Stream
<1>5. InOrder'
  <2>1. \A j \in Jobs : Undisturbed(j)' => Undisturbed(j) BY DEF Undisturbed
  <2>2. QED BY <2>1, OrderKept DEF OrderInv
<1>6. QED BY <1>2, <1>4, <1>5, OrderFrame

LEMMA DataOrdered == ASSUME TypeOK, OrderInv, ReadData PROVE OrderInv'
<1> DEFINE x == Head(down)
<1>1. /\ down # <<>> /\ x.kind # "OFFER" /\ down' = Tail(down)
      /\ UNCHANGED <<gets, serve, downloading, fileGets, phase, out>>
  BY DEF ReadData
<1>2. /\ x \in Frames /\ x = down[1] /\ 1 \in 1..Len(down)
      /\ \A n \in 1..Len(down') : n + 1 \in 1..Len(down) /\ down'[n] = down[n + 1]
      /\ \A n \in Nat \ {0} : Offers(n + 1) => Offers(n)'
  BY <1>1, DownTail
<1>3. x.kind \in {"DATA", "FIN"} BY <1>1, <1>2 DEF Frames
<1>4. ~NothingComes BY <1>1, <1>2 DEF NothingComes, Offers
<1>5. (Silent <=> Silent') /\ Position' = Position BY <1>1 DEF Silent, Position
<1>6. lost => lost' BY DEF ReadData
<1>7. \A j \in Jobs : j # fileGets => chan'[j] = chan[j] BY DEF ReadData, TypeOK
<1>8. \A j \in Jobs : phase[j] \in {"none", "start"} => chan'[j] = chan[j]
  <2>1. 0 \notin Jobs BY UploadNumbers DEF Jobs
  <2>2. \A j \in Jobs : j = fileGets => phase[j] \notin {"none", "start"}
    BY <2>1 DEF OrderInv, FreshJobs
  <2>3. QED BY <1>7, <2>2
<1> HIDE DEF x
<1>9. ASSUME NEW j \in Jobs, Stream(j) PROVE Stream(j)'
  <2> DEFINE e == ~lost  less == ~lost'  on == serve.on  p == Position  l == Len(chan[j])
  <2>1. /\ out[j] \in Seq(Chunk) /\ chan[j] \in Seq(Frames) /\ down \in Seq(Frames)
        /\ e \in BOOLEAN /\ p \in Nat /\ on \in BOOLEAN
        /\ Linked(out[j], chan[j], down, on, p, e)
    BY <1>9, OpenTypes DEF Stream, TypeOK
  <2>2. less \in BOOLEAN BY DEF ReadData, TypeOK
  <2>3. fileGets = j /\ j # 0 /\ gets = 0 /\ l \in Nat
    <3>1. ~Offers(1) BY <1>1, <1>2 DEF Offers
    <3>2. QED BY <1>9, <2>1, <3>1, UploadNumbers DEF Stream, Jobs
  <2>4. \A n \in 1..l : chan[j][n].kind = "DATA" BY <1>4, <1>9 DEF Stream
  <2>5. x.kind = "FIN" => NothingComes'
    <3>1. x.kind = "FIN" => Silent /\ Offers(1 + 1) BY <1>2, <1>9 DEF Stream
    <3>2. x.kind = "FIN" => Silent' /\ Offers(1)' BY <1>2, <1>5, <3>1
    <3>3. QED BY <3>2 DEF NothingComes
  <2>6. ASSUME NEW n \in 1..Len(down'), down'[n].kind = "FIN" PROVE Silent' /\ Offers(n + 1)'
    <3>1. n + 1 \in 1..Len(down) /\ down[n + 1].kind = "FIN" /\ n + 1 \in Nat \ {0}
      BY <1>2, <2>6
    <3>2. Silent /\ Offers((n + 1) + 1) BY <1>9, <3>1 DEF Stream
    <3>3. QED BY <1>2, <1>5, <3>1, <3>2
  <2>7. CASE HasRoom
    <3>1. chan' = [chan EXCEPT ![j] = Append(chan[j], x)] /\ lost' = lost
      BY <2>3, <2>7 DEF ReadData, Registered, x, TypeOK
    <3>2. chan'[j] = Append(chan[j], x) /\ e = less BY <3>1 DEF TypeOK
    <3>3. Linked(out[j], Append(chan[j], x), Tail(down), on, p, e)
      <4> HIDE DEF e, on, p
      <4>1. QED BY <1>1, <2>1, LinkReads DEF x
    <3>4. Linked(out'[j], chan'[j], down', serve'.on, Position', ~lost')
      BY <1>1, <1>5, <3>2, <3>3
    <3>5. /\ Len(chan'[j]) = l + 1 /\ chan'[j][l + 1] = x
          /\ \A n \in 1..l : chan'[j][n] = chan[j][n]
      BY <1>2, <2>1, <3>2, AppendProperties
    <3>6. \A n \in 1..Len(chan'[j]) :
            /\ chan'[j][n].kind \in {"DATA", "FIN"}
            /\ chan'[j][n].kind = "FIN" => n = Len(chan'[j]) /\ NothingComes'
      <4> HIDE DEF l
      <4> SUFFICES ASSUME NEW n \in 1..(l + 1)
                   PROVE  /\ chan'[j][n].kind \in {"DATA", "FIN"}
                          /\ chan'[j][n].kind = "FIN" => n = l + 1 /\ NothingComes'
        BY <3>5
      <4>1. n \in 1..l \/ n = l + 1 BY <2>3
      <4>2. QED BY <1>3, <2>4, <2>5, <3>5, <4>1
    <3>7. QED BY <1>1, <2>3, <2>6, <3>4, <3>6 DEF Stream
  <2>8. CASE ~HasRoom
    <3>1. chan' = chan /\ lost' = TRUE BY <2>3, <2>8 DEF ReadData, Registered
    <3>2. Linked(out[j], chan[j], Tail(down), on, p, less)
      <4>1. ~less BY <3>1
      <4> HIDE DEF e, less, on, p
      <4>2. Linked(out[j], chan[j], down, on, p, less) BY <2>1, <2>2, <4>1, LinkLoses
      <4>3. QED BY <1>1, <2>1, <2>2, <4>1, <4>2, LinkSkips
    <3>3. Linked(out'[j], chan'[j], down', serve'.on, Position', ~lost')
      BY <1>1, <1>5, <3>1, <3>2
    <3>4. QED BY <1>1, <2>3, <2>4, <2>6, <3>1, <3>3 DEF Stream
  <2>9. QED BY <2>7, <2>8
<1>10. InOrder'
  <2>1. \A j \in Jobs : Undisturbed(j)' => Undisturbed(j) BY <1>1 DEF Undisturbed
  <2>2. QED BY <1>1, <1>6, <2>1, OrderKept DEF OrderInv
<1>11. QED BY <1>1, <1>4, <1>8, <1>9, <1>10, OrderFrame

\* A chunk that decrypts is written.
LEMMA TakeOrdered ==
  ASSUME TypeOK, OrderInv, NEW j \in Jobs, TakeData(j), DecryptChunk(Head(chan[j]))
  PROVE  OrderInv'
<1> DEFINE x == Head(chan[j])
<1>1. /\ phase[j] = "mux" /\ chan[j] # <<>> /\ x.kind = "DATA"
      /\ out' = [out EXCEPT ![j] = Append(out[j], x.chunk)]
      /\ chan' = [chan EXCEPT ![j] = Tail(chan[j])]
      /\ UNCHANGED <<gets, serve, down, lost, fileGets, downloading, phase>>
  BY DEF TakeData, relayed
<1>2. /\ out'[j] = Append(out[j], x.chunk) /\ chan'[j] = Tail(chan[j])
      /\ \A i \in Jobs : i # j => out'[i] = out[i] /\ chan'[i] = chan[i]
  BY <1>1 DEF TypeOK
<1>3. (Silent <=> Silent') /\ (NothingComes <=> NothingComes') /\ Position' = Position
  BY <1>1 DEF Silent, NothingComes, Offers, Position
<1>4. \A n : Offers(n) <=> Offers(n)' BY <1>1 DEF Offers
<1>5. /\ out[j] \in Seq(Chunk) /\ chan[j] \in Seq(Frames) /\ down \in Seq(Frames)
      /\ serve.on \in BOOLEAN /\ Position \in Nat
  BY OpenTypes DEF TypeOK
<1>6. ASSUME Stream(j)
      PROVE  /\ Linked(out'[j], chan'[j], down', serve'.on, Position', ~lost')
             /\ \A m \in 1..Len(out[j]) : out[j][m][2] < x.chunk[2]
             /\ ~lost => x.chunk[2] = Len(out[j])
  <2> DEFINE e == ~lost  on == serve.on  p == Position  q == chan[j]  o == out[j]
  <2>1. /\ o \in Seq(Chunk) /\ q \in Seq(Frames) /\ q # <<>> /\ down \in Seq(Frames)
        /\ p \in Nat /\ e \in BOOLEAN /\ Linked(o, q, down, on, p, e)
        /\ Head(q).kind = "DATA" /\ DecryptChunk(Head(q))
    BY <1>1, <1>5, <1>6 DEF Stream, TypeOK
  <2> HIDE DEF e, on, p, q, o
  <2>2. /\ Linked(Append(o, Head(q).chunk), Tail(q), down, on, p, e)
        /\ \A m \in 1..Len(o) : o[m][2] < Head(q).chunk[2]
        /\ e => Head(q).chunk[2] = Len(o)
    BY <2>1, LinkTakes
  <2>3. QED BY <1>1, <1>2, <1>3, <2>2 DEF e, on, p, q, o
<1> HIDE DEF x
<1>7. ASSUME NEW i \in Jobs, Stream(i) PROVE Stream(i)'
  <2>1. \A n \in 1..Len(down') : down'[n].kind = "FIN" => Silent' /\ Offers(n + 1)'
    BY <1>1, <1>3, <1>4, <1>7 DEF Stream
  <2>2. CASE i = j
    <3> DEFINE l == Len(chan[j])
    <3>1. /\ l \in Nat /\ l # 0 /\ Len(chan'[j]) = l - 1
          /\ \A n \in 1..(l - 1) : chan'[j][n] = chan[j][n + 1]
      <4> DEFINE q == chan[j]
      <4>1. q \in Seq(Frames) /\ q # <<>> /\ chan'[j] = Tail(q) BY <1>1, <1>2, <1>5
      <4> HIDE DEF q
      <4>2. /\ Len(q) \in Nat /\ Len(q) # 0 /\ Len(Tail(q)) = Len(q) - 1
            /\ \A n \in 1..(Len(q) - 1) : Tail(q)[n] = q[n + 1]
        BY <4>1
      <4>3. QED BY <4>1, <4>2 DEF q
    <3>2. \A n \in 1..l : /\ chan[j][n].kind \in {"DATA", "FIN"}
                          /\ chan[j][n].kind = "FIN" => n = l /\ NothingComes
      BY <1>7, <2>2 DEF Stream
    <3>3. gets = 0 BY <1>1, <1>7, <2>2 DEF Stream
    <3> HIDE DEF l
    <3>4. \A n \in 1..(l - 1) :
            /\ chan'[j][n].kind \in {"DATA", "FIN"}
            /\ chan'[j][n].kind = "FIN" => n = l - 1 /\ NothingComes'
      <4> SUFFICES ASSUME NEW n \in 1..(l - 1)
                   PROVE  /\ chan'[j][n].kind \in {"DATA", "FIN"}
                          /\ chan'[j][n].kind = "FIN" => n = l - 1 /\ NothingComes'
        OBVIOUS
      <4>1. n + 1 \in 1..l BY <3>1
      <4>2. QED BY <1>3, <3>1, <3>2, <4>1
    <3>5. fileGets = j BY <1>7, <2>2 DEF Stream
    <3>6. QED BY <1>1, <1>6, <1>7, <2>1, <2>2, <3>1, <3>3, <3>4, <3>5 DEF Stream
  <2>3. CASE i # j
    <3>1. out'[i] = out[i] /\ chan'[i] = chan[i] BY <1>2, <2>3
    <3>2. Linked(out'[i], chan'[i], down', serve'.on, Position', ~lost')
      BY <1>1, <1>3, <1>7, <3>1 DEF Stream
    <3>3. QED BY <1>1, <1>3, <1>4, <1>7, <2>1, <3>1, <3>2 DEF Stream
  <2>4. QED BY <2>2, <2>3
<1>8. InOrder'
  <2> SUFFICES ASSUME NEW i \in Jobs, Undisturbed(i)', NEW n \in 1..Len(out'[i])
               PROVE  /\ \A m \in 1..(n - 1) : out'[i][m][2] < out'[i][n][2]
                      /\ ~lost' => out'[i][n][2] = n - 1
    BY DEF InOrder
  <2>1. Undisturbed(i) BY <1>1 DEF Undisturbed
  <2>2. CASE i # j
    <3>1. out'[i] = out[i] BY <1>2, <2>2
    <3>2. QED BY <1>1, <2>1, <3>1 DEF OrderInv, InOrder
  <2>3. CASE i = j
    <3> DEFINE l == Len(out[j])
    <3>1. Stream(j) BY <1>1, <2>1, <2>3 DEF OrderInv, Streams
    <3>2. x.chunk \in Chunk
      <4>1. x \in Frames BY <1>1, <1>5, HeadTailProperties DEF x
      <4>2. QED BY <4>1 DEF x, DecryptChunk, Frames
    <3>3. /\ l \in Nat /\ Len(out'[j]) = l + 1 /\ out'[j][l + 1] = x.chunk
          /\ \A m \in 1..l : out'[j][m] = out[j][m]
      BY <1>2, <1>5, <3>2, AppendProperties
    <3>4. /\ \A m \in 1..l : out[j][m][2] < x.chunk[2]
          /\ ~lost => x.chunk[2] = l
      BY <1>6, <3>1
    <3>5. \A k \in 1..l : /\ \A m \in 1..(k - 1) : out[j][m][2] < out[j][k][2]
                          /\ ~lost => out[j][k][2] = k - 1
      BY <2>1, <2>3 DEF OrderInv, InOrder
    <3> HIDE DEF l
    <3>6. CASE n = l + 1
      <4>1. \A m \in 1..(n - 1) : m \in 1..l BY <3>3, <3>6
      <4>2. n - 1 = l BY <3>3, <3>6
      <4>3. QED BY <1>1, <2>3, <3>3, <3>4, <3>6, <4>1, <4>2
    <3>7. CASE n # l + 1
      <4>1. n \in 1..l /\ \A m \in 1..(n - 1) : m \in 1..l BY <2>3, <3>3, <3>7
      <4>2. QED BY <1>1, <2>3, <3>3, <3>5, <4>1
    <3>8. QED BY <3>6, <3>7
  <2>4. QED BY <2>2, <2>3
<1>9. \A i \in Jobs : phase[i] \in {"none", "start"} => out'[i] = out[i] /\ chan'[i] = chan[i]
  BY <1>1, <1>2
<1>10. QED BY <1>1, <1>3, <1>7, <1>8, <1>9, OrderFrame

\* Downloads are numbered as they start.
LEMMA JobOrder ==
  ASSUME NEW i \in Jobs, NEW j \in Jobs
  PROVE  /\ i \in Nat \ {0} /\ (i = j \/ i < j \/ j < i)
         /\ i < j => i \in 1..(j - 1)
         /\ \A k \in 1..(i - 1) : k \in Jobs /\ k < i /\ k # i /\ (i < j => k # j /\ k \in 1..(j - 1))
<1>1. i \in Nat \ {0} /\ j \in Nat \ {0} /\ 1..(i - 1) \subseteq Jobs BY UploadNumbers DEF Jobs
<1>2. QED BY <1>1

\* A download goes on.  Another one that no failed download disturbs is not under
\* way, and when this one ends well nothing of it comes any more.
LEMMA OrderMove ==
  ASSUME TypeOK, TypeOK', OrderInv, NEW j \in Jobs,
         NEW x \in {"mux", "http", "ending", "leaving", "done", "fellBack"},
         phase[j] \in {"start", "mux", "http", "ending", "leaving"},
         phase' = [phase EXCEPT ![j] = x],
         x \in {"ending", "done"} => phase[j] \in {"mux", "ending"},
         phase[j] = "leaving" => x = "fellBack",
         fileGets' \in {0, fileGets, j}, lost' = lost,
         \A i \in Jobs : i # j => out'[i] = out[i] /\ chan'[i] = chan[i],
         Undisturbed(j) /\ x \in {"mux", "http", "ending"} => downloading',
         Undisturbed(j) /\ x \in {"ending", "done"} => NothingComes',
         Undisturbed(j) /\ x = "mux" => Stream(j)',
         out'[j] = out[j] \/ (\A n \in 1..Len(out'[j]) : out'[j][n][2] = n - 1)
  PROVE  OrderInv'
<1>1. phase'[j] = x /\ \A i \in Jobs : i # j => phase'[i] = phase[i] BY DEF TypeOK
<1>2. Undisturbed(j)' <=> Undisturbed(j)
  <2>1. \A k \in 1..(j - 1) : phase'[k] = phase[k] BY <1>1, JobOrder
  <2>2. QED BY <2>1 DEF Undisturbed
<1>3. \A i \in Jobs : i < j => (Undisturbed(i)' <=> Undisturbed(i))
  <2> SUFFICES ASSUME NEW i \in Jobs, i < j PROVE Undisturbed(i)' <=> Undisturbed(i) OBVIOUS
  <2>1. \A k \in 1..(i - 1) : phase'[k] = phase[k] BY <1>1, JobOrder
  <2>2. QED BY <2>1 DEF Undisturbed
<1>4. Undisturbed(j) /\ phase[j] # "leaving" => Last(j) BY DEF OrderInv, Alone
<1>5. ASSUME NEW i \in Jobs, j < i, Undisturbed(i)'
      PROVE  Undisturbed(j) /\ x \in {"ending", "done"} /\ phase[i] = "none"
  <2>1. x \in {"ending", "done"} BY <1>1, <1>5, JobOrder DEF Undisturbed
  <2>2. Undisturbed(j)' BY <1>5, JobOrder DEF Undisturbed
  <2>3. QED BY <1>2, <1>4, <1>5, <2>1, <2>2 DEF Last
<1>6. ASSUME NEW i \in Jobs, i # j, Undisturbed(i)',
             phase[i] \in {"start", "mux", "http", "ending"}
      PROVE  FALSE
  <2>1. CASE i < j
    <3>1. Undisturbed(i) BY <1>3, <1>6, <2>1
    <3>2. Last(i) BY <1>6, <3>1 DEF OrderInv, Alone
    <3>3. QED BY <2>1, <3>2, JobOrder DEF Last
  <2>2. CASE j < i BY <1>5, <1>6, <2>2
  <2>3. QED BY <1>6, <2>1, <2>2, JobOrder
<1>7. StartedInOrder' BY <1>1 DEF OrderInv, StartedInOrder
<1>8. FreshJobs'
  <2>1. 0 \notin Jobs /\ (fileGets # 0 => fileGets \in Jobs) BY UploadNumbers DEF Jobs, TypeOK
  <2>2. \A i \in Jobs : phase'[i] \in {"none", "start"} => out'[i] = <<>> /\ chan'[i] = <<>>
    BY <1>1 DEF OrderInv, FreshJobs
  <2>3. fileGets' # 0 => phase'[fileGets'] \notin {"none", "start"}
    BY <1>1, <2>1 DEF OrderInv, FreshJobs
  <2>4. QED BY <2>2, <2>3 DEF FreshJobs
<1>9. Undisturbed(j) /\ x \in {"mux", "http", "ending"} => Last(j)'
  BY <1>1, <1>4, UploadNumbers DEF Last, Jobs
<1>10. Alone' BY <1>1, <1>2, <1>6, <1>9 DEF Alone
<1>11. Quiet'
  <2> SUFFICES ASSUME NEW i \in Jobs, Undisturbed(i)',
                      phase'[i] \in {"none", "start", "ending", "done"}, Last(i)'
               PROVE  NothingComes'
    BY DEF Quiet
  <2>1. CASE i = j BY <1>1, <1>2, <2>1
  <2>2. CASE i < j BY <1>1, <2>2, JobOrder DEF Last
  <2>3. CASE j < i BY <1>5, <2>3
  <2>4. QED BY <2>1, <2>2, <2>3, JobOrder
<1>12. Streams' BY <1>1, <1>2, <1>6 DEF Streams
<1>13. InOrder'
  <2> SUFFICES ASSUME NEW i \in Jobs, Undisturbed(i)', NEW n \in 1..Len(out'[i])
               PROVE  /\ \A m \in 1..(n - 1) : out'[i][m][2] < out'[i][n][2]
                      /\ ~lost' => out'[i][n][2] = n - 1
    BY DEF InOrder
  <2>1. CASE Undisturbed(i) /\ out'[i] = out[i] BY <2>1 DEF OrderInv, InOrder
  <2>2. CASE i = j /\ \A k \in 1..Len(out'[j]) : out'[j][k][2] = k - 1
    <3>1. Len(out'[j]) \in Nat BY DEF TypeOK
    <3> DEFINE l == Len(out'[j])
    <3> HIDE DEF l
    <3>2. n \in 1..l /\ l \in Nat /\ \A m \in 1..(n - 1) : m \in 1..l /\ m - 1 < n - 1
      <4>1. n \in 1..l /\ l \in Nat BY <2>2, <3>1 DEF l
      <4>2. QED BY <4>1
    <3>3. QED BY <2>2, <3>2 DEF l
  <2>3. CASE j < i
    <3>1. out'[i] = <<>> BY <1>5, <2>3, JobOrder DEF OrderInv, FreshJobs
    <3>2. QED BY <3>1
  <2>4. QED BY <1>2, <1>3, <2>1, <2>2, <2>3, JobOrder
<1>14. QED BY <1>7, <1>8, <1>10, <1>11, <1>12, <1>13 DEF OrderInv

LEMMA StartOrdered ==
  ASSUME TypeOK, TypeOK', OrderInv, NEW j \in Jobs, StartMux(j) PROVE OrderInv'
<1>1. /\ phase[j] = "start" /\ fileGets' = j /\ gets' = gets + 1
      /\ phase' = [phase EXCEPT ![j] = "mux"]
      /\ UNCHANGED <<serve, down, lost, downloading, chan, out>>
  BY DEF StartMux, relayed
<1>2. ASSUME Undisturbed(j) PROVE downloading' /\ Stream(j)'
  <2>1. downloading /\ Last(j) BY <1>1, <1>2 DEF OrderInv, Alone
  <2>2. NothingComes BY <1>1, <1>2, <2>1 DEF OrderInv, Quiet
  <2>3. gets' = 1 /\ serve.on = FALSE /\ Offers(1)
    BY <1>1, <2>2 DEF NothingComes, Silent, TypeOK
  <2>4. out[j] = <<>> /\ chan[j] = <<>> BY <1>1 DEF OrderInv, FreshJobs
  <2>5. down \in Seq(Frames) /\ \A n \in 1..Len(down) : down[n].kind = "OFFER"
    BY <2>3 DEF Offers, TypeOK
  <2>6. Linked(out'[j], chan'[j], down', serve'.on, Position', ~lost')
    <3> DEFINE e == ~lost  on == serve.on  p == Position
    <3>1. e \in BOOLEAN /\ ~on /\ p \in Nat BY <2>3, OpenTypes DEF TypeOK
    <3>2. Position' = p BY <1>1 DEF Position
    <3> HIDE DEF e, on, p
    <3>3. Linked(<<>>, <<>>, down, on, p, e) BY <2>5, <3>1, LinkStarts
    <3>4. QED BY <1>1, <2>4, <3>2, <3>3 DEF e, on
  <2>7. Offers(1)' BY <1>1, <2>3 DEF Offers
  <2>8. \A n \in 1..Len(chan'[j]) : FALSE BY <1>1, <2>4
  <2>9. \A n \in 1..Len(down') : down'[n].kind # "FIN" BY <1>1, <2>5
  <2>10. QED BY <1>1, <2>1, <2>3, <2>4, <2>6, <2>7, <2>8, <2>9 DEF Stream
<1>3. QED BY <1>1, <1>2, OrderMove

LEMMA FailOrdered ==
  ASSUME TypeOK, TypeOK', OrderInv, NEW j \in Jobs, phase[j] = "mux", MuxFails(j),
         UNCHANGED <<gets, serve, relayed, out>>
  PROVE  OrderInv'
<1>1. /\ fileGets' = 0 /\ downloading' /\ phase' = [phase EXCEPT ![j] = "http"]
      /\ \A i \in Jobs : i # j => chan'[i] = chan[i]
      /\ UNCHANGED <<lost, out>>
  BY DEF MuxFails, relayed, TypeOK
<1>2. QED BY <1>1, OrderMove

LEMMA EndOrdered ==
  ASSUME TypeOK, TypeOK', OrderInv, NEW j \in Jobs,
         TakeFin(j) \/ HttpFails(j) \/ HttpSucceeds(j) \/ EndDownload(j)
  PROVE  OrderInv'
<1>1. CASE TakeFin(j)
  <2>1. /\ phase[j] = "mux" /\ chan[j] # <<>> /\ Head(chan[j]).kind = "FIN"
        /\ chan' = [chan EXCEPT ![j] = <<>>] /\ fileGets' = 0
        /\ phase' = [phase EXCEPT ![j] = "ending"]
        /\ UNCHANGED <<gets, serve, down, lost, downloading, out>>
    BY <1>1 DEF TakeFin, relayed
  <2>2. \A i \in Jobs : i # j => chan'[i] = chan[i] BY <2>1 DEF TypeOK
  <2>3. ASSUME Undisturbed(j) PROVE downloading' /\ NothingComes'
    <3>1. downloading /\ Stream(j) BY <2>1, <2>3 DEF OrderInv, Alone, Streams
    <3>2. chan[j] \in Seq(Frames) BY DEF TypeOK
    <3>3. Head(chan[j]) = chan[j][1] /\ 1 \in 1..Len(chan[j]) BY <2>1, <3>2
    <3>4. NothingComes BY <2>1, <3>1, <3>3 DEF Stream
    <3>5. QED BY <2>1, <3>1, <3>4 DEF NothingComes, Silent, Offers
  <2>4. QED BY <2>1, <2>2, <2>3, OrderMove
<1>2. CASE HttpFails(j)
  <2>1. /\ phase[j] = "http" /\ phase' = [phase EXCEPT ![j] = "leaving"]
        /\ UNCHANGED <<lost, fileGets, chan, out>>
    BY <1>2 DEF HttpFails, HttpEnds, relayed
  <2>2. QED BY <2>1, OrderMove
<1>3. CASE HttpSucceeds(j)
  <2>1. /\ phase[j] = "http" /\ phase' = [phase EXCEPT ![j] = "leaving"] /\ Readable
        /\ out' = [out EXCEPT ![j] = Contents] /\ UNCHANGED <<lost, fileGets, chan>>
    BY <1>3 DEF HttpSucceeds, HttpEnds, relayed
  <2>2. out'[j] = Contents /\ \A i \in Jobs : i # j => out'[i] = out[i] BY <2>1 DEF TypeOK
  <2>3. \A n \in 1..Len(Contents) : Contents[n][2] = n - 1
    BY <2>1, ContentsType DEF Readable
  <2> HIDE DEF Contents
  <2>4. QED BY <2>1, <2>2, <2>3, OrderMove
<1>4. CASE EndDownload(j)
  <2>1. UNCHANGED <<gets, serve, down, lost, fileGets, chan, out>>
    BY <1>4 DEF EndDownload, relayed
  <2>2. CASE phase[j] = "ending"
    <3>1. phase' = [phase EXCEPT ![j] = "done"] BY <1>4, <2>2 DEF EndDownload
    <3>2. ASSUME Undisturbed(j) PROVE NothingComes'
      <4>1. Last(j) BY <2>2, <3>2 DEF OrderInv, Alone
      <4>2. NothingComes BY <2>2, <3>2, <4>1 DEF OrderInv, Quiet
      <4>3. QED BY <2>1, <4>2 DEF NothingComes, Silent, Offers
    <3>3. lost' = lost /\ fileGets' = fileGets /\ chan' = chan /\ out' = out BY <2>1
    <3>4. \A i \in Jobs : i # j => out'[i] = out[i] /\ chan'[i] = chan[i] BY <3>3
    <3>5. out'[j] = out[j] /\ lost' = lost /\ fileGets' = fileGets BY <3>3
    <3>6. QED BY <2>2, <3>1, <3>2, <3>4, <3>5, OrderMove
  <2>3. CASE phase[j] = "leaving"
    <3>1. phase' = [phase EXCEPT ![j] = "fellBack"] BY <1>4, <2>3 DEF EndDownload
    <3>2. lost' = lost /\ fileGets' = fileGets /\ chan' = chan /\ out' = out BY <2>1
    <3>3. QED BY <2>3, <3>1, <3>2, OrderMove
  <2>4. QED BY <1>4, <2>2, <2>3 DEF EndDownload
<1>5. QED BY <1>1, <1>2, <1>3, <1>4

\* An offer starts a download when the name is not active.
LEMMA OfferReadOrdered == ASSUME TypeOK, OrderInv, ReadOffer PROVE OrderInv'
<1>1. /\ down # <<>> /\ Head(down).kind = "OFFER" /\ down' = Tail(down)
      /\ UNCHANGED <<gets, serve, lost, fileGets, chan, out>>
  BY DEF ReadOffer
<1>2. CASE Ignored
  <2>1. UNCHANGED <<downloading, phase>> BY <1>2 DEF ReadOffer
  <2>2. QED BY <1>1, <2>1, IgnoredOrdered
<1>3. CASE ~Ignored
  <2>1. ~downloading BY <1>3 DEF Ignored
  <2>2. PICK j \in Jobs : /\ phase[j] = "none" /\ \A i \in 1..(j - 1) : phase[i] # "none"
                          /\ phase' = [phase EXCEPT ![j] = "start"] /\ downloading'
    BY <1>3 DEF ReadOffer
  <2>3. phase'[j] = "start" /\ \A i \in Jobs : i # j => phase'[i] = phase[i]
    BY <2>2 DEF TypeOK
  <2>4. \A i \in Jobs : j < i => phase[i] = "none"
    BY <2>2 DEF OrderInv, StartedInOrder
  <2>5. \A i \in Jobs : Undisturbed(i)' => i = j \/ i < j
    <3> SUFFICES ASSUME NEW i \in Jobs, j < i PROVE ~Undisturbed(i)'
      BY JobOrder
    <3>1. QED BY <2>3, JobOrder DEF Undisturbed
  <2>6. \A i \in Jobs : Undisturbed(i)' => Undisturbed(i)
    <3> SUFFICES ASSUME NEW i \in Jobs, Undisturbed(i)' PROVE Undisturbed(i) OBVIOUS
    <3>1. \A k \in 1..(i - 1) : phase'[k] = phase[k] BY <2>3, <2>5, JobOrder
    <3>2. QED BY <3>1 DEF Undisturbed
  <2>7. \A i \in Jobs : Undisturbed(i) => phase[i] \notin {"start", "mux", "http", "ending"}
    BY <2>1 DEF OrderInv, Alone
  <2>8. StartedInOrder'
    <3> SUFFICES ASSUME NEW i \in Jobs, NEW k \in Jobs, i < k, phase'[k] # "none"
                 PROVE  phase'[i] # "none"
      BY DEF StartedInOrder
    <3>1. CASE k = j BY <2>2, <2>3, <3>1, JobOrder
    <3>2. CASE k # j BY <2>3, <3>2 DEF OrderInv, StartedInOrder
    <3>3. QED BY <3>1, <3>2
  <2>9. FreshJobs'
    <3>1. fileGets # 0 => fileGets \in Jobs BY DEF TypeOK
    <3>2. QED BY <1>1, <2>2, <2>3, <3>1 DEF OrderInv, FreshJobs
  <2>10. Last(j)'
    <3>1. \A i \in Jobs : i > j => i # j /\ j < i BY JobOrder
    <3>2. QED BY <2>3, <2>4, <3>1 DEF Last
  <2>11. Alone' BY <2>2, <2>3, <2>6, <2>7, <2>10 DEF Alone
  <2>12. Quiet'
    <3> SUFFICES ASSUME NEW i \in Jobs, Undisturbed(i)', Last(i)' PROVE NothingComes'
      BY DEF Quiet
    <3>1. CASE i = j
      <4>1. Last(j) BY <2>4, JobOrder DEF Last
      <4>2. NothingComes BY <2>2, <2>6, <3>1, <4>1 DEF OrderInv, Quiet
      <4>3. Offers(1)' BY <1>1, <4>2, DownTail DEF NothingComes
      <4>4. QED BY <1>1, <4>2, <4>3 DEF NothingComes, Silent
    <3>2. CASE i < j BY <2>3, <3>2, JobOrder DEF Last
    <3>3. QED BY <2>5, <3>1, <3>2
  <2>13. Streams' BY <2>3, <2>6, <2>7 DEF Streams
  <2>14. InOrder' BY <1>1, <2>6, OrderKept DEF OrderInv
  <2>15. QED BY <2>8, <2>9, <2>11, <2>12, <2>13, <2>14 DEF OrderInv
<1>4. QED BY <1>2, <1>3

LEMMA OrderStep == ASSUME TypeOK, TypeOK', OrderInv, [Next]_vars PROVE OrderInv'
<1>1. CASE UNCHANGED vars
  BY <1>1, OrderBystander DEF vars, relayed, downloads
<1>2. ASSUME NEW u \in Uploads, Upload(u) PROVE OrderInv'
  <2>1. UNCHANGED <<gets, serve, relayed, downloads>>
    BY <1>2 DEF Upload, UploadMux, OfferFile, HttpUpload
  <2>2. QED BY <2>1, OrderBystander
<1>3. ASSUME NEW c \in Clients, Handle(c) PROVE OrderInv'
  <2>1. CASE PutHeader(c) BY <2>1, OrderBystander DEF PutHeader
  <2>2. CASE PutBody(c)
    <3>1. serve'.on = serve.on /\ serve'.pos = serve.pos BY <2>2 DEF PutBody, TypeOK
    <3>2. QED BY <2>2, <3>1, OrderBystander DEF PutBody
  <2>3. CASE PutFin(c) BY <2>3, OrderBystander DEF PutFin
  <2>4. QED BY <1>3, <2>1, <2>2, <2>3, OfferOrdered DEF Handle
<1>4. CASE Serve BY <1>4, GetOrdered, ChunkOrdered, FinOrdered DEF Serve
<1>5. CASE RemoveFile
  <2>1. serve'.on = serve.on /\ serve'.pos = serve.pos BY <1>5 DEF RemoveFile, TypeOK
  <2>2. QED BY <1>5, <2>1, OrderBystander DEF RemoveFile
<1>6. CASE ReadPump BY <1>6, OfferReadOrdered, DataOrdered DEF ReadPump
<1>7. ASSUME NEW j \in Jobs, Download(j) PROVE OrderInv'
  <2>1. CASE TakeData(j) /\ ~DecryptChunk(Head(chan[j]))
    BY <2>1, FailOrdered DEF TakeData
  <2>2. CASE Timeout(j) BY <2>2, FailOrdered DEF Timeout
  <2>3. QED BY <1>7, <2>1, <2>2, StartOrdered, TakeOrdered, EndOrdered DEF Download
<1>8. QED BY <1>1, <1>2, <1>3, <1>4, <1>5, <1>6, <1>7 DEF Next, Cleanup, DeleteBlob

LEMMA DownloadsOrdered == Spec => [](TypeOK /\ OrderInv)
<1>1. TypeOK /\ OrderInv /\ [Next]_vars => (TypeOK /\ OrderInv)'
  BY VaultStepTyped, OrderStep
<1>2. Init => TypeOK /\ OrderInv BY VaultInitTyped, OrderInit
<1>3. QED BY <1>1, <1>2, PTL DEF Spec

\* What a download has written are chunks in the order of their indices, and
\* without a gap as long as no queue was full, however the uploads mix their
\* chunks in the vault file and whatever is removed while the hub reads it.
THEOREM ChunksInOrder == Spec => []InOrder
<1>1. OrderInv => InOrder BY DEF OrderInv
<1>2. QED BY <1>1, DownloadsOrdered, PTL

-----------------------------------------------------------------------------
(* One upload and a download that succeeds.                                *)
(*                                                                         *)
(* While a version is uploaded the vault file holds its chunks from some   *)
(* index k on (k is not 0 when the file was removed meanwhile), and nobody *)
(* asks for it.  Once the offer is on its way the file is complete from k  *)
(* on, or gone.  The hub numbers its chunks from 0, so that none decrypts  *)
(* unless k is 0, and the closing frame tells Size - k.                    *)

Sole(u) == ~lost /\ parked[Owner[u]] = <<>> /\ (\A v \in Uploads : next[v] > 0 <=> v = u)

\* How many frames of u the hub has taken up.
Handled(u) == next[u] - Len(sendq[Owner[u]])

Queued(u) ==
  /\ \A c \in Clients : c # Owner[u] => sendq[c] = <<>> /\ ~putting[c].on
  /\ Handled(u) \in 0..Done
  /\ \A n \in 1..Len(sendq[Owner[u]]) : sendq[Owner[u]][n] = <<u, Handled(u) + n - 1>>
  /\ putting[Owner[u]].on => /\ Handled(u) \in 1..Size
                             /\ putting[Owner[u]].chunk = <<u, Handled(u) - 1>>

\* The items of the chunks of u from k on.
Item(u, k, n) == IF n % 2 = 1 THEN Header ELSE Body(<<u, k + (n \div 2) - 1>>)
Prefix(u, k, l) == [n \in 1..l |-> Item(u, k, n)]
Full(u, k) == Prefix(u, k, 2 * (Size - k))
Stored(file, u, k) == file = Full(u, k) \/ file = Append(Full(u, k), EndMarker)

Received(u) == IF Handled(u) <= Size THEN Handled(u) ELSE Size
InVault(u) ==
  IF putting[Owner[u]].on
  THEN IF putting[Owner[u]].file = cleans
       THEN \E k \in 0..(Handled(u) - 1) : vault = Prefix(u, k, 2 * (Handled(u) - k) - 1)
       ELSE vault = <<>>
  ELSE \/ \E k \in 0..Received(u) : vault = Prefix(u, k, 2 * (Received(u) - k))
       \/ Handled(u) = Offer /\ vault = Append(Full(u, 0), EndMarker)

Nothing == (\A j \in Jobs : phase[j] = "none") /\ down = <<>> /\ Silent

NoUpload == (\A v \in Uploads : next[v] = 0) =>
              /\ \A c \in Clients : sendq[c] = <<>> /\ ~putting[c].on
              /\ vault = <<>> /\ Nothing

\* The frames of the one download.
Good(x, u, k) == /\ x.kind = "DATA" => x.chunk = <<u, x.idx + k>>
                 /\ x.kind = "FIN" => x.idx = Size - k
Carries(u, k) ==
  /\ serve.on => Stored(Open, u, k) /\ serve.pos = 2 * Position /\ Position <= Size - k
  /\ \A n \in 1..Len(down) : Good(down[n], u, k)
  /\ \A n \in 1..Len(chan[1]) : Good(chan[1][n], u, k)
  /\ \A n \in 1..Len(out[1]) : out[1][n][1] = u /\ k = 0

TheOffer == [kind |-> "OFFER", idx |-> 0, chunk |-> NoChunk]
Offered(u) ==
  /\ Last(1)
  /\ phase[1] = "none" => down = <<TheOffer>> \/ down = <<>>
  /\ phase[1] # "none" => \A n \in 1..Len(down) : down[n].kind # "OFFER"
  /\ phase[1] \in {"ending", "done"} => out[1] = Whole(u)
  /\ \E k \in 0..(Size - 1) : /\ vault = <<>> \/ Stored(vault, u, k)
                              /\ phase[1] = "mux" => Carries(u, k)

Delivered(u) == /\ Queued(u)
                /\ Handled(u) <= Offer => Nothing /\ InVault(u)
                /\ Handled(u) = Done => Offered(u)

SoleInv == /\ NoUpload /\ serve.file <= cleans
           /\ \A u \in Uploads : Sole(u) => Delivered(u)

LEMMA PrefixItems ==
  ASSUME NEW u, NEW k, NEW l \in Nat
  PROVE  /\ Len(Prefix(u, k, l)) = l /\ \A n \in 1..l : Prefix(u, k, l)[n] = Item(u, k, n)
         /\ Prefix(u, k, l) \in Seq({Item(u, k, n) : n \in 1..(l + 1)})
<1> DEFINE S == {Item(u, k, n) : n \in 1..(l + 1)}  p == Prefix(u, k, l)
<1>1. \A n \in 1..l : Item(u, k, n) \in S OBVIOUS
<1> HIDE DEF S
<1>2. p \in [1..l -> S] /\ \A n \in 1..l : p[n] = Item(u, k, n) BY <1>1 DEF Prefix
<1> HIDE DEF p
<1>3. p \in Seq(S) BY <1>2, SeqDef
<1>4. Len(p) = l BY <1>2, <1>3
<1>5. QED BY <1>2, <1>3, <1>4 DEF S, p

LEMMA PrefixGrows ==
  ASSUME NEW u, NEW k, NEW l \in Nat
  PROVE  Append(Prefix(u, k, l), Item(u, k, l + 1)) = Prefix(u, k, l + 1)
<1> DEFINE S == {Item(u, k, n) : n \in 1..((l + 1) + 1)}  p == Prefix(u, k, l)
           x == Item(u, k, l + 1)  t == Append(p, x)  r == Prefix(u, k, l + 1)
<1>1. /\ Len(p) = l /\ \A n \in 1..l : p[n] = Item(u, k, n)
      /\ p \in Seq({Item(u, k, n) : n \in 1..(l + 1)})
  BY PrefixItems
<1>2. /\ Len(r) = l + 1 /\ \A n \in 1..(l + 1) : r[n] = Item(u, k, n)
      /\ r \in Seq(S)
  <2> DEFINE m == l + 1
  <2>1. m \in Nat OBVIOUS
  <2> HIDE DEF m
  <2>2. /\ Len(Prefix(u, k, m)) = m /\ \A n \in 1..m : Prefix(u, k, m)[n] = Item(u, k, n)
        /\ Prefix(u, k, m) \in Seq({Item(u, k, n) : n \in 1..(m + 1)})
    BY <2>1, PrefixItems
  <2>3. QED BY <2>2 DEF m
<1>3. {Item(u, k, n) : n \in 1..(l + 1)} \subseteq S OBVIOUS
<1>4. x \in S OBVIOUS
<1> HIDE DEF S, p, x, r
<1>5. p \in Seq(S) BY <1>1, <1>3
<1>6. t \in Seq(S) /\ Len(t) = l + 1 /\ t[l + 1] = x /\ \A n \in 1..l : t[n] = p[n]
  BY <1>1, <1>4, <1>5, AppendProperties
<1> HIDE DEF t
<1>7. ASSUME NEW n \in 1..(l + 1) PROVE t[n] = r[n]
  <2>1. n \in 1..l \/ n = l + 1 OBVIOUS
  <2>2. QED BY <1>1, <1>2, <1>6, <2>1 DEF x
<1>8. t = r BY <1>2, <1>6, <1>7, SeqEqual
<1>9. QED BY <1>8 DEF t, p, x, r

LEMMA PrefixEmpty == ASSUME NEW u, NEW k PROVE Prefix(u, k, 0) = <<>>
<1>1. Len(Prefix(u, k, 0)) = 0 /\ Prefix(u, k, 0) \in Seq({Item(u, k, n) : n \in 1..(0 + 1)})
  BY PrefixItems
<1> HIDE DEF Prefix
<1>2. QED BY <1>1, EmptySeq

\* What HTTP /upload stores, without the end marker.
LEMMA WholeAsFile == ASSUME NEW u \in Uploads PROVE AsFile(Whole(u)) = Full(u, 0)
<1>1. Len(Whole(u)) = Size /\ Size \in Nat BY WholeType, UploadNumbers
<1>2. \A n \in 1..(2 * Size) : n % 2 # 1 => n \div 2 \in 1..Size BY <1>1
<1>3. \A n \in 1..(2 * Size) : n % 2 # 1 => Whole(u)[n \div 2] = <<u, (n \div 2) - 1>>
  BY <1>2 DEF Whole
<1>4. \A n \in 1..(2 * Size) : 0 + (n \div 2) - 1 = (n \div 2) - 1 BY <1>1
<1>5. \A n \in 1..(2 * Size) :
        (IF n % 2 = 1 THEN Header ELSE Body(Whole(u)[n \div 2])) = Item(u, 0, n)
  BY <1>3, <1>4 DEF Item
<1>6. AsFile(Whole(u)) = [n \in 1..(2 * Size) |-> Item(u, 0, n)] BY <1>1, <1>5 DEF AsFile
<1>7. 2 * (Size - 0) = 2 * Size BY <1>1
<1>8. QED BY <1>6, <1>7 DEF Full, Prefix

LEMMA StoredItems ==
  ASSUME NEW u, NEW k \in 0..(Size - 1), NEW file, Stored(file, u, k)
  PROVE  /\ Len(file) \in (2 * (Size - k))..(2 * (Size - k) + 1)
         /\ \A n \in 1..(2 * (Size - k)) : file[n] = Item(u, k, n)
<1> DEFINE l == 2 * (Size - k)  p == Prefix(u, k, l)
           S == {Item(u, k, n) : n \in 1..(l + 1)} \cup {EndMarker}
<1>1. l \in Nat BY UploadNumbers
<1>2. file = p \/ file = Append(p, EndMarker) BY DEF Stored, Full
<1> HIDE DEF l
<1>3. /\ Len(p) = l /\ \A n \in 1..l : p[n] = Item(u, k, n)
      /\ p \in Seq({Item(u, k, n) : n \in 1..(l + 1)})
  BY <1>1, PrefixItems
<1>4. EndMarker \in S /\ {Item(u, k, n) : n \in 1..(l + 1)} \subseteq S OBVIOUS
<1> HIDE DEF p, S
<1>5. p \in Seq(S) BY <1>3, <1>4
<1> DEFINE t == Append(p, EndMarker)
<1>6. Len(t) = l + 1 /\ \A n \in 1..l : t[n] = p[n]
  BY <1>3, <1>4, <1>5, AppendProperties
<1> HIDE DEF t
<1>7. Len(file) \in l..(l + 1) /\ \A n \in 1..l : file[n] = Item(u, k, n)
  BY <1>1, <1>2, <1>3, <1>6 DEF t
<1>8. QED BY <1>7 DEF l

LEMMA SoleInit == Init => SoleInv
<1> SUFFICES ASSUME Init PROVE SoleInv OBVIOUS
<1>1. NoUpload BY DEF Init, NoUpload, Nothing, Silent, NotPutting, NotServing
<1>2. serve.file <= cleans BY DEF Init, NotServing
<1>3. \A u \in Uploads : ~Sole(u) BY DEF Init, Sole
<1>4. QED BY <1>1, <1>2, <1>3 DEF SoleInv

\* Without an upload nothing happens.
LEMMA NoUploadStep == ASSUME TypeOK, NoUpload, [Next]_vars PROVE NoUpload'
<1> SUFFICES ASSUME \A v \in Uploads : next'[v] = 0
             PROVE  /\ \A c \in Clients : sendq'[c] = <<>> /\ ~putting'[c].on
                    /\ vault' = <<>> /\ Nothing'
  BY DEF NoUpload
<1>1. ASSUME NEW u \in Uploads, Upload(u) PROVE FALSE
  <2>1. next'[u] # 0
    BY <1>1, UploadNumbers DEF Upload, UploadMux, OfferFile, HttpUpload, TypeOK, Fin, Offer, Done
  <2>2. QED BY <2>1
<1>2. CASE UNCHANGED next
  <2>1. /\ \A c \in Clients : sendq[c] = <<>> /\ ~putting[c].on
        /\ vault = <<>> /\ Nothing
    BY <1>2 DEF NoUpload
  <2>2. /\ down = <<>> /\ gets = 0 /\ ~serve.on /\ \A j \in Jobs : phase[j] = "none"
    BY <2>1 DEF Nothing, Silent
  <2>3. \A c \in Clients : ~Handle(c)
    BY <2>1 DEF Handle, PutHeader, PutBody, PutFin, HandleOffer
  <2>4. ~Serve BY <2>2 DEF Serve, HandleGet, ServeChunk, ServeFin
  <2>5. ~RemoveFile BY <2>1 DEF RemoveFile
  <2>6. ~ReadPump BY <2>2 DEF ReadPump, ReadOffer, ReadData
  <2>7. \A j \in Jobs : ~Download(j)
    BY <2>2 DEF Download, StartMux, TakeData, TakeFin, Timeout, HttpSucceeds, HttpFails,
                HttpEnds, EndDownload
  <2>8. UNCHANGED vars
    BY <1>1, <2>3, <2>4, <2>5, <2>6, <2>7 DEF Next, Cleanup, DeleteBlob
  <2>9. QED BY <2>1, <2>8
          DEF vars, uploading, stored, relayed, downloads, Nothing, Silent
<1>3. CASE ~UNCHANGED next
  <2>1. QED BY <1>1, <1>3
    DEF Next, vars, uploading, Handle, PutHeader, PutBody, PutFin, HandleOffer, Serve,
        HandleGet, ServeChunk, ServeFin, Cleanup, DeleteBlob, RemoveFile, ReadPump,
        ReadOffer, ReadData, Download, StartMux, TakeData, TakeFin, Timeout,
        HttpSucceeds, HttpFails, HttpEnds, EndDownload
<1>4. QED BY <1>2, <1>3

LEMMA FileKnown == ASSUME TypeOK, serve.file <= cleans, [Next]_vars PROVE serve'.file <= cleans'
<1>1. cleans \in Nat /\ serve.file \in Nat BY DEF TypeOK
<1>2. CASE RemoveFile
  <2>1. serve'.file = serve.file /\ cleans' = cleans + 1 BY <1>2 DEF RemoveFile, TypeOK
  <2>2. QED BY <1>1, <2>1
<1>3. CASE Serve
  <2>1. CASE HandleGet
    <3>1. cleans' = cleans /\ (serve' = serve \/ serve'.file = cleans)
      BY <2>1 DEF HandleGet, NotServing
    <3>2. QED BY <1>1, <3>1
  <2>2. CASE ServeChunk
    <3>1. cleans' = cleans /\ serve'.file = serve.file BY <2>2 DEF ServeChunk, TypeOK
    <3>2. QED BY <1>1, <3>1
  <2>3. CASE ServeFin
    <3>1. cleans' = cleans /\ serve'.file = 0 BY <2>3 DEF ServeFin, NotServing
    <3>2. QED BY <1>1, <3>1
  <2>4. QED BY <1>3, <2>1, <2>2, <2>3 DEF Serve
<1>4. ASSUME NEW c \in Clients, Handle(c) PROVE serve'.file = serve.file /\ cleans' = cleans
  BY <1>4 DEF Handle, PutHeader, PutBody, PutFin, HandleOffer, TypeOK
<1>5. ASSUME NEW u \in Uploads, Upload(u) PROVE serve' = serve /\ cleans' = cleans
  BY <1>5 DEF Upload, UploadMux, OfferFile, HttpUpload
<1>6. ASSUME ReadPump PROVE serve' = serve /\ cleans' = cleans
  BY <1>6 DEF ReadPump, ReadOffer, ReadData
<1>7. ASSUME NEW j \in Jobs, Download(j) PROVE serve' = serve /\ cleans' = cleans
  BY <1>7 DEF Download, StartMux, TakeData, TakeFin, Timeout, HttpSucceeds, HttpFails,
              HttpEnds, EndDownload
<1>8. ASSUME UNCHANGED vars PROVE serve' = serve /\ cleans' = cleans BY <1>8 DEF vars
<1>9. QED BY <1>2, <1>3, <1>4, <1>5, <1>6, <1>7, <1>8 DEF Next, Cleanup, DeleteBlob

\* The sole upload was it before, or just began.
LEMMA SoleBefore ==
  ASSUME TypeOK, [Next]_vars, NEW u \in Uploads, Sole(u)'
  PROVE  /\ Sole(u) \/ \A v \in Uploads : next[v] = 0
         /\ parked[Owner[u]] = <<>> /\ ~lost
         /\ \A v \in Uploads : Upload(v) => v = u
<1>1. /\ ~lost' /\ parked'[Owner[u]] = <<>>
      /\ \A v \in Uploads : next'[v] > 0 <=> v = u
  BY DEF Sole
<1>2. Owner[u] \in Clients BY VaultAssumption
<1>3. ASSUME NEW v \in Uploads, Upload(v)
      PROVE  /\ v = u /\ \A w \in Uploads : w # v => next'[w] = next[w]
             /\ parked[Owner[u]] = <<>> /\ lost' = lost
  <2>1. /\ next'[v] > 0 /\ \A w \in Uploads : w # v => next'[w] = next[w]
    <3>1. next[v] \in Nat /\ Size \in Nat BY UploadNumbers DEF TypeOK, Done
    <3>2. PICK x \in {next[v] + 1, Offer, Done} : next' = [next EXCEPT ![v] = x]
      BY <1>3 DEF Upload, UploadMux, OfferFile, HttpUpload
    <3>3. x > 0 BY <3>1 DEF Offer, Done
    <3>4. QED BY <3>2, <3>3 DEF TypeOK
  <2>2. v = u BY <1>1, <2>1
  <2>3. lost' = lost
    BY <1>3 DEF Upload, UploadMux, OfferFile, HttpUpload, relayed
  <2>4. parked[Owner[u]] = <<>>
    <3>1. CASE UploadMux(v)
      <4>1. CASE parked' = parked BY <1>1, <4>1
      <4>2. CASE parked' = [parked EXCEPT ![Owner[v]] = Append(@, <<v, next[v]>>)]
        <5>1. parked'[Owner[u]] = Append(parked[Owner[u]], <<v, next[v]>>)
          BY <1>2, <2>2, <4>2 DEF TypeOK
        <5>2. <<v, next[v]>> \in Uploads \X (0..Offer)
          BY <3>1, UploadNumbers DEF UploadMux, TypeOK, Fin, Offer, Done
        <5>3. parked'[Owner[u]] # <<>>
          <6> DEFINE q == parked[Owner[u]]  x == <<v, next[v]>>  S == Uploads \X (0..Offer)
          <6>1. q \in Seq(S) /\ x \in S /\ parked'[Owner[u]] = Append(q, x)
            BY <1>2, <5>1, <5>2 DEF TypeOK
          <6> HIDE DEF q, x, S
          <6>2. Append(q, x) # <<>> BY <6>1, AppendProperties
          <6>3. QED BY <6>1, <6>2
        <5>4. QED BY <1>1, <5>3
      <4>3. QED BY <3>1, <4>1, <4>2 DEF UploadMux, EnqueueOrSend
    <3>2. CASE OfferFile(v) \/ HttpUpload(v) BY <1>1, <3>2 DEF OfferFile, HttpUpload
    <3>3. QED BY <1>3, <3>1, <3>2 DEF Upload
  <2>5. QED BY <2>1, <2>2, <2>3, <2>4
<1>4. CASE \E v \in Uploads : Upload(v)
  <2>1. PICK v \in Uploads : Upload(v) BY <1>4
  <2>2. /\ v = u /\ \A w \in Uploads : w # v => next'[w] = next[w]
        /\ parked[Owner[u]] = <<>> /\ lost' = lost
    BY <1>3, <2>1
  <2>3. \A w \in Uploads : next[w] \in Nat BY UploadNumbers DEF TypeOK, Done
  <2>4. QED BY <1>1, <1>3, <2>2, <2>3 DEF Sole
<1>5. ASSUME ~\E v \in Uploads : Upload(v)
      PROVE  next' = next /\ parked' = parked /\ (lost => lost')
  <2> USE DEF TypeOK
  <2>1. CASE UNCHANGED vars BY <2>1 DEF vars, uploading, relayed
  <2>2. ASSUME NEW c \in Clients, Handle(c)
        PROVE  next' = next /\ parked' = parked /\ (lost => lost')
    BY <2>2 DEF Handle, PutHeader, PutBody, PutFin, HandleOffer, SendMessage, uploading, relayed
  <2>3. CASE Serve
    BY <2>3 DEF Serve, HandleGet, ServeChunk, ServeFin, SendMessage, uploading, relayed
  <2>4. CASE RemoveFile BY <2>4 DEF RemoveFile, uploading, relayed
  <2>5. CASE ReadPump BY <2>5 DEF ReadPump, ReadOffer, ReadData, uploading
  <2>6. ASSUME NEW j \in Jobs, Download(j)
        PROVE  next' = next /\ parked' = parked /\ (lost => lost')
    BY <2>6 DEF Download, StartMux, TakeData, TakeFin, Timeout, HttpSucceeds, HttpFails,
                HttpEnds, EndDownload, uploading, relayed
  <2>7. QED BY <1>5, <2>1, <2>2, <2>3, <2>4, <2>5, <2>6 DEF Next, Cleanup, DeleteBlob
<1>6. CASE ~\E v \in Uploads : Upload(v) BY <1>1, <1>5, <1>6 DEF Sole
<1>7. QED BY <1>4, <1>6

-----------------------------------------------------------------------------
(* The upload. *)

LEMMA HandledBounds ==
  ASSUME TypeOK, NEW u \in Uploads
  PROVE  /\ Owner[u] \in Clients /\ next[u] \in 0..Done /\ sendq[Owner[u]] \in Seq(Uploads \X (0..Offer))
         /\ Len(sendq[Owner[u]]) \in Nat /\ Handled(u) \in Int
         /\ Handled(u) <= next[u] /\ (sendq[Owner[u]] # <<>> => Handled(u) < next[u])
         /\ next[u] = Handled(u) + Len(sendq[Owner[u]])
         /\ Size \in Nat /\ Fin = Size /\ Offer = Size + 1 /\ Done = Size + 2 /\ Size >= 1
<1>1. Owner[u] \in Clients BY VaultAssumption
<1>2. sendq[Owner[u]] \in Seq(Uploads \X (0..Offer)) /\ next[u] \in 0..Done
  BY <1>1 DEF TypeOK
<1> DEFINE l == Len(sendq[Owner[u]])
<1>3. l \in Nat /\ (sendq[Owner[u]] # <<>> => l # 0) BY <1>2
<1>4. Size \in Nat /\ Size >= 1 BY UploadNumbers
<1>5. Handled(u) = next[u] - l BY DEF Handled
<1> HIDE DEF l
<1>6. /\ Handled(u) \in Int /\ Handled(u) <= next[u] /\ next[u] = Handled(u) + l
      /\ (sendq[Owner[u]] # <<>> => Handled(u) < next[u])
  BY <1>2, <1>3, <1>4, <1>5 DEF Done
<1>7. QED BY <1>1, <1>2, <1>3, <1>4, <1>6 DEF l, Fin, Offer, Done

LEMMA NothingUploaded ==
  ASSUME TypeOK, NoUpload, \A v \in Uploads : next[v] = 0, NEW u \in Uploads
  PROVE  Delivered(u)
<1>1. /\ \A c \in Clients : sendq[c] = <<>> /\ ~putting[c].on
      /\ vault = <<>> /\ Nothing
  BY DEF NoUpload
<1>2. Owner[u] \in Clients /\ Size \in Nat BY HandledBounds
<1>3. sendq[Owner[u]] = <<>> /\ ~putting[Owner[u]].on BY <1>1, <1>2
<1>4. Handled(u) = 0 BY <1>3 DEF Handled
<1>5. Queued(u) BY <1>1, <1>2, <1>3, <1>4 DEF Queued, Done
<1>6. InVault(u)
  <2>1. Received(u) = 0 BY <1>2, <1>4 DEF Received
  <2>2. 2 * (0 - 0) = 0 /\ 0 \in 0..0 OBVIOUS
  <2>3. vault = Prefix(u, 0, 0) BY <1>1, PrefixEmpty
  <2>4. \E k \in 0..Received(u) : vault = Prefix(u, k, 2 * (Received(u) - k))
    BY <2>1, <2>2, <2>3
  <2>5. QED BY <1>3, <2>4 DEF InVault
<1>7. QED BY <1>1, <1>2, <1>4, <1>5, <1>6 DEF Delivered, Done

\* The client puts one more frame on its way.
LEMMA QueueGrows ==
  ASSUME TypeOK, NEW u \in Uploads, Queued(u), next[u] <= Offer,
         sendq' = [sendq EXCEPT ![Owner[u]] = Append(@, <<u, next[u]>>)],
         next' = [next EXCEPT ![u] = next[u] + 1], putting' = putting
  PROVE  Queued(u)' /\ Handled(u)' = Handled(u) /\ Handled(u) # Done
<1> DEFINE c == Owner[u]  q == sendq[c]  x == <<u, next[u]>>  S == Uploads \X (0..Offer)
           h == Handled(u)  t == Append(q, x)  l == Len(q)
<1>1. /\ c \in Clients /\ q \in Seq(S) /\ l \in Nat /\ h \in Int /\ h <= next[u]
      /\ next[u] = h + l /\ next[u] \in Nat /\ Size \in Nat /\ Offer = Size + 1 /\ Done = Size + 2
  BY HandledBounds
<1>2. x \in S BY <1>1
<1>3. sendq'[c] = t /\ \A d \in Clients : d # c => sendq'[d] = sendq[d]
  BY <1>1 DEF TypeOK
<1>4. next'[u] = next[u] + 1 BY DEF TypeOK
<1> HIDE DEF S, q, c
<1>5. Len(t) = l + 1 /\ t[l + 1] = x /\ \A n \in 1..l : t[n] = q[n]
  BY <1>1, <1>2, AppendProperties
<1>6. Handled(u)' = h
  <2>1. Handled(u)' = next'[u] - Len(t) BY <1>3 DEF Handled, c
  <2> HIDE DEF h, l, t
  <2>2. QED BY <1>1, <1>4, <1>5, <2>1
<1>7. h \in 0..Done /\ h # Done
  <2>1. h \in 0..Done BY DEF Queued
  <2> HIDE DEF h, l
  <2>2. QED BY <1>1, <2>1
<1>8. \A n \in 1..l : q[n] = <<u, h + n - 1>> BY DEF Queued, q, c
<1>9. \A n \in 1..(l + 1) : t[n] = <<u, h + n - 1>>
  <2> SUFFICES ASSUME NEW n \in 1..(l + 1) PROVE t[n] = <<u, h + n - 1>> OBVIOUS
  <2> HIDE DEF l, t, h
  <2>1. n \in 1..l \/ n = l + 1 BY <1>1
  <2>2. n = l + 1 => h + n - 1 = next[u] BY <1>1
  <2>3. QED BY <1>5, <1>8, <2>1, <2>2
<1>10. \A n \in 1..Len(sendq'[c]) : sendq'[c][n] = <<u, Handled(u)' + n - 1>>
  BY <1>3, <1>5, <1>6, <1>9
<1>11. /\ \A d \in Clients : d # c => sendq[d] = <<>> /\ ~putting[d].on
       /\ putting[c].on => h \in 1..Size /\ putting[c].chunk = <<u, h - 1>>
  BY DEF Queued, c
<1> HIDE DEF h
<1>12. Queued(u)' BY <1>3, <1>6, <1>7, <1>10, <1>11 DEF Queued, c
<1>13. QED BY <1>6, <1>7, <1>12 DEF h

\* The hub takes a frame: it is the client's next one.
LEMMA QueueShrinks ==
  ASSUME TypeOK, TypeOK', NEW u \in Uploads, Queued(u), NEW c \in Clients, sendq[c] # <<>>,
         sendq' = [sendq EXCEPT ![c] = Tail(@)], next' = next
  PROVE  /\ c = Owner[u] /\ Head(sendq[c]) = <<u, Handled(u)>>
         /\ Handled(u)' = Handled(u) + 1 /\ Handled(u) \in 0..Offer
         /\ \A d \in Clients : d # Owner[u] => sendq'[d] = <<>>
         /\ \A n \in 1..Len(sendq'[Owner[u]]) :
              sendq'[Owner[u]][n] = <<u, Handled(u)' + n - 1>>
<1> DEFINE q == sendq[c]  S == Uploads \X (0..Offer)  h == Handled(u)  t == Tail(q)  l == Len(q)
<1>1. c = Owner[u] BY DEF Queued
<1>2. /\ q \in Seq(S) /\ l \in Nat /\ h \in Int /\ h < next[u] /\ next[u] = h + l
      /\ next[u] \in 0..Done /\ Size \in Nat /\ Offer = Size + 1 /\ Done = Size + 2
  BY <1>1, HandledBounds
<1>3. sendq'[c] = t /\ \A d \in Clients : d # c => sendq'[d] = sendq[d] BY DEF TypeOK
<1>4. \A n \in 1..l : q[n] = <<u, h + n - 1>> BY <1>1 DEF Queued
<1>5. h \in 0..Done BY DEF Queued
<1>6. /\ l # 0 /\ Head(q) = q[1] /\ Len(t) = l - 1
      /\ \A n \in 1..(l - 1) : t[n] = q[n + 1]
  <2>1. q # <<>> OBVIOUS
  <2> HIDE DEF q, S
  <2>2. QED BY <1>2, <2>1
<1>7. Handled(u)' = next[u] - Len(t) BY <1>1, <1>3 DEF Handled
<1> HIDE DEF q, h, t, l
<1>8. Handled(u)' = h + 1 BY <1>2, <1>6, <1>7
<1>9. h \in 0..Offer BY <1>2, <1>5
<1>10. Head(q) = <<u, h>>
  <2>1. 1 \in 1..l /\ h + 1 - 1 = h BY <1>2, <1>6
  <2>2. QED BY <1>4, <1>6, <2>1
<1>11. \A n \in 1..(l - 1) : t[n] = <<u, (h + 1) + n - 1>>
  <2> SUFFICES ASSUME NEW n \in 1..(l - 1) PROVE t[n] = <<u, (h + 1) + n - 1>> OBVIOUS
  <2>1. n + 1 \in 1..l /\ h + (n + 1) - 1 = (h + 1) + n - 1 BY <1>2
  <2>2. QED BY <1>4, <1>6, <2>1
<1>12. \A n \in 1..Len(sendq'[c]) : sendq'[c][n] = <<u, Handled(u)' + n - 1>>
  BY <1>3, <1>6, <1>8, <1>11
<1>13. \A d \in Clients : d # c => sendq'[d] = <<>> BY <1>1, <1>3 DEF Queued
<1>14. QED BY <1>1, <1>8, <1>9, <1>10, <1>12, <1>13 DEF q, h

LEMMA UploadDelivers ==
  ASSUME TypeOK, TypeOK', NEW u \in Uploads, Delivered(u), Upload(u), parked'[Owner[u]] = <<>>
  PROVE  Delivered(u)'
<1>1. Queued(u) /\ (Handled(u) <= Offer => Nothing /\ InVault(u)) BY DEF Delivered
<1>2. (Nothing <=> Nothing') /\ putting' = putting /\ cleans' = cleans
  BY DEF Upload, UploadMux, OfferFile, HttpUpload, stored, relayed, downloads, Nothing, Silent
<1>3. ASSUME next[u] <= Offer, vault' = vault,
             sendq' = [sendq EXCEPT ![Owner[u]] = Append(@, <<u, next[u]>>)],
             next' = [next EXCEPT ![u] = next[u] + 1]
      PROVE  Delivered(u)'
  <2>1. Queued(u)' /\ Handled(u)' = Handled(u) /\ Handled(u) # Done
    BY <1>1, <1>2, <1>3, QueueGrows
  <2>2. InVault(u)' <=> InVault(u) BY <1>2, <1>3, <2>1 DEF InVault, Received
  <2>3. QED BY <1>1, <1>2, <2>1, <2>2 DEF Delivered
<1>4. CASE UploadMux(u)
  <2>1. next[u] <= Offer /\ vault' = vault /\ next' = [next EXCEPT ![u] = next[u] + 1]
    BY <1>4, HandledBounds DEF UploadMux, stored
  <2>2. sendq' = [sendq EXCEPT ![Owner[u]] = Append(@, <<u, next[u]>>)]
    <3>1. CASE Len(sendq[Owner[u]]) < SendCap BY <1>4, <3>1 DEF UploadMux, EnqueueOrSend
    <3>2. CASE ~(Len(sendq[Owner[u]]) < SendCap)
      <4> DEFINE q == parked[Owner[u]]  x == <<u, next[u]>>  S == Uploads \X (0..Offer)
      <4>1. parked' = [parked EXCEPT ![Owner[u]] = Append(q, x)]
        BY <1>4, <3>2 DEF UploadMux, EnqueueOrSend
      <4>2. q \in Seq(S) /\ x \in S /\ parked'[Owner[u]] = Append(q, x)
        <5>1. Owner[u] \in Clients /\ next[u] \in 0..Offer BY <2>1, HandledBounds
        <5>2. q \in Seq(S) BY <5>1 DEF TypeOK
        <5>3. x \in S BY <5>1
        <5> HIDE DEF q, x
        <5>4. parked'[Owner[u]] = Append(q, x) BY <4>1, <5>1 DEF TypeOK
        <5>5. QED BY <5>2, <5>3, <5>4
      <4> HIDE DEF q, x, S
      <4>3. Append(q, x) # <<>> BY <4>2, AppendProperties
      <4>4. QED BY <4>2, <4>3
    <3>3. QED BY <3>1, <3>2
  <2>3. QED BY <1>3, <2>1, <2>2
<1>5. CASE OfferFile(u)
  <2>1. /\ next[u] = Offer /\ vault' = vault
        /\ sendq' = [sendq EXCEPT ![Owner[u]] = Append(@, <<u, Offer>>)]
        /\ next' = [next EXCEPT ![u] = Done]
    BY <1>5 DEF OfferFile, stored
  <2>2. Done = Offer + 1 /\ Offer <= Offer BY HandledBounds
  <2>3. QED BY <1>3, <2>1, <2>2
<1>6. CASE HttpUpload(u)
  <2>1. /\ next[u] = 0 /\ next' = [next EXCEPT ![u] = Offer] /\ sendq' = sendq
        /\ vault' = Append(Full(u, 0), EndMarker)
    BY <1>6, WholeAsFile DEF HttpUpload
  <2>2. sendq[Owner[u]] = <<>> /\ Handled(u) = 0
    BY <1>1, <2>1, HandledBounds DEF Queued
  <2>3. next'[u] = Offer /\ sendq'[Owner[u]] = <<>> BY <2>1, <2>2 DEF TypeOK
  <2>4. Handled(u)' = Offer BY <2>3, HandledBounds DEF Handled
  <2>5. ~putting[Owner[u]].on BY <1>1, <2>2, HandledBounds DEF Queued
  <2>6. Queued(u)'
    <3>1. Offer \in 0..Done BY HandledBounds
    <3>2. QED BY <1>1, <1>2, <2>1, <2>3, <2>4, <2>5, <3>1 DEF Queued
  <2>7. InVault(u)' BY <1>2, <2>1, <2>4, <2>5 DEF InVault
  <2>8. Nothing' /\ Offer # Done BY <1>1, <1>2, <2>2, HandledBounds
  <2>9. QED BY <2>4, <2>6, <2>7, <2>8 DEF Delivered
<1>7. QED BY <1>4, <1>5, <1>6 DEF Upload

\* What the hub has not taken up it has not offered.
LEMMA HeaderDelivers ==
  ASSUME TypeOK, TypeOK', NEW u \in Uploads, Delivered(u), NEW c \in Clients, PutHeader(c)
  PROVE  Delivered(u)'
<1> DEFINE h == Handled(u)
<1>1. Queued(u) /\ (h <= Offer => Nothing /\ InVault(u)) BY DEF Delivered
<1>2. /\ sendq[c] # <<>> /\ Head(sendq[c])[2] < Fin /\ ~putting[c].on
      /\ sendq' = [sendq EXCEPT ![c] = Tail(@)] /\ next' = next /\ cleans' = cleans
      /\ vault' = IF Head(sendq[c])[2] = 0 THEN <<Header>> ELSE Append(vault, Header)
      /\ putting' = [putting EXCEPT ![c] = [on |-> TRUE, chunk |-> Head(sendq[c]), file |-> cleans]]
  BY DEF PutHeader
<1>3. /\ c = Owner[u] /\ Head(sendq[c]) = <<u, h>>
      /\ Handled(u)' = h + 1 /\ h \in 0..Offer
      /\ \A d \in Clients : d # Owner[u] => sendq'[d] = <<>>
      /\ \A n \in 1..Len(sendq'[Owner[u]]) :
           sendq'[Owner[u]][n] = <<u, Handled(u)' + n - 1>>
  BY <1>1, <1>2, QueueShrinks
<1>4. h < Size /\ Size \in Nat /\ Offer = Size + 1 /\ Done = Size + 2
  BY <1>2, <1>3, HandledBounds
<1>5. /\ putting'[c].on /\ putting'[c].chunk = <<u, h>> /\ putting'[c].file = cleans
      /\ \A d \in Clients : d # c => putting'[d] = putting[d]
  BY <1>2, <1>3 DEF TypeOK
<1>6. h \in Nat /\ h <= Offer /\ Received(u) = h BY <1>3, <1>4 DEF Received
<1>7. PICK k \in 0..h : vault = Prefix(u, k, 2 * (h - k))
  BY <1>1, <1>2, <1>3, <1>4, <1>6 DEF InVault
<1> HIDE DEF h
<1>8. vault' = Append(vault, Header)
  <2>1. CASE h = 0
    <3>1. 2 * (h - k) = 0 BY <1>7, <2>1
    <3>2. vault = <<>> BY <1>7, <3>1, PrefixEmpty
    <3>3. QED BY <1>2, <1>3, <2>1, <3>2
  <2>2. CASE h # 0 BY <1>2, <1>3, <2>2
  <2>3. QED BY <2>1, <2>2
<1>9. vault' = Prefix(u, k, 2 * ((h + 1) - k) - 1)
  <2> DEFINE l == 2 * (h - k)
  <2>1. l \in Nat /\ (l + 1) % 2 = 1 /\ 2 * ((h + 1) - k) - 1 = l + 1 BY <1>6, <1>7
  <2>2. Item(u, k, l + 1) = Header BY <2>1 DEF Item
  <2>3. vault = Prefix(u, k, l) BY <1>7
  <2> HIDE DEF l
  <2>4. Append(Prefix(u, k, l), Item(u, k, l + 1)) = Prefix(u, k, l + 1) BY <2>1, PrefixGrows
  <2>5. QED BY <1>8, <2>1, <2>2, <2>3, <2>4
<1>10. InVault(u)'
  <2>1. k \in 0..((h + 1) - 1) BY <1>6, <1>7
  <2>2. QED BY <1>2, <1>3, <1>5, <1>9, <2>1 DEF InVault
<1>11. Queued(u)'
  <2>1. h + 1 \in 0..Done /\ h + 1 \in 1..Size /\ (h + 1) - 1 = h BY <1>4, <1>6
  <2>2. QED BY <1>1, <1>3, <1>5, <2>1 DEF Queued
<1>12. Nothing' BY <1>1, <1>6 DEF PutHeader, relayed, downloads, Nothing, Silent
<1>13. Handled(u)' # Done BY <1>3, <1>4, <1>6
<1>14. QED BY <1>10, <1>11, <1>12, <1>13 DEF Delivered

LEMMA BodyDelivers ==
  ASSUME TypeOK, TypeOK', NEW u \in Uploads, Delivered(u), NEW c \in Clients, PutBody(c)
  PROVE  Delivered(u)'
<1> DEFINE h == Handled(u)
<1>1. Queued(u) /\ (h <= Offer => Nothing /\ InVault(u)) BY DEF Delivered
<1>2. /\ putting[c].on /\ putting' = [putting EXCEPT ![c] = NotPutting]
      /\ vault' = IF putting[c].file = cleans THEN Written(vault, putting[c].chunk) ELSE vault
      /\ UNCHANGED <<next, sendq, cleans, gets, relayed, downloads>>
  BY DEF PutBody, uploading
<1>3. c = Owner[u] /\ h \in 1..Size /\ putting[c].chunk = <<u, h - 1>> BY <1>1, <1>2 DEF Queued
<1>4. Size \in Nat /\ Offer = Size + 1 /\ Done = Size + 2 BY HandledBounds
<1>5. Handled(u)' = h BY <1>2 DEF Handled
<1>6. /\ ~putting'[c].on /\ \A d \in Clients : d # c => putting'[d] = putting[d]
  BY <1>2 DEF TypeOK, NotPutting
<1>7. Queued(u)' BY <1>1, <1>2, <1>3, <1>5, <1>6 DEF Queued
<1>8. h \in Nat /\ h <= Offer /\ Received(u)' = h /\ h # Done
  BY <1>3, <1>4, <1>5 DEF Received
<1>9. serve' = serve
  <2>1. ~serve.on BY <1>1, <1>8 DEF Nothing, Silent
  <2>2. QED BY <2>1 DEF PutBody
<1>10. Nothing' BY <1>1, <1>2, <1>8, <1>9 DEF relayed, downloads, Nothing, Silent
<1>11. \E k \in 0..h : vault' = Prefix(u, k, 2 * (h - k))
  <2>1. CASE putting[c].file # cleans
    <3>1. vault' = <<>> BY <1>1, <1>2, <1>3, <1>8, <2>1 DEF InVault
    <3>2. h \in 0..h /\ 2 * (h - h) = 0 BY <1>8
    <3>3. Prefix(u, h, 2 * (h - h)) = <<>> BY <3>2, PrefixEmpty
    <3>4. QED BY <3>1, <3>2, <3>3
  <2>2. CASE putting[c].file = cleans
    <3>1. PICK k \in 0..(h - 1) : vault = Prefix(u, k, 2 * (h - k) - 1)
      BY <1>1, <1>2, <1>3, <1>8, <2>2 DEF InVault
    <3> DEFINE l == 2 * (h - k) - 1
    <3> HIDE DEF h
    <3>2. /\ l \in Nat /\ (l + 1) % 2 # 1 /\ k + ((l + 1) \div 2) - 1 = h - 1
          /\ l + 1 = 2 * (h - k) /\ k \in 0..h /\ (h - 1 = 0 => l = 1)
      BY <1>8, <3>1
    <3>3. Item(u, k, l + 1) = Body(<<u, h - 1>>) BY <3>2 DEF Item
    <3>4. vault = Prefix(u, k, l) BY <3>1
    <3> HIDE DEF l
    <3>5. Len(vault) = l BY <3>2, <3>4, PrefixItems
    <3>6. ~(h - 1 = 0 /\ Len(vault) > 1) BY <3>2, <3>5
    <3>7. vault' = Append(vault, Body(<<u, h - 1>>))
      BY <1>2, <1>3, <2>2, <3>6 DEF Written
    <3>8. Append(Prefix(u, k, l), Item(u, k, l + 1)) = Prefix(u, k, l + 1)
      BY <3>2, PrefixGrows
    <3>9. vault' = Prefix(u, k, 2 * (h - k)) BY <3>2, <3>3, <3>4, <3>7, <3>8
    <3>10. QED BY <3>2, <3>9
  <2>3. QED BY <2>1, <2>2
<1>12. InVault(u)' BY <1>3, <1>6, <1>8, <1>11 DEF InVault
<1>13. QED BY <1>5, <1>7, <1>8, <1>10, <1>12 DEF Delivered

LEMMA PutFinDelivers ==
  ASSUME TypeOK, TypeOK', NEW u \in Uploads, Delivered(u), NEW c \in Clients, PutFin(c)
  PROVE  Delivered(u)'
<1> DEFINE h == Handled(u)
<1>1. Queued(u) /\ (h <= Offer => Nothing /\ InVault(u)) BY DEF Delivered
<1>2. /\ sendq[c] # <<>> /\ Head(sendq[c])[2] = Fin /\ ~putting[c].on
      /\ sendq' = [sendq EXCEPT ![c] = Tail(@)]
      /\ UNCHANGED <<next, stored, cleans, gets, serve, relayed, downloads>>
  BY DEF PutFin
<1>3. /\ c = Owner[u] /\ Head(sendq[c]) = <<u, h>>
      /\ Handled(u)' = h + 1 /\ h \in 0..Offer
      /\ \A d \in Clients : d # Owner[u] => sendq'[d] = <<>>
      /\ \A n \in 1..Len(sendq'[Owner[u]]) :
           sendq'[Owner[u]][n] = <<u, Handled(u)' + n - 1>>
  BY <1>1, <1>2, QueueShrinks
<1>4. h = Size /\ Size \in Nat /\ Offer = Size + 1 /\ Done = Size + 2 BY <1>2, <1>3, HandledBounds
<1>5. h <= Offer /\ h # Offer /\ h + 1 # Done /\ h + 1 = Offer /\ h + 1 \in 0..Done BY <1>4
<1>6. Received(u) = Size /\ Received(u)' = Size BY <1>3, <1>4 DEF Received
<1>7. putting' = putting /\ vault' = vault BY <1>2 DEF stored
<1>8. Queued(u)' BY <1>1, <1>2, <1>3, <1>5, <1>7 DEF Queued
<1>9. Nothing' BY <1>1, <1>2, <1>5 DEF relayed, downloads, Nothing, Silent
<1>10. InVault(u)'
  <2>1. \E k \in 0..Size : vault = Prefix(u, k, 2 * (Size - k))
    BY <1>1, <1>2, <1>3, <1>5, <1>6 DEF InVault
  <2>2. QED BY <1>2, <1>3, <1>6, <1>7, <2>1 DEF InVault
<1>11. QED BY <1>3, <1>5, <1>8, <1>9, <1>10 DEF Delivered

\* The offer goes out when the file is complete from some chunk on, or gone.
LEMMA OfferDelivers ==
  ASSUME TypeOK, TypeOK', NEW u \in Uploads, Delivered(u), NEW c \in Clients, HandleOffer(c),
         ~lost'
  PROVE  Delivered(u)'
<1> DEFINE h == Handled(u)
<1>1. Queued(u) /\ (h <= Offer => Nothing /\ InVault(u)) BY DEF Delivered
<1>2. /\ sendq[c] # <<>> /\ Head(sendq[c])[2] = Offer /\ ~putting[c].on
      /\ sendq' = [sendq EXCEPT ![c] = Tail(@)] /\ SendMessage(TheOffer)
      /\ UNCHANGED <<next, stored, cleans, gets, serve, downloads>>
  BY DEF HandleOffer, TheOffer
<1>3. /\ c = Owner[u] /\ Head(sendq[c]) = <<u, h>>
      /\ Handled(u)' = h + 1 /\ h \in 0..Offer
      /\ \A d \in Clients : d # Owner[u] => sendq'[d] = <<>>
      /\ \A n \in 1..Len(sendq'[Owner[u]]) :
           sendq'[Owner[u]][n] = <<u, Handled(u)' + n - 1>>
  BY <1>1, <1>2, QueueShrinks
<1>4. h = Offer /\ Size \in Nat /\ Offer = Size + 1 /\ Done = Size + 2 /\ Size >= 1
  BY <1>2, <1>3, HandledBounds
<1>5. h + 1 = Done /\ h + 1 \in 0..Done /\ ~(Done <= Offer) /\ h <= Offer BY <1>4
<1>6. Received(u) = Size BY <1>4 DEF Received
<1>7. putting' = putting /\ vault' = vault BY <1>2 DEF stored
<1>8. Queued(u)' BY <1>1, <1>2, <1>3, <1>5, <1>7 DEF Queued
<1>9. down' = <<TheOffer>>
  <2>1. TheOffer \in Frames BY FrameTypes, UploadNumbers DEF TheOffer
  <2>2. down' = Append(down, TheOffer) BY <1>2, <2>1, Sent
  <2>3. down = <<>> BY <1>1, <1>5 DEF Nothing
  <2>4. QED BY <2>2, <2>3
<1>10. \A j \in Jobs : phase'[j] = "none" BY <1>1, <1>2, <1>5 DEF Nothing, downloads
<1>11. \E k \in 0..(Size - 1) : vault = <<>> \/ Stored(vault, u, k)
  <2>1. CASE vault = Append(Full(u, 0), EndMarker)
    <3>1. 0 \in 0..(Size - 1) BY <1>4
    <3>2. QED BY <2>1, <3>1 DEF Stored
  <2>2. CASE \E k \in 0..Size : vault = Prefix(u, k, 2 * (Size - k))
    <3>1. PICK k \in 0..Size : vault = Prefix(u, k, 2 * (Size - k)) BY <2>2
    <3>2. CASE k = Size
      <4>1. 2 * (Size - k) = 0 /\ 0 \in 0..(Size - 1) BY <1>4, <3>2
      <4>2. vault = <<>> BY <3>1, <4>1, PrefixEmpty
      <4>3. QED BY <4>1, <4>2
    <3>3. CASE k # Size
      <4>1. k \in 0..(Size - 1) BY <1>4, <3>3
      <4>2. QED BY <3>1, <4>1 DEF Stored, Full
    <3>4. QED BY <3>2, <3>3
  <2>3. QED BY <1>1, <1>2, <1>3, <1>5, <1>6, <2>1, <2>2 DEF InVault
<1>12. Offered(u)'
  <2>1. 1 \in Jobs BY UploadNumbers DEF Jobs
  <2>2. phase'[1] = "none" /\ Last(1)' BY <1>10, <2>1 DEF Last
  <2>3. QED BY <1>7, <1>9, <1>11, <2>2 DEF Offered
<1>13. QED BY <1>3, <1>5, <1>8, <1>12 DEF Delivered

LEMMA RemoveDelivers ==
  ASSUME TypeOK, TypeOK', NEW u \in Uploads, Delivered(u), serve.file <= cleans, RemoveFile
  PROVE  Delivered(u)'
<1>1. /\ vault # <<>> /\ vault' = <<>> /\ cleans' = cleans + 1
      /\ UNCHANGED <<next, sendq, putting, gets, down, phase, chan, out>>
  BY DEF RemoveFile, uploading, relayed, downloads
<1>2. cleans \in Nat /\ serve.file \in Nat /\ serve'.on = serve.on /\ serve'.pos = serve.pos
      /\ serve'.file = serve.file
  BY DEF RemoveFile, TypeOK
<1>3. serve.on => Open' = Open
  <2>1. serve.file # cleans + 1 BY <1>2
  <2>2. CASE serve.file = cleans
    <3>1. serve.on => serve'.removed = vault BY <2>2 DEF RemoveFile, TypeOK
    <3>2. QED BY <1>1, <1>2, <2>1, <2>2, <3>1 DEF Open
  <2>3. CASE serve.file # cleans
    <3>1. serve' = serve BY <2>3 DEF RemoveFile
    <3>2. QED BY <1>1, <2>1, <2>3, <3>1 DEF Open
  <2>4. QED BY <2>2, <2>3
<1>4. Handled(u)' = Handled(u) /\ (Queued(u) => Queued(u)') BY <1>1 DEF Handled, Queued
<1>5. Nothing => Nothing' BY <1>1, <1>2 DEF Nothing, Silent
<1>6. ASSUME InVault(u), Queued(u) PROVE InVault(u)'
  <2>1. CASE putting[Owner[u]].on
    <3>1. putting[Owner[u]].file = cleans BY <1>1, <1>6, <2>1 DEF InVault
    <3>2. putting[Owner[u]].file # cleans + 1 BY <1>2, <3>1
    <3>3. QED BY <1>1, <2>1, <3>2 DEF InVault
  <2>2. CASE ~putting[Owner[u]].on
    <3>1. Received(u)' = Received(u) BY <1>4 DEF Received
    <3>2. Received(u) \in Nat BY <1>6, HandledBounds DEF Queued, Received
    <3> DEFINE r == Received(u)
    <3> HIDE DEF r
    <3>3. r \in 0..r /\ 2 * (r - r) = 0 BY <3>2 DEF r
    <3>4. vault' = Prefix(u, r, 2 * (r - r)) BY <1>1, <3>3, PrefixEmpty
    <3>5. \E k \in 0..Received(u)' : vault' = Prefix(u, k, 2 * (Received(u)' - k))
      BY <3>1, <3>3, <3>4 DEF r
    <3>6. QED BY <1>1, <2>2, <3>5 DEF InVault
  <2>3. QED BY <2>1, <2>2
<1>7. ASSUME Offered(u) PROVE Offered(u)'
  <2>1. PICK k \in 0..(Size - 1) : phase[1] = "mux" => Carries(u, k) BY <1>7 DEF Offered
  <2>2. Position' = Position BY <1>2 DEF Position
  <2>3. Carries(u, k) => Carries(u, k)' BY <1>1, <1>2, <1>3, <2>2 DEF Carries
  <2>4. Last(1)' BY <1>1, <1>7 DEF Offered, Last
  <2>5. QED BY <1>1, <1>7, <2>1, <2>3, <2>4 DEF Offered
<1>8. QED BY <1>4, <1>5, <1>6, <1>7 DEF Delivered

-----------------------------------------------------------------------------
(* The download. *)

\* What happens once the offer is out.
LEMMA Later ==
  ASSUME TypeOK, NEW u \in Uploads, Delivered(u), ~Nothing, UNCHANGED <<next, sendq, putting>>,
         Offered(u) => Offered(u)'
  PROVE  Delivered(u)'
<1>1. Handled(u)' = Handled(u) /\ (Queued(u) => Queued(u)') BY DEF Handled, Queued
<1>2. ~(Handled(u) <= Offer) BY DEF Delivered
<1>3. QED BY <1>1, <1>2 DEF Delivered

LEMMA FirstUndisturbed == Undisturbed(1) /\ 1 \in Jobs
<1>1. 1..(1 - 1) = {} OBVIOUS
<1>2. QED BY <1>1, UploadNumbers DEF Undisturbed, Jobs

\* What handleFileGet reads of the stored version.
LEMMA StoredReads ==
  ASSUME TypeOK, NEW u \in Uploads, NEW k \in 0..(Size - 1), Stored(Open, u, k),
         serve.pos = 2 * Position, Position <= Size - k
  PROVE  /\ AtEnd => Position = Size - k
         /\ ~AtEnd => ReadChunk = <<u, Position + k>> /\ Position + 1 <= Size - k
<1> DEFINE l == Len(Open)  p == Position  s == 2 * (Size - k)
<1>1. l \in s..(s + 1) /\ \A n \in 1..s : Open[n] = Item(u, k, n) BY StoredItems
<1>2. p \in Nat /\ Size \in Nat /\ k \in Nat /\ k < Size BY OpenTypes, UploadNumbers
<1>3. serve.pos = 2 * p /\ p <= Size - k OBVIOUS
<1> HIDE DEF l, p
<1>4. s \in Nat /\ l \in Nat BY <1>1, <1>2
<1>5. (2 * p + 2 <= l) <=> p + 1 <= Size - k BY <1>1, <1>2, <1>3
<1>6. ASSUME p + 1 <= Size - k
      PROVE  /\ Open[2 * p + 1] = Header /\ Open[2 * p + 2] = Body(<<u, p + k>>)
  <2>1. /\ 2 * p + 1 \in 1..s /\ 2 * p + 2 \in 1..s /\ (2 * p + 1) % 2 = 1
        /\ (2 * p + 2) % 2 # 1 /\ k + ((2 * p + 2) \div 2) - 1 = p + k
    BY <1>2, <1>3, <1>6
  <2>2. QED BY <1>1, <2>1 DEF Item
<1>7. Header.part = "header" /\ Body(<<u, p + k>>).part = "body"
      /\ Body(<<u, p + k>>).chunk = <<u, p + k>>
  BY DEF Header, Body
<1>8. AtEnd <=> ~(p + 1 <= Size - k)
  BY <1>3, <1>5, <1>6, <1>7 DEF AtEnd, l
<1>9. ~AtEnd => ReadChunk = <<u, p + k>> BY <1>3, <1>6, <1>7, <1>8 DEF ReadChunk
<1>10. AtEnd => p = Size - k BY <1>2, <1>3, <1>8
<1>11. QED BY <1>8, <1>9, <1>10 DEF p

LEMMA ServeOffered ==
  ASSUME TypeOK, TypeOK', OrderInv, NEW u \in Uploads, Offered(u), ~lost', Serve
  PROVE  Offered(u)'
<1>1. UNCHANGED <<phase, chan, out, vault, cleans>>
  BY DEF Serve, HandleGet, ServeChunk, ServeFin, stored, downloads
<1>2. PICK k \in 0..(Size - 1) : /\ vault = <<>> \/ Stored(vault, u, k)
                                 /\ phase[1] = "mux" => Carries(u, k)
  BY DEF Offered
<1>3. phase[1] # "none"
  <2> SUFFICES ASSUME phase[1] = "none" PROVE FALSE OBVIOUS
  <2>1. NothingComes BY FirstUndisturbed DEF OrderInv, Quiet, Offered
  <2>2. gets = 0 /\ ~serve.on BY <2>1 DEF NothingComes, Silent
  <2>3. QED BY <2>2 DEF Serve, HandleGet, ServeChunk, ServeFin
<1>4. SUFFICES /\ \A n \in 1..Len(down') : down'[n].kind # "OFFER"
               /\ phase[1] = "mux" => Carries(u, k)'
  <2>1. Last(1)' BY <1>1 DEF Offered, Last
  <2>2. QED BY <1>1, <1>2, <1>3, <1>4, <2>1 DEF Offered
<1>5. \A n \in 1..Len(down) : down[n].kind # "OFFER" BY <1>3 DEF Offered
<1>6. CASE HandleGet
  <2>1. down' = down BY <1>6 DEF HandleGet, relayed
  <2>2. ASSUME phase[1] = "mux" PROVE Carries(u, k)'
    <3>1. CASE vault = <<>>
      <4>1. serve' = serve /\ ~serve.on BY <1>6, <3>1 DEF HandleGet
      <4>2. QED BY <1>1, <1>2, <2>1, <2>2, <4>1 DEF Carries
    <3>2. CASE vault # <<>>
      <4>1. serve'.file = cleans /\ serve'.pos = 0 BY <1>6, <3>2 DEF HandleGet, NotServing
      <4>2. Open' = vault BY <1>1, <4>1 DEF Open
      <4>3. Position' = 0 BY <4>1 DEF Position
      <4>4. 0 = 2 * 0 /\ 0 <= Size - k BY UploadNumbers
      <4>5. Stored(vault, u, k) BY <1>2, <3>2
      <4>6. QED BY <1>1, <1>2, <2>1, <2>2, <4>1, <4>2, <4>3, <4>4, <4>5 DEF Carries
    <3>3. QED BY <3>1, <3>2
  <2>3. QED BY <1>5, <2>1, <2>2
<1>7. ASSUME NEW x \in Frames, SendMessage(x), x.kind # "OFFER"
      PROVE  /\ \A n \in 1..Len(down') : down'[n].kind # "OFFER"
             /\ (\A n \in 1..Len(down) : Good(down[n], u, k)) /\ Good(x, u, k)
                  => \A n \in 1..Len(down') : Good(down'[n], u, k)
  <2> DEFINE l == Len(down)
  <2>1. /\ l \in Nat /\ Len(down') = l + 1 /\ down'[l + 1] = x
        /\ \A n \in 1..l : down'[n] = down[n]
    BY <1>7, Sent
  <2> HIDE DEF l
  <2>2. \A n \in 1..(l + 1) : n \in 1..l \/ n = l + 1 BY <2>1
  <2>3. \A n \in 1..l : down[n].kind # "OFFER" BY <1>5 DEF l
  <2>4. \A n \in 1..(l + 1) : down'[n].kind # "OFFER" BY <1>7, <2>1, <2>2, <2>3
  <2>5. ASSUME \A n \in 1..l : Good(down[n], u, k), Good(x, u, k)
        PROVE  \A n \in 1..(l + 1) : Good(down'[n], u, k)
    BY <2>1, <2>2, <2>5
  <2>6. QED BY <2>1, <2>4, <2>5 DEF l
<1>8. CASE ServeChunk
  <2> DEFINE x == [kind |-> "DATA", idx |-> Position, chunk |-> ReadChunk]
  <2>1. ~AtEnd /\ SendMessage(x) /\ serve.on BY <1>8 DEF ServeChunk
  <2>2. x \in Frames /\ x.kind = "DATA" /\ x.idx = Position /\ x.chunk = ReadChunk
    BY <2>1, OpenTypes, FrameTypes
  <2> HIDE DEF x
  <2>3. ASSUME phase[1] = "mux" PROVE Carries(u, k)'
    <3>1. Stored(Open, u, k) /\ serve.pos = 2 * Position /\ Position <= Size - k
      BY <1>2, <2>1, <2>3 DEF Carries
    <3>2. ReadChunk = <<u, Position + k>> /\ Position + 1 <= Size - k
      BY <2>1, <3>1, StoredReads
    <3>3. Good(x, u, k) BY <2>2, <3>2 DEF Good
    <3>4. \A n \in 1..Len(down') : Good(down'[n], u, k)
      BY <1>2, <1>7, <2>1, <2>2, <2>3, <3>3 DEF Carries
    <3>5. ReadChunk # Garbage
      <4>1. u # 0 BY UploadNumbers
      <4>2. QED BY <3>2, <4>1 DEF Garbage
    <3>6. Position' = Position + 1 BY <1>8, <3>5, ServeAdvances
    <3>7. serve'.pos = serve.pos + 2 /\ serve'.file = serve.file /\ serve'.removed = serve.removed
      BY <1>8, <3>5 DEF ServeChunk, TypeOK
    <3>8. Open' = Open BY <1>1, <3>7 DEF Open
    <3>9. serve'.pos = 2 * Position'
      <4> DEFINE p == Position
      <4>1. p \in Nat /\ serve'.pos = 2 * p + 2 /\ Position' = p + 1 BY <3>1, <3>6, <3>7, OpenTypes
      <4> HIDE DEF p
      <4>2. QED BY <4>1
    <3>10. QED BY <1>1, <1>2, <2>3, <3>1, <3>2, <3>4, <3>6, <3>8, <3>9 DEF Carries
  <2>4. QED BY <1>7, <2>1, <2>2, <2>3
<1>9. CASE ServeFin
  <2> DEFINE x == [kind |-> "FIN", idx |-> Position, chunk |-> NoChunk]
  <2>1. AtEnd /\ SendMessage(x) /\ serve.on BY <1>9 DEF ServeFin
  <2>2. x \in Frames /\ x.kind = "FIN" /\ x.idx = Position
    BY OpenTypes, FrameTypes, UploadNumbers
  <2> HIDE DEF x
  <2>3. ASSUME phase[1] = "mux" PROVE Carries(u, k)'
    <3>1. Stored(Open, u, k) /\ serve.pos = 2 * Position /\ Position <= Size - k
      BY <1>2, <2>1, <2>3 DEF Carries
    <3>2. Position = Size - k BY <2>1, <3>1, StoredReads
    <3>3. Good(x, u, k) BY <2>2, <3>2 DEF Good
    <3>4. \A n \in 1..Len(down') : Good(down'[n], u, k)
      BY <1>2, <1>7, <2>1, <2>2, <2>3, <3>3 DEF Carries
    <3>5. serve'.on = FALSE BY <1>9 DEF ServeFin, NotServing
    <3>6. QED BY <1>1, <1>2, <2>3, <3>4, <3>5 DEF Carries
  <2>4. QED BY <1>7, <2>1, <2>2, <2>3
<1>10. QED BY <1>6, <1>8, <1>9 DEF Serve

LEMMA ReadOffered ==
  ASSUME TypeOK, TypeOK', OrderInv, NEW u \in Uploads, Offered(u), ~lost', ReadPump
  PROVE  Offered(u)'
<1>1. /\ down # <<>> /\ down' = Tail(down)
      /\ UNCHANGED <<vault, gets, serve, fileGets, out, cleans>>
  BY DEF ReadPump, ReadOffer, ReadData, stored
<1>2. PICK k \in 0..(Size - 1) : /\ vault = <<>> \/ Stored(vault, u, k)
                                 /\ phase[1] = "mux" => Carries(u, k)
  BY DEF Offered
<1>3. /\ Head(down) = down[1] /\ 1 \in 1..Len(down)
      /\ \A n \in 1..Len(down') : n + 1 \in 1..Len(down) /\ down'[n] = down[n + 1]
  BY <1>1, DownTail
<1>4. CASE ReadOffer
  <2>1. Head(down).kind = "OFFER" BY <1>4 DEF ReadOffer
  <2>2. phase[1] = "none" BY <1>3, <2>1 DEF Offered
  <2>3. down' = <<>>
    <3>1. down = <<TheOffer>> BY <1>1, <2>2 DEF Offered
    <3>2. QED BY <1>1, <3>1
  <2>4. CASE phase' = phase
    <3>1. Last(1)' BY <2>4 DEF Offered, Last
    <3>2. QED BY <1>1, <1>2, <2>2, <2>3, <2>4, <3>1 DEF Offered
  <2>5. CASE phase' # phase
    <3>1. PICK j \in Jobs : /\ \A i \in 1..(j - 1) : phase[i] # "none"
                            /\ phase' = [phase EXCEPT ![j] = "start"]
      BY <1>4, <2>5 DEF ReadOffer
    <3>2. j = 1
      <4>1. j \in Nat \ {0} BY UploadNumbers DEF Jobs
      <4>2. 1 \in 1..(j - 1) \/ j = 1 BY <4>1
      <4>3. QED BY <2>2, <3>1, <4>2
    <3>3. phase'[1] = "start" /\ \A i \in Jobs : i # 1 => phase'[i] = phase[i]
      BY <3>1, <3>2 DEF TypeOK
    <3>4. Last(1)'
      <4>1. \A i \in Jobs : i > 1 => i # 1 BY UploadNumbers DEF Jobs
      <4>2. QED BY <3>3, <4>1 DEF Offered, Last
    <3>5. \A n \in 1..Len(down') : down'[n].kind # "OFFER" BY <2>3
    <3>6. QED BY <1>1, <1>2, <3>3, <3>4, <3>5 DEF Offered
  <2>6. QED BY <2>4, <2>5
<1>5. CASE ReadData
  <2>1. phase' = phase /\ Head(down).kind # "OFFER" BY <1>5 DEF ReadData
  <2>2. phase[1] # "none"
    <3> SUFFICES ASSUME phase[1] = "none" PROVE FALSE OBVIOUS
    <3>1. down = <<TheOffer>> BY <1>1 DEF Offered
    <3>2. QED BY <2>1, <3>1 DEF TheOffer
  <2>3. \A n \in 1..Len(down') : down'[n].kind # "OFFER" BY <1>3, <2>2 DEF Offered
  <2>4. ASSUME phase[1] = "mux" PROVE Carries(u, k)'
    <3> DEFINE q == chan[1]  x == Head(down)  l == Len(q)
    <3>1. Carries(u, k) BY <1>2, <2>4
    <3>2. fileGets = 1 BY <2>4, FirstUndisturbed DEF OrderInv, Streams, Stream
    <3>3. chan' = [chan EXCEPT ![1] = Append(q, x)]
      <4>1. Registered BY <3>2 DEF Registered
      <4>2. HasRoom
        <5>1. lost' = (lost \/ (Registered /\ ~HasRoom)) BY <1>5 DEF ReadData
        <5>2. QED BY <4>1, <5>1
      <4>3. QED BY <1>5, <3>2, <4>1, <4>2 DEF ReadData
    <3>4. q \in Seq(Frames) /\ x \in Frames /\ chan'[1] = Append(q, x)
      <4>1. q \in Seq(Frames) /\ x \in Frames BY <1>1, FirstUndisturbed, DownTail DEF TypeOK
      <4>2. QED BY <3>3, <4>1, FirstUndisturbed DEF TypeOK
    <3>5. Good(x, u, k) BY <1>3, <3>1 DEF Carries
    <3>6. \A n \in 1..l : Good(q[n], u, k) BY <3>1 DEF Carries
    <3> HIDE DEF q, x
    <3>7. l \in Nat /\ Len(chan'[1]) = l + 1 /\ chan'[1][l + 1] = x
          /\ \A n \in 1..l : chan'[1][n] = q[n]
      BY <3>4, AppendProperties
    <3> HIDE DEF l
    <3>8. \A n \in 1..(l + 1) : n \in 1..l \/ n = l + 1 BY <3>7
    <3>9. \A n \in 1..Len(chan'[1]) : Good(chan'[1][n], u, k) BY <3>5, <3>6, <3>7, <3>8
    <3>10. \A n \in 1..Len(down') : Good(down'[n], u, k) BY <1>3, <3>1 DEF Carries
    <3>11. Position' = Position /\ Open' = Open BY <1>1 DEF Position, Open
    <3>12. QED BY <1>1, <3>1, <3>9, <3>10, <3>11 DEF Carries
  <2>5. Last(1)' BY <2>1 DEF Offered, Last
  <2>6. QED BY <1>1, <1>2, <2>1, <2>2, <2>3, <2>4, <2>5 DEF Offered
<1>6. QED BY <1>4, <1>5 DEF ReadPump

\* The closing frame tells how many chunks were sent: as many as were written.
LEMMA WholeReceived ==
  ASSUME TypeOK, OrderInv, NEW u \in Uploads, NEW k \in 0..(Size - 1), Carries(u, k),
         ~lost, phase[1] = "mux", chan[1] # <<>>, Head(chan[1]).kind = "FIN"
  PROVE  out[1] = Whole(u)
<1> DEFINE o == out[1]  q == chan[1]  e == ~lost  on == serve.on  p == Position
<1>1. Stream(1) /\ InOrder BY FirstUndisturbed DEF OrderInv, Streams
<1>2. o \in Seq(Chunk) /\ q \in Seq(Frames) BY FirstUndisturbed DEF TypeOK
<1>3. q # <<>> /\ Head(q) = q[1] /\ 1 \in 1..Len(q) /\ Head(q).kind = "FIN"
  <2>1. q # <<>> /\ Head(q).kind = "FIN" OBVIOUS
  <2> HIDE DEF q
  <2>2. QED BY <1>2, <2>1
<1>4. Head(q).idx = Size - k BY <1>3 DEF Carries, Good
<1>5. e \in BOOLEAN /\ e /\ Linked(o, q, down, on, p, e) BY <1>1 DEF Stream, TypeOK
<1> HIDE DEF q, e, on, p
<1>6. PICK g \in Marks(q) : Flow(g, q, e) /\ (e => g[1] = Len(o)) BY <1>5 DEF Linked
<1>7. Passes(g[1], Head(q), g[2], e) BY <1>2, <1>3, <1>5, <1>6, FlowTail
<1>8. g[1] = Head(q).idx BY <1>3, <1>5, <1>7 DEF Passes
<1>9. Len(o) = Size - k /\ Size \in Nat /\ Len(o) # 0 /\ k \in Nat
  BY <1>4, <1>5, <1>6, <1>8, UploadNumbers
<1>10. Len(o) = Size /\ \A n \in 1..Size : o[n][1] = u
  <2>1. 1 \in 1..Len(o) BY <1>9
  <2>2. k = 0 /\ \A n \in 1..Len(o) : o[n][1] = u BY <2>1 DEF Carries
  <2>3. Len(o) = Size BY <1>9, <2>2
  <2>4. QED BY <2>2, <2>3
<1>11. \A n \in 1..Size : o[n][2] = n - 1 BY <1>1, <1>10, FirstUndisturbed DEF InOrder
<1>12. \A n \in 1..Size : o[n] = <<u, n - 1>>
  <2>1. \A n \in 1..Size : o[n] \in Chunk BY <1>2, <1>10
  <2>2. \A c \in Chunk : c = <<c[1], c[2]>> BY DEF Chunk
  <2>3. QED BY <1>10, <1>11, <2>1, <2>2
<1>13. Whole(u) \in Seq(Chunk) /\ Len(Whole(u)) = Size /\ \A n \in 1..Size : Whole(u)[n] = <<u, n - 1>>
  BY WholeType DEF Whole
<1> HIDE DEF o
<1>14. o = Whole(u)
  <2> DEFINE w == Whole(u)
  <2>1. o \in Seq(Chunk) /\ w \in Seq(Chunk) /\ Len(o) = Len(w) BY <1>2, <1>10, <1>13
  <2>2. \A n \in 1..Len(o) : o[n] = w[n] BY <1>10, <1>12, <1>13
  <2> HIDE DEF w
  <2>3. o = w BY <2>1, <2>2, SeqEqual
  <2>4. QED BY <2>3 DEF w
<1>15. QED BY <1>14 DEF o

LEMMA DownloadOffered ==
  ASSUME TypeOK, TypeOK', OrderInv, NEW u \in Uploads, Offered(u), ~lost', NEW j \in Jobs,
         Download(j)
  PROVE  Offered(u)'
<1>1. PICK k \in 0..(Size - 1) : /\ vault = <<>> \/ Stored(vault, u, k)
                                 /\ phase[1] = "mux" => Carries(u, k)
  BY DEF Offered
<1>2. j = 1 /\ phase[1] # "none"
  <2>1. phase[j] # "none"
    BY DEF Download, StartMux, TakeData, TakeFin, Timeout, HttpSucceeds, HttpFails,
           HttpEnds, EndDownload
  <2>2. j \in Nat \ {0} BY UploadNumbers DEF Jobs
  <2>3. j = 1 \/ j > 1 BY <2>2
  <2>4. QED BY <2>1, <2>3 DEF Offered, Last
<1>3. UNCHANGED <<vault, serve, down, lost, cleans>>
  BY DEF Download, StartMux, TakeData, TakeFin, Timeout, HttpSucceeds, HttpFails,
         HttpEnds, EndDownload, stored, relayed
<1>4. \A n \in 1..Len(down) : down[n].kind # "OFFER" BY <1>2 DEF Offered
<1>5. ASSUME NEW x, phase' = [phase EXCEPT ![j] = x], x # "none",
             x \in {"ending", "done"} => out'[1] = Whole(u),
             x = "mux" => Carries(u, k)'
      PROVE  Offered(u)'
  <2>1. phase'[1] = x /\ \A i \in Jobs : i # 1 => phase'[i] = phase[i]
    BY <1>2, <1>5, FirstUndisturbed DEF TypeOK
  <2>2. Last(1)'
    <3>1. \A i \in Jobs : i > 1 => i # 1 BY UploadNumbers DEF Jobs
    <3>2. QED BY <2>1, <3>1 DEF Offered, Last
  <2>3. QED BY <1>1, <1>3, <1>4, <1>5, <2>1, <2>2 DEF Offered
<1>6. Position' = Position /\ Open' = Open BY <1>3 DEF Position, Open
<1>7. CASE StartMux(j)
  <2>1. phase[1] = "start" /\ phase' = [phase EXCEPT ![j] = "mux"] /\ UNCHANGED <<chan, out>>
    BY <1>2, <1>7 DEF StartMux
  <2>2. NothingComes BY <2>1, FirstUndisturbed DEF OrderInv, Quiet, Offered
  <2>3. out[1] = <<>> /\ chan[1] = <<>> BY <2>1, FirstUndisturbed DEF OrderInv, FreshJobs
  <2>4. Len(down) = 0
    <3>1. Len(down) \in Nat BY DEF TypeOK
    <3>2. \A n \in 1..Len(down) : FALSE BY <1>4, <2>2 DEF NothingComes, Offers
    <3> DEFINE l == Len(down)
    <3> HIDE DEF l
    <3>3. l \in Nat /\ \A n \in 1..l : FALSE BY <3>1, <3>2 DEF l
    <3>4. l = 0 BY <3>3
    <3>5. QED BY <3>4 DEF l
  <2>5. ~serve.on BY <2>2 DEF NothingComes, Silent
  <2>6. Carries(u, k)'
    <3>1. \A n \in 1..Len(down') : FALSE BY <1>3, <2>4
    <3>2. \A n \in 1..Len(chan'[1]) : FALSE BY <2>1, <2>3
    <3>3. \A n \in 1..Len(out'[1]) : FALSE BY <2>1, <2>3
    <3>4. QED BY <1>3, <2>5, <3>1, <3>2, <3>3 DEF Carries
  <2>7. QED BY <1>5, <2>1, <2>6
<1>8. CASE TakeData(j) /\ DecryptChunk(Head(chan[j]))
  <2> DEFINE q == chan[1]  x == Head(q)  o == out[1]  l == Len(o)
  <2>1. /\ phase[1] = "mux" /\ q # <<>> /\ x.kind = "DATA" /\ DecryptChunk(x)
        /\ out' = [out EXCEPT ![1] = Append(o, x.chunk)]
        /\ chan' = [chan EXCEPT ![1] = Tail(q)] /\ phase' = phase
    BY <1>2, <1>8 DEF TakeData
  <2>2. Carries(u, k) BY <1>1, <2>1
  <2>3. out'[1] = Append(o, x.chunk) /\ chan'[1] = Tail(q) BY <2>1, FirstUndisturbed DEF TypeOK
  <2>4. q \in Seq(Frames) /\ o \in Seq(Chunk) BY FirstUndisturbed DEF TypeOK
  <2>5. \A n \in 1..Len(q) : Good(q[n], u, k) BY <2>2 DEF Carries
  <2>6. \A n \in 1..l : o[n][1] = u /\ k = 0 BY <2>2 DEF Carries
  <2> HIDE DEF q, o
  <2>7. /\ Len(q) \in Nat /\ Len(q) # 0 /\ x = q[1] /\ Len(Tail(q)) = Len(q) - 1 /\ x \in Frames
        /\ \A n \in 1..(Len(q) - 1) : Tail(q)[n] = q[n + 1]
    BY <2>1, <2>4
  <2> HIDE DEF x
  <2>8. Good(x, u, k)
    <3> DEFINE m == Len(q)
    <3>1. m \in Nat /\ m # 0 BY <2>7
    <3> HIDE DEF m
    <3>2. 1 \in 1..m BY <3>1
    <3>3. QED BY <2>5, <2>7, <3>2 DEF m
  <2>9. x.chunk = <<u, x.idx + k>> /\ x.chunk \in Chunk /\ x.chunk[2] = x.idx /\ x.idx \in Nat
    BY <2>1, <2>7, <2>8 DEF Good, DecryptChunk, Frames
  <2>10. x.chunk[1] = u /\ k = 0
    <3>1. x.chunk[2] = x.idx + k /\ x.chunk[1] = u BY <2>9
    <3>2. QED BY <2>9, <3>1
  <2>11. \A n \in 1..Len(out'[1]) : out'[1][n][1] = u /\ k = 0
    <3>1. l \in Nat /\ Len(out'[1]) = l + 1 /\ out'[1][l + 1] = x.chunk
          /\ \A n \in 1..l : out'[1][n] = o[n]
      BY <2>3, <2>4, <2>9, AppendProperties
    <3> HIDE DEF l
    <3>2. \A n \in 1..(l + 1) : n \in 1..l \/ n = l + 1 BY <3>1
    <3>3. QED BY <2>6, <2>10, <3>1, <3>2
  <2>12. \A n \in 1..Len(chan'[1]) : Good(chan'[1][n], u, k)
    <3> DEFINE m == Len(q)
    <3>1. /\ m \in Nat /\ m # 0 /\ Len(chan'[1]) = m - 1
          /\ \A n \in 1..(m - 1) : chan'[1][n] = q[n + 1]
      BY <2>3, <2>7
    <3>2. \A n \in 1..m : Good(q[n], u, k) BY <2>5
    <3> HIDE DEF m
    <3>3. \A n \in 1..(m - 1) : n + 1 \in 1..m BY <3>1
    <3>4. QED BY <3>1, <3>2, <3>3
  <2>13. Carries(u, k)' BY <1>3, <1>6, <2>2, <2>11, <2>12 DEF Carries
  <2>14. Last(1)' BY <2>1 DEF Offered, Last
  <2>15. QED BY <1>1, <1>3, <1>4, <2>1, <2>13, <2>14 DEF Offered
<1>9. CASE (TakeData(j) /\ ~DecryptChunk(Head(chan[j]))) \/ Timeout(j)
  <2>1. phase' = [phase EXCEPT ![j] = "http"] BY <1>9 DEF TakeData, Timeout, MuxFails
  <2>2. QED BY <1>5, <2>1
<1>10. CASE TakeFin(j)
  <2>1. /\ phase[1] = "mux" /\ chan[1] # <<>> /\ Head(chan[1]).kind = "FIN"
        /\ phase' = [phase EXCEPT ![j] = "ending"] /\ out' = out
    BY <1>2, <1>10 DEF TakeFin
  <2>2. Carries(u, k) /\ ~lost BY <1>1, <1>3, <2>1
  <2>3. out[1] = Whole(u) BY <2>1, <2>2, WholeReceived
  <2>4. QED BY <1>5, <2>1, <2>3
<1>11. CASE HttpSucceeds(j) \/ HttpFails(j)
  <2>1. phase' = [phase EXCEPT ![j] = "leaving"] BY <1>11 DEF HttpSucceeds, HttpFails, HttpEnds
  <2>2. QED BY <1>5, <2>1
<1>12. CASE EndDownload(j)
  <2>1. CASE phase[j] = "ending"
    <3>1. phase' = [phase EXCEPT ![j] = "done"] /\ out' = out BY <1>12, <2>1 DEF EndDownload
    <3>2. out[1] = Whole(u) BY <1>2, <2>1 DEF Offered
    <3>3. QED BY <1>5, <3>1, <3>2
  <2>2. CASE phase[j] # "ending"
    <3>1. phase' = [phase EXCEPT ![j] = "fellBack"] BY <1>12, <2>2 DEF EndDownload
    <3>2. QED BY <1>5, <3>1
  <2>3. QED BY <2>1, <2>2
<1>13. QED BY <1>7, <1>8, <1>9, <1>10, <1>11, <1>12 DEF Download

LEMMA SoleStep ==
  ASSUME TypeOK, TypeOK', OrderInv, SoleInv, [Next]_vars
  PROVE  SoleInv'
<1>1. NoUpload' /\ serve'.file <= cleans' BY NoUploadStep, FileKnown DEF SoleInv
<1>2. ASSUME NEW u \in Uploads, Sole(u)' PROVE Delivered(u)'
  <2>1. ~lost' /\ parked'[Owner[u]] = <<>> BY <1>2 DEF Sole
  <2>2. Delivered(u)
    <3>1. Sole(u) \/ \A v \in Uploads : next[v] = 0 BY <1>2, SoleBefore
    <3>2. QED BY <3>1, NothingUploaded DEF SoleInv
  <2>3. CASE UNCHANGED vars
    <3>1. UNCHANGED <<next, sendq, parked, vault, putting, gets, serve, down, phase, chan, out, cleans>>
      BY <2>3 DEF vars, uploading, stored, relayed, downloads
    <3>2. Handled(u)' = Handled(u) /\ Open' = Open /\ Position' = Position /\ (Nothing <=> Nothing')
      BY <3>1 DEF Handled, Open, Position, Nothing, Silent
    <3>3. (InVault(u) <=> InVault(u)') /\ (Queued(u) <=> Queued(u)')
      BY <3>1, <3>2 DEF InVault, Queued, Received
    <3>4. \A k : Carries(u, k) <=> Carries(u, k)' BY <3>1, <3>2 DEF Carries
    <3>5. Last(1) <=> Last(1)' BY <3>1 DEF Last
    <3>6. Offered(u) <=> Offered(u)' BY <3>1, <3>4, <3>5 DEF Offered
    <3>7. QED BY <2>2, <3>2, <3>3, <3>6 DEF Delivered
  <2>4. ASSUME NEW v \in Uploads, Upload(v) PROVE Delivered(u)'
    <3>1. v = u BY <1>2, <2>4, SoleBefore
    <3>2. QED BY <2>1, <2>2, <2>4, <3>1, UploadDelivers
  <2>5. ASSUME NEW c \in Clients, Handle(c) PROVE Delivered(u)'
    BY <2>1, <2>2, <2>5, HeaderDelivers, BodyDelivers, PutFinDelivers, OfferDelivers DEF Handle
  <2>6. CASE RemoveFile BY <2>2, <2>6, RemoveDelivers DEF SoleInv
  <2>7. CASE Serve
    <3>1. ~Nothing /\ UNCHANGED <<next, sendq, putting>>
      BY <2>7 DEF Serve, HandleGet, ServeChunk, ServeFin, Nothing, Silent, uploading, stored
    <3>2. QED BY <2>1, <2>2, <2>7, <3>1, Later, ServeOffered
  <2>8. CASE ReadPump
    <3>1. ~Nothing /\ UNCHANGED <<next, sendq, putting>>
      BY <2>8 DEF ReadPump, ReadOffer, ReadData, Nothing, uploading, stored
    <3>2. QED BY <2>1, <2>2, <2>8, <3>1, Later, ReadOffered
  <2>9. ASSUME NEW j \in Jobs, Download(j) PROVE Delivered(u)'
    <3>1. phase[j] # "none" /\ UNCHANGED <<next, sendq, putting>>
      BY <2>9 DEF Download, StartMux, TakeData, TakeFin, Timeout, HttpSucceeds, HttpFails,
                  HttpEnds, EndDownload, uploading, stored
    <3>2. ~Nothing BY <3>1 DEF Nothing
    <3>3. QED BY <2>1, <2>2, <2>9, <3>1, <3>2, Later, DownloadOffered
  <2>10. QED BY <2>3, <2>4, <2>5, <2>6, <2>7, <2>8, <2>9 DEF Next, Cleanup, DeleteBlob
<1>3. QED BY <1>1, <1>2 DEF SoleInv

LEMMA SoleComplete == TypeOK /\ SoleInv => SuccessIsComplete
<1> SUFFICES ASSUME TypeOK, SoleInv, NEW u \in Uploads, Sole(u), NEW j \in Jobs,
                    phase[j] \in {"ending", "done"}
             PROVE  out[j] = Whole(u)
  BY DEF SuccessIsComplete, Sole
<1>1. Delivered(u) BY DEF SoleInv
<1>2. ~Nothing BY DEF Nothing
<1>3. Handled(u) = Done BY <1>1, <1>2, HandledBounds DEF Delivered, Queued
<1>4. Offered(u) BY <1>1, <1>3 DEF Delivered
<1>5. j = 1
  <2>1. j \in Nat \ {0} BY UploadNumbers DEF Jobs
  <2>2. j = 1 \/ j > 1 BY <2>1
  <2>3. QED BY <1>4, <2>2 DEF Offered, Last
<1>6. QED BY <1>4, <1>5 DEF Offered

\* A download through the chat session that succeeds has written every chunk of
\* the version, as long as it is the only one and no queue was full: whatever the
\* cleanup removes while the hub takes the chunks or sends them, and whenever the
\* deadline passes.
THEOREM DownloadIsComplete == Spec => []SuccessIsComplete
<1>1. Init => TypeOK /\ OrderInv /\ SoleInv BY VaultInitTyped, OrderInit, SoleInit
<1>2. TypeOK /\ OrderInv /\ SoleInv /\ [Next]_vars => (TypeOK /\ OrderInv /\ SoleInv)'
  BY VaultStepTyped, OrderStep, SoleStep
<1>3. TypeOK /\ OrderInv /\ SoleInv => SuccessIsComplete BY SoleComplete
<1>4. QED BY <1>1, <1>2, <1>3, PTL DEF Spec
=============================================================================
