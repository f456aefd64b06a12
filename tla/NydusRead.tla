----------------------------- MODULE NydusRead -----------------------------
(***************************************************************************)
(* Reads of a file of a Nydus image, from src/image/nydus.rs: read walks   *)
(* the file's chunks and takes each from ChunkDB or, when it is not there, *)
(* from the blob, and hands what it read to a worker that stores it.       *)
(*                                                                         *)
(* The blob is read through DedupReader::fetch (module DedupRange).  A     *)
(* file byte is its offset, a chunk's data the number of its bytes that    *)
(* are there.  ChunkDB is shared with other mounts and the collector.  The *)
(* file may be in several images of one host, so where a chunk lies in a   *)
(* blob and how it is packed is open at each read.  One read is modelled   *)
(* at a time: concurrent ones share only ChunkDB, IndexDB and the queue.   *)
(***************************************************************************)
EXTENDS DedupRange

CONSTANTS
    FileSize,     \* inode.size()
    FileChunk,    \* sb.meta.chunk_size
    MaxOffset,    \* u64::MAX
    QueueSize,    \* CHUNK_STORE_REQ_BUF_SIZE
    StoreBatch,   \* CHUNK_STORE_BATCH_SIZE
    MaxReads      \* bound: reads

ASSUME NydusReadAssumption ==
    /\ FileSize \in Nat \ {0} /\ FileChunk \in Nat \ {0}
    /\ MaxOffset \in Nat /\ MaxOffset >= FileSize
    /\ QueueSize \in Nat \ {0} /\ StoreBatch \in Nat \ {0}
    /\ MaxReads \in Nat

FileChunks == 0 .. ((FileSize - 1) \div FileChunk)

\* The uncompressed size of chunk k.
USize(k) == Minimum(FileChunk, FileSize - k * FileChunk)

VARIABLES
    chunkdb,     \* chunk -> bytes that ChunkDB has under its checksum, 0 if none
    step,        \* where the read is
    request,     \* its offset and the bytes to read
    chunk,       \* the chunk it is at
    remaining,   \* bytes it has still to write
    out,         \* file bytes in the reply
    data,        \* bytes of the chunk that came from the blob
    queue,       \* the store requests in the channel
    batch,       \* those that the worker has taken
    worker,      \* where the worker is
    mount,       \* the image, up to the end of its drop
    reads,       \* reads so far
    sent,        \* history: requests the channel has taken
    handed       \* history: requests handed to add_chunks

read == <<step, request, chunk, remaining, out, data>>
store == <<queue, batch, worker, sent, handed>>
vars == <<blob, chunkdb, read, store, mount, reads>>

TypeOK ==
    /\ records \in SUBSET [off : 0 .. ImageSize, len : 1 .. ChunkSize, valid : {TRUE}]
    /\ \A r \in records : End(r) <= ImageSize
    /\ \A k \in FileChunks : chunkdb[k] \in {0, USize(k)}
    /\ step \in {"idle", "chunk", "blob", "decode", "write", "done", "failed"}
    /\ request \in (0 .. MaxOffset) \X (0 .. FileSize)
    /\ remaining \in 0 .. request[2]
    /\ remaining > 0 => chunk \in FileChunks
    /\ data \in 0 .. FileChunk
    /\ Len(queue) <= QueueSize /\ Len(batch) <= StoreBatch
    /\ worker \in {"recv", "add", "ended"}
    /\ mount \in {"open", "dropping", "closed"}
    /\ reads \in 0 .. MaxReads

\* NydusImage::new: the worker waits for requests.
Init ==
    /\ BlobInit
    /\ chunkdb = [k \in FileChunks |-> 0]
    /\ step = "idle" /\ request = <<0, 0>> /\ chunk = 0 /\ remaining = 0
    /\ out = <<>> /\ data = 0
    /\ queue = <<>> /\ batch = <<>> /\ worker = "recv"
    /\ mount = "open" /\ reads = 0
    /\ sent = <<>> /\ handed = <<>>
----------------------------------------------------------------------------
(* A read                                                                    *)

\* check_read_range, for an offset and a size whose sum is an offset.
CheckReadRange(off, size) == IF off >= FileSize THEN 0 ELSE Minimum(size, FileSize - off)

Idle == step \in {"idle", "done", "failed"}

Read(off, size) ==
    LET n == IF off + size > MaxOffset THEN 0 ELSE CheckReadRange(off, size)
    IN /\ mount = "open" /\ Idle
       /\ reads < MaxReads
       /\ reads' = reads + 1
       /\ request' = <<off, n>>
       /\ remaining' = n
       /\ chunk' = off \div FileChunk
       /\ out' = <<>>
       /\ step' = IF off + size > MaxOffset THEN "failed" ELSE IF n = 0 THEN "done" ELSE "chunk"
       /\ UNCHANGED <<blob, chunkdb, data, store, mount>>

\* read_chunk_into_writer: where the read starts in the chunk, and how much it wants.
ChunkOffset == IF request[1] > chunk * FileChunk THEN request[1] - chunk * FileChunk ELSE 0
Wanted == Minimum(remaining, USize(chunk) - ChunkOffset)

\* Mutant: every chunk is read from its first byte.
WrittenFromStart ==
    /\ out' = out \o [i \in 1 .. Wanted |-> chunk * FileChunk + i - 1]
    /\ remaining' = remaining - Wanted
    /\ chunk' = chunk + 1
    /\ step' = IF remaining = Wanted THEN "done" ELSE "chunk"

\* The writer takes the bytes, and read goes on with the next chunk.
Written ==
    /\ out' = out \o [i \in 1 .. Wanted |-> chunk * FileChunk + ChunkOffset + i - 1]
    /\ remaining' = remaining - Wanted
    /\ chunk' = chunk + 1
    /\ step' = IF remaining = Wanted THEN "done" ELSE "chunk"

(* read_from_chunkdb: with_chunk_range refuses a range past the chunk's end. *)
InChunkDB == chunkdb[chunk] > 0 /\ ChunkOffset + Wanted <= chunkdb[chunk]

ReadFromChunkDB ==
    /\ step = "chunk"
    /\ InChunkDB
    /\ Written
    /\ UNCHANGED <<blob, chunkdb, request, data, store, mount, reads>>

\* The chunk is not there, or the writer refuses it: both are taken for a miss.
ChunkDBMiss ==
    /\ step = "chunk"
    /\ step' = "blob"
    /\ UNCHANGED <<blob, chunkdb, request, chunk, remaining, out, data, store, mount, reads>>

\* read_chunk_data of a chunk without data in the blob.
ReadHole ==
    /\ step = "blob"
    /\ data' = USize(chunk)
    /\ step' = "write"
    /\ UNCHANGED <<blob, chunkdb, request, chunk, remaining, out, store, mount, reads>>

(* read_blob_range: the chunk's range, of which a truncated blob lacks the   *)
(* end; what is fetched behind the end is empty, a short read.               *)
ReadBlobRange(off, len) ==
    /\ step = "blob"
    /\ Fetch(off, len)
    /\ step' = IF off + len <= ImageSize THEN "decode" ELSE "failed"
    /\ UNCHANGED <<chunkdb, request, chunk, remaining, out, data, store, mount, reads>>

\* Encrypted and batch chunks, a blob that has no reader, and failed fetches.
ReadBlobFails ==
    /\ step = "blob"
    /\ step' = "failed"
    /\ UNCHANGED <<blob, chunkdb, request, chunk, remaining, out, data, store, mount, reads>>

(* The end of read_chunk_data.  A chunk that is not compressed is cut to its *)
(* size; decompressing one gives what it gives, at most its size.            *)
Decode ==
    /\ step = "decode"
    /\ \/ query[2] >= USize(chunk) /\ data' = USize(chunk) /\ step' = "write"
       \/ query[2] < USize(chunk) /\ step' = "failed" /\ UNCHANGED data
       \/ \E n \in 0 .. USize(chunk) : data' = n /\ step' = "write"
    /\ query' = <<0, 0>> /\ infos' = <<>>     \* the buffer is dropped
    /\ UNCHANGED <<records, chunkdb, request, chunk, remaining, out, store, mount, reads>>

\* store_chunk_bg: a full channel takes nothing and the chunk is dropped.
StoreChunkBg(k, n) ==
    IF Len(queue) < QueueSize
      THEN queue' = Append(queue, <<k, n>>) /\ sent' = Append(sent, <<k, n>>)
      ELSE UNCHANGED <<queue, sent>>

\* Mutant: what a damaged chunk has decompressed to is stored as well.
IsWholeNever(n) == TRUE

\* Only a chunk of full length is stored.
IsWhole(n) == n = USize(chunk)

WriteData ==
    /\ step = "write"
    /\ ChunkOffset + Wanted <= data
    /\ Written
    /\ IF IsWhole(data) THEN StoreChunkBg(chunk, data) ELSE UNCHANGED <<queue, sent>>
    /\ UNCHANGED <<blob, chunkdb, request, data, batch, worker, handed, mount, reads>>

\* The data is too short, or the writer fails.
WriteFails ==
    /\ step = "write"
    /\ step' = "failed"
    /\ UNCHANGED <<blob, chunkdb, request, chunk, remaining, out, data, store, mount, reads>>
----------------------------------------------------------------------------
(* ChunkStoreWorker                                                          *)

\* recv, and try_recv while the batch has room.
Recv ==
    /\ worker = "recv"
    /\ queue # <<>> /\ Len(batch) < StoreBatch
    /\ batch' = Append(batch, Head(queue))
    /\ queue' = Tail(queue)
    /\ UNCHANGED <<blob, chunkdb, read, worker, sent, handed, mount, reads>>

\* Mutant: the worker waits until the batch is full.
CollectedFull ==
    /\ worker = "recv"
    /\ Len(batch) = StoreBatch
    /\ worker' = "add"
    /\ UNCHANGED <<blob, chunkdb, read, queue, batch, sent, handed, mount, reads>>

\* The batch is full or try_recv has found nothing.
Collected ==
    /\ worker = "recv"
    /\ batch # <<>>
    /\ queue = <<>> \/ Len(batch) = StoreBatch
    /\ worker' = "add"
    /\ UNCHANGED <<blob, chunkdb, read, queue, batch, sent, handed, mount, reads>>

\* add_chunks: all of the batch, or some of its sub-batches and an error that is logged.
AddChunks ==
    /\ worker = "add"
    /\ \E n \in 0 .. Len(batch) :
         chunkdb' = [k \in FileChunks |->
                       LET new == {i \in 1 .. n : batch[i][1] = k}
                       IN IF new = {} \/ chunkdb[k] > 0 THEN chunkdb[k] ELSE batch[CHOOSE i \in new : TRUE][2]]
    /\ handed' = handed \o batch
    /\ batch' = <<>>
    /\ worker' = "recv"
    /\ UNCHANGED <<blob, read, queue, sent, mount, reads>>

\* Mutant: the worker looks at the sender first.
WorkerEndsEarly ==
    /\ worker = "recv"
    /\ batch = <<>>
    /\ mount # "open"
    /\ worker' = "ended"
    /\ UNCHANGED <<blob, chunkdb, read, queue, batch, sent, handed, mount, reads>>

\* recv fails once the sender is gone and the channel is empty.
WorkerEnds ==
    /\ worker = "recv"
    /\ batch = <<>> /\ queue = <<>>
    /\ mount # "open"
    /\ worker' = "ended"
    /\ UNCHANGED <<blob, chunkdb, read, queue, batch, sent, handed, mount, reads>>

\* NydusImage::drop: the sender goes, and the worker is joined.
DropImage ==
    /\ mount = "open" /\ Idle
    /\ mount' = "dropping"
    /\ UNCHANGED <<blob, chunkdb, read, store, reads>>

Joined ==
    /\ mount = "dropping"
    /\ worker = "ended"
    /\ mount' = "closed"
    /\ UNCHANGED <<blob, chunkdb, read, store, reads>>
----------------------------------------------------------------------------
(* Others that use ChunkDB and IndexDB                                       *)

\* The blob's dedup worker makes a record.
Dedups(i) ==
    /\ DedupChunk(i)
    /\ UNCHANGED <<chunkdb, read, store, mount, reads>>

\* Another mount or a peer brings the chunk.
OtherAdds(k) ==
    /\ chunkdb[k] = 0
    /\ chunkdb' = [chunkdb EXCEPT ![k] = USize(k)]
    /\ UNCHANGED <<blob, read, store, mount, reads>>

\* The collector deletes it.
Collect(k) ==
    /\ chunkdb[k] > 0
    /\ chunkdb' = [chunkdb EXCEPT ![k] = 0]
    /\ UNCHANGED <<blob, read, store, mount, reads>>

ReadStep ==
    \/ ReadFromChunkDB \/ ChunkDBMiss \/ ReadHole \/ ReadBlobFails \/ Decode
    \/ \E off \in 0 .. (ImageSize - 1), len \in 1 .. ImageSize : ReadBlobRange(off, len)
    \/ WriteData \/ WriteFails

WorkerStep == Recv \/ Collected \/ AddChunks \/ WorkerEnds

Next ==
    \/ \E off, size \in 0 .. MaxOffset : Read(off, size)
    \/ ReadStep
    \/ WorkerStep
    \/ DropImage \/ Joined
    \/ \E i \in 0 .. (NChunks - 1) : Dedups(i)
    \/ \E k \in FileChunks : OtherAdds(k) \/ Collect(k)
    \/ mount = "closed" /\ UNCHANGED vars

\* The worker's thread runs, and so does the one that drops the image.
Spec == Init /\ [][Next]_vars /\ WF_vars(WorkerStep) /\ WF_vars(Joined)
----------------------------------------------------------------------------
(* Properties                                                                *)

(* The reply is the file from the request's offset on, without a gap,        *)
(* whatever mixture of ChunkDB and blob its chunks come from and whoever     *)
(* stores and deletes them meanwhile, and it is complete when read returns.  *)
ReadReturnsFile ==
    /\ \A i \in 1 .. Len(out) : out[i] = request[1] + i - 1
    /\ step \notin {"idle", "failed"} => Len(out) + remaining = request[2]
    /\ step = "done" => remaining = 0

(* The worker hands what the channel took to ChunkDB once and in order, and  *)
(* when the image is gone nothing of it is left: Drop's join waits for what  *)
(* was queued before the sender went.                                        *)
QueueIsStored ==
    /\ sent = handed \o batch \o queue
    /\ mount = "closed" => handed = sent

(* Dropping the image ends: the worker does not wait for more requests.      *)
DropEnds == mount = "dropping" ~> mount = "closed"
----------------------------------------------------------------------------
(* The inductive invariant of NydusReadProofs                                *)

Reading == step \in {"chunk", "blob", "decode", "write"}

\* The store requests that read makes: whole chunks.
Requests == {<<k, USize(k)>> : k \in FileChunks}

StateInv ==
    /\ TypeOK
    /\ chunkdb \in [FileChunks -> Nat]
    /\ chunk \in Nat
    /\ out \in Seq(Nat)
    /\ queue \in Seq(Requests) /\ batch \in Seq(Requests)
    /\ sent \in Seq(Requests) /\ handed \in Seq(Requests)

\* The read stands in the chunk that holds the next byte of the request.
PositionInv ==
    Reading =>
        /\ remaining > 0
        /\ request[1] + request[2] <= FileSize
        /\ chunk * FileChunk + ChunkOffset = request[1] + Len(out)
        /\ ChunkOffset < FileChunk

\* No read outlives the sender, and the worker no request.
DropInv ==
    /\ mount # "open" => Idle
    /\ worker = "ended" => mount # "open" /\ batch = <<>> /\ queue = <<>>
    /\ mount = "closed" => worker = "ended"

(* The blob has records for whole chunks, at the chunks' places, and the     *)
(* last lookup's segments are its request.                                   *)
BlobInv ==
    /\ IsFiniteSet(records)
    /\ \A r \in records : \E i \in 0 .. (NChunks - 1) : r = Record(i * ChunkSize, ReadSize(i * ChunkSize))
    /\ SegmentsTile

IInv == StateInv /\ PositionInv /\ ReadReturnsFile /\ DropInv /\ QueueIsStored
=============================================================================
