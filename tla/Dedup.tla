------------------------------- MODULE Dedup -------------------------------
(***************************************************************************)
(* Deduplicated reads of one mounted image, src/backend/dedup.rs: the read *)
(* path of DedupReader, its DedupWorker and SyncWorker threads, and what   *)
(* they share with the cache, IndexDB and ChunkDB.                         *)
(*                                                                         *)
(* The components below are taken at their specifications: a read of the   *)
(* cache and a drop of a chunk are one step each (Cache implements         *)
(* ReadThrough), ChunkDB is a set of checksums that garbage collection of  *)
(* any process may take from, and dedup_range finds the metadata of the    *)
(* chunks up to the first without, or nothing (LookupsGoByChunk, proved in *)
(* NydusReadProofs).                                                       *)
(*                                                                         *)
(* A chunk's bytes are named by their checksum.  The image either comes    *)
(* from a remote backend, or it is a local file whose Cache has the        *)
(* EmptyBackend: fetching a hole of that succeeds and yields zeros.  A     *)
(* backend may end a fetch before the chunk does; the cache does not look  *)
(* at the count and passes what it has off as the chunk.                   *)
(***************************************************************************)
EXTENDS Integers, Sequences, FiniteSets

CONSTANTS
    Readers,       \* threads that read the mounted file
    NChunks,       \* the image has chunks 0 .. NChunks-1
    Digests,       \* checksums
    Content,       \* chunk -> the checksum of its bytes in the image
    Zero,          \* the checksum of a hole's bytes
    None,          \* no checksum: DedupInfo with CheckSum::empty()
    Cuts,          \* <<chunk, checksum>> of what the backend may cut a chunk short to
    Remote,        \* is there a backend behind the cache
    Client,        \* is there a local chunk server to prefetch through
    PeerHas,       \* checksums peers can deliver
    Partial,       \* the last chunk, if it is shorter than CHUNK_SIZE
    QueueLen,      \* DEDUP_CHUNK_REQ_BUF_SIZE and SYNC_CHUNK_REQ_BUF_SIZE
    Collects,      \* does anybody delete chunks from ChunkDB
    MaxFailures,   \* bound: transactions and fetches that may fail
    MaxRestarts    \* bound: restarts of the mount process

Chunks == 0 .. (NChunks - 1)

ASSUME DedupAssumption ==
    /\ NChunks \in Nat \ {0} /\ QueueLen \in Nat
    /\ MaxFailures \in Nat /\ MaxRestarts \in Nat
    /\ Content \in [Chunks -> Digests] /\ Zero \in Digests /\ None \notin Digests
    /\ Cuts \subseteq Chunks \X Digests /\ PeerHas \subseteq Digests /\ Partial \subseteq Chunks
    /\ Remote \in BOOLEAN /\ Client \in BOOLEAN /\ Collects \in BOOLEAN

VARIABLES
    file,       \* chunk -> the checksum of its bytes in the cache file, None for a hole
    store,      \* checksums in ChunkDB
    index,      \* chunk -> its checksum in IndexDB, or None
    mark,       \* dedup_chunks: chunks that have been handed to the DedupWorker
    dedupQ,     \* requests to the DedupWorker
    syncQ,      \* <<chunk, checksum>> requests to the SyncWorker
    pc,         \* reader -> where it is in process_dedup_op and try_dedup_chunk
    first,      \* reader -> first chunk of its request
    last,       \* reader -> last chunk of its request
    pos,        \* reader -> the chunk it is at
    found,      \* reader -> the chunks dedup_range returned a checksum for
    result,     \* reader -> how its read ended
    dpc,        \* where the DedupWorker is
    dchunk,     \* the chunk of its request
    ddigest,    \* the checksum it has computed
    spc,        \* where the SyncWorker is
    sync,       \* its request
    failures,   \* failures so far
    restarts,   \* restarts so far
    collected,  \* checksums that were ever deleted from ChunkDB
    cut         \* <<chunk, checksum>> of the fetches that the backend cut short

stores == <<file, store, index>>
readerVars == <<pc, first, last, pos, found, result>>
dedupVars == <<dpc, dchunk, ddigest>>
syncVars == <<spc, sync>>
history == <<failures, restarts, collected, cut>>
vars == <<stores, mark, dedupQ, syncQ, readerVars, dedupVars, syncVars, history>>

ReaderPcs == {"idle", "store", "prefetch", "again", "cache", "offer", "mark"}
DedupPcs == {"idle", "check", "fetch", "store", "index", "gc"}
SyncPcs == {"idle", "fetch", "store", "gc"}
Results == {"none", "image", "short", "wrong", "error"}

TypeOK ==
    /\ file \in [Chunks -> Digests \cup {None}]
    /\ store \in SUBSET Digests
    /\ index \in [Chunks -> Digests \cup {None}]
    /\ mark \in SUBSET Chunks
    /\ dedupQ \in Seq(Chunks) /\ Len(dedupQ) <= QueueLen
    /\ syncQ \in Seq(Chunks \X Digests) /\ Len(syncQ) <= QueueLen
    /\ pc \in [Readers -> ReaderPcs]
    /\ first \in [Readers -> Chunks]
    /\ last \in [Readers -> Chunks]
    /\ pos \in [Readers -> Chunks]
    /\ found \in [Readers -> SUBSET Chunks]
    /\ result \in [Readers -> Results]
    /\ dpc \in DedupPcs /\ dchunk \in Chunks /\ ddigest \in Digests
    /\ spc \in SyncPcs /\ sync \in Chunks \X Digests
    /\ failures \in 0 .. MaxFailures
    /\ restarts \in 0 .. MaxRestarts
    /\ collected \in SUBSET Digests
    /\ cut \in SUBSET (Chunks \X Digests)

\* A first mount: Cache::new with nothing fetched, or from_raw_file.
Init ==
    /\ file = [c \in Chunks |-> IF Remote THEN None ELSE Content[c]]
    /\ store = {}
    /\ index = [c \in Chunks |-> None]
    /\ mark = {} /\ dedupQ = <<>> /\ syncQ = <<>>
    /\ pc = [t \in Readers |-> "idle"]
    /\ first = [t \in Readers |-> 0]
    /\ last = [t \in Readers |-> 0]
    /\ pos = [t \in Readers |-> 0]
    /\ found = [t \in Readers |-> {}]
    /\ result = [t \in Readers |-> "none"]
    /\ dpc = "idle" /\ dchunk = 0 /\ ddigest = Zero
    /\ spc = "idle" /\ sync = <<0, Zero>>
    /\ failures = 0 /\ restarts = 0 /\ collected = {} /\ cut = {}
-----------------------------------------------------------------------------
(* The components below.                                                    *)

(* Reading chunk c through the cache yields bytes d: what the file has, what *)
(* the backend sends, whole or cut short, or the zeros of a hole.            *)
CacheRead(c, d) ==
    \/ /\ d = IF file[c] # None THEN file[c] ELSE Zero
       /\ file[c] # None \/ ~Remote
       /\ UNCHANGED <<file, history>>
    \/ /\ file[c] = None /\ Remote
       /\ file' = [file EXCEPT ![c] = d]
       /\ \/ d = Content[c] /\ UNCHANGED cut
          \/ <<c, d>> \in Cuts /\ cut' = cut \cup {<<c, d>>}
       /\ UNCHANGED <<failures, restarts, collected>>

\* invalidate_chunk
CacheDrop(c) == file' = [file EXCEPT ![c] = None]

\* dedup_range for the chunks a .. b: a record after a gap is not found.
Lookup(a, b) == {c \in a .. b : \A k \in a .. c : index[k] # None}

\* try_send on a sync_channel.
HasRoom(q) == Len(q) < QueueLen

Fail ==
    /\ failures < MaxFailures
    /\ failures' = failures + 1
    /\ UNCHANGED <<restarts, collected, cut>>
-----------------------------------------------------------------------------
(* Readers: fetch and write_to_fuse_writer, alike but for the copying.      *)

Goto(t, label) == pc' = [pc EXCEPT ![t] = label]

\* The call returns; its locals are gone.
Return(t) ==
    /\ Goto(t, "idle")
    /\ first' = [first EXCEPT ![t] = 0]
    /\ last' = [last EXCEPT ![t] = 0]
    /\ pos' = [pos EXCEPT ![t] = 0]
    /\ found' = [found EXCEPT ![t] = {}]

\* fetch: the metadata of the whole range is read once, before any byte.
BeginRead(t, a, b) ==
    /\ pc[t] = "idle"
    /\ first' = [first EXCEPT ![t] = a]
    /\ last' = [last EXCEPT ![t] = b]
    /\ pos' = [pos EXCEPT ![t] = a]
    /\ result' = [result EXCEPT ![t] = "none"]
    /\ \/ /\ found' = [found EXCEPT ![t] = Lookup(a, b)]
          /\ Goto(t, IF a \in Lookup(a, b) THEN "store" ELSE "cache")
          /\ UNCHANGED history
       \/ /\ \/ Fail                                 \* dedup_range fails: no metadata
             \/ index[a] # None /\ UNCHANGED history  \* the request starts at a's last byte
          /\ found' = [found EXCEPT ![t] = {}]
          /\ Goto(t, "cache")
    /\ UNCHANGED <<stores, mark, dedupQ, syncQ, dedupVars, syncVars>>

(* Bytes d are copied out for the segment at pos; then the next segment, or *)
(* with the last one try_dedup_chunk from the range's first chunk.          *)
Copied(t, d) ==
    LET c == pos[t]
    IN  /\ result' = [result EXCEPT ![t] =
               IF (d # Content[c] /\ <<c, d>> \notin cut') \/ @ = "wrong" THEN "wrong"
               ELSE IF d # Content[c] \/ @ = "short" THEN "short"
               ELSE IF c = last[t] THEN "image" ELSE @]
        /\ IF c = last[t]
             THEN /\ pos' = [pos EXCEPT ![t] = first[t]]
                  /\ found' = [found EXCEPT ![t] = {}]
                  /\ Goto(t, "offer")
             ELSE /\ pos' = [pos EXCEPT ![t] = c + 1]
                  /\ Goto(t, IF c + 1 \in found[t] THEN "store" ELSE "cache")
                  /\ UNCHANGED found

\* read_dedup_chunk: with_chunk_range finds the chunk, at once or after the prefetch.
ReadHit(t) ==
    /\ pc[t] \in {"store", "again"}
    /\ index[pos[t]] \in store
    /\ UNCHANGED <<stores, mark, dedupQ, syncQ, first, last, dedupVars, syncVars, history>>
    /\ Copied(t, index[pos[t]])

\* A first miss asks the local chunk server.
ReadMiss(t) ==
    /\ pc[t] = "store" /\ Client
    /\ index[pos[t]] \notin store
    /\ Goto(t, "prefetch")
    /\ UNCHANGED <<stores, mark, dedupQ, syncQ, first, last, pos, found, result, dedupVars, syncVars,
                   history>>

\* prefetch_chunk_blocking: the chunk server may store a peer's copy.
Prefetch(t) ==
    /\ pc[t] = "prefetch"
    /\ \E S \in SUBSET ({index[pos[t]]} \cap PeerHas) : store' = store \cup S
    /\ Goto(t, "again")
    /\ UNCHANGED <<file, index, mark, dedupQ, syncQ, first, last, pos, found, result, dedupVars,
                   syncVars, history>>

\* Mutant: the miss is not reported, and the caller gets its empty buffer.
ReadFallbackBlank(t) ==
    /\ pc[t] = "again" \/ (pc[t] = "store" /\ ~Client)
    /\ index[pos[t]] \notin store
    /\ UNCHANGED <<stores, mark, dedupQ, syncQ, first, last, dedupVars, syncVars, history>>
    /\ Copied(t, Zero)

\* A final miss: enqueue_sync, which a full queue drops, and the backend instead.
ReadFallback(t) ==
    /\ pc[t] = "again" \/ (pc[t] = "store" /\ ~Client)
    /\ index[pos[t]] \notin store
    /\ syncQ' = IF HasRoom(syncQ) THEN Append(syncQ, <<pos[t], index[pos[t]]>>) ELSE syncQ
    /\ Goto(t, "cache")
    /\ UNCHANGED <<stores, mark, dedupQ, first, last, pos, found, result, dedupVars, syncVars, history>>

\* Mutant: after an error of ChunkDB the range is copied from its start again.
ReadStoreFailsAnew(t) ==
    /\ pc[t] \in {"store", "again"} /\ Fail
    /\ pos' = [pos EXCEPT ![t] = first[t]]
    /\ Goto(t, "cache")
    /\ UNCHANGED <<stores, mark, dedupQ, syncQ, first, last, found, result, dedupVars, syncVars>>

\* An error of ChunkDB: the backend instead, and no sync.
ReadStoreFails(t) ==
    /\ pc[t] \in {"store", "again"} /\ Fail
    /\ Goto(t, "cache")
    /\ UNCHANGED <<stores, mark, dedupQ, syncQ, first, last, pos, found, result, dedupVars, syncVars>>

\* copy_from_backend
ReadCache(t) ==
    /\ pc[t] = "cache"
    /\ \E d \in Digests : CacheRead(pos[t], d) /\ Copied(t, d)
    /\ UNCHANGED <<store, index, mark, dedupQ, syncQ, first, last, dedupVars, syncVars>>

\* ... fails: the read does, and nothing is handed to the DedupWorker.
ReadCacheFails(t) ==
    /\ pc[t] = "cache" /\ Fail
    /\ result' = [result EXCEPT ![t] = "error"]
    /\ Return(t)
    /\ UNCHANGED <<stores, mark, dedupQ, syncQ, dedupVars, syncVars>>

\* try_dedup_chunk goes on to the next chunk of the range.
NextOffer(t) ==
    IF pos[t] = last[t]
      THEN Return(t)
      ELSE Goto(t, "offer") /\ pos' = [pos EXCEPT ![t] = @ + 1] /\ UNCHANGED <<first, last, found>>

\* Mutant: a chunk is marked although the queue was full.
OfferMarking(t) ==
    /\ pc[t] = "offer"
    /\ dedupQ' = IF pos[t] \notin mark /\ HasRoom(dedupQ) THEN Append(dedupQ, pos[t]) ELSE dedupQ
    /\ Goto(t, "mark")
    /\ UNCHANGED <<stores, mark, syncQ, first, last, pos, found, result, dedupVars, syncVars, history>>

\* A chunk that is not marked is sent to the DedupWorker, unless its queue is full ...
Offer(t) ==
    /\ pc[t] = "offer"
    /\ IF pos[t] \notin mark /\ HasRoom(dedupQ)
         THEN /\ dedupQ' = Append(dedupQ, pos[t])
              /\ Goto(t, "mark")
              /\ UNCHANGED <<first, last, pos, found>>
         ELSE NextOffer(t) /\ UNCHANGED dedupQ
    /\ UNCHANGED <<stores, mark, syncQ, result, dedupVars, syncVars, history>>

\* ... and marked only after that: two readers may both have sent it.
Mark(t) ==
    /\ pc[t] = "mark"
    /\ mark' = mark \cup {pos[t]}
    /\ NextOffer(t)
    /\ UNCHANGED <<stores, dedupQ, syncQ, result, dedupVars, syncVars, history>>
-----------------------------------------------------------------------------
(* DedupWorker: dedup, then gc_chunk.                                       *)

DedupGoto(label) == dpc' = label /\ UNCHANGED <<dchunk, ddigest>>

\* The request is done with.
DedupEnd == dpc' = "idle" /\ dchunk' = 0 /\ ddigest' = Zero

DedupTake ==
    /\ dpc = "idle" /\ dedupQ # <<>>
    /\ dchunk' = Head(dedupQ)
    /\ dedupQ' = Tail(dedupQ)
    /\ dpc' = "check"
    /\ UNCHANGED <<stores, mark, syncQ, readerVars, ddigest, syncVars, history>>

(* dedup_check_range asks for CHUNK_SIZE bytes.  For a shorter last chunk   *)
(* that has a record it gets two segments and refuses: no gc_chunk then.    *)
DedupCheck ==
    /\ dpc = "check"
    /\ \/ index[dchunk] = None /\ DedupGoto("fetch")
       \/ index[dchunk] # None /\ dchunk \notin Partial /\ DedupGoto("gc")
       \/ index[dchunk] # None /\ dchunk \in Partial /\ DedupEnd
    /\ UNCHANGED <<stores, mark, dedupQ, syncQ, readerVars, syncVars, history>>

DedupFetch ==
    /\ dpc = "fetch"
    /\ \E d \in Digests : CacheRead(dchunk, d) /\ ddigest' = d
    /\ dpc' = "store"
    /\ UNCHANGED <<store, index, mark, dedupQ, syncQ, readerVars, dchunk, syncVars>>

\* Mutant: a short read is taken for the whole chunk, its rest being zeros.
DedupShortRead ==
    /\ dpc = "fetch" /\ Fail
    /\ ddigest' = Zero
    /\ dpc' = "store"
    /\ UNCHANGED <<stores, mark, dedupQ, syncQ, readerVars, dchunk, syncVars>>

\* The fetch fails or is short: the chunk stays marked and without a record.
DedupFetchFails ==
    /\ dpc = "fetch" /\ Fail
    /\ DedupEnd
    /\ UNCHANGED <<stores, mark, dedupQ, syncQ, readerVars, syncVars>>

\* add_data returns when ChunkDB has committed.
DedupStore ==
    /\ dpc = "store"
    /\ store' = store \cup {ddigest}
    /\ DedupGoto("index")
    /\ UNCHANGED <<file, index, mark, dedupQ, syncQ, readerVars, syncVars, history>>

\* Mutant: an error of add_data is not passed on.
DedupStoreIgnored ==
    /\ dpc = "store" /\ Fail
    /\ DedupGoto("index")
    /\ UNCHANGED <<stores, mark, dedupQ, syncQ, readerVars, syncVars>>

DedupStoreFails ==
    /\ dpc = "store" /\ Fail
    /\ DedupEnd
    /\ UNCHANGED <<stores, mark, dedupQ, syncQ, readerVars, syncVars>>

\* add_local_dedup_info
DedupIndex ==
    /\ dpc = "index"
    /\ index' = [index EXCEPT ![dchunk] = ddigest]
    /\ DedupGoto("gc")
    /\ UNCHANGED <<file, store, mark, dedupQ, syncQ, readerVars, syncVars, history>>

DedupIndexFails ==
    /\ dpc = "index" /\ Fail
    /\ DedupEnd
    /\ UNCHANGED <<stores, mark, dedupQ, syncQ, readerVars, syncVars>>

(* gc_chunk asks IndexDB, whose records are never removed, and not ChunkDB. *)
(* An error of invalidate_chunk is logged.                                  *)
DedupGc ==
    /\ dpc = "gc"
    /\ \/ CacheDrop(dchunk) /\ UNCHANGED history
       \/ Fail /\ UNCHANGED file
    /\ DedupEnd
    /\ UNCHANGED <<store, index, mark, dedupQ, syncQ, readerVars, syncVars>>

DedupStep ==
    \/ DedupTake \/ DedupCheck \/ DedupFetch \/ DedupFetchFails \/ DedupStore \/ DedupStoreFails
    \/ DedupIndex \/ DedupIndexFails \/ DedupGc
-----------------------------------------------------------------------------
(* SyncWorker: stores a chunk again that ChunkDB has lost.                  *)

SyncEnd == spc' = "idle" /\ sync' = <<0, Zero>>

SyncTake ==
    /\ spc = "idle" /\ syncQ # <<>>
    /\ sync' = Head(syncQ)
    /\ syncQ' = Tail(syncQ)
    /\ spc' = "fetch"
    /\ UNCHANGED <<stores, mark, dedupQ, readerVars, dedupVars, history>>

\* Bytes whose checksum is another are not stored.
SyncFetch ==
    /\ spc = "fetch"
    /\ \E d \in Digests :
         /\ CacheRead(sync[1], d)
         /\ IF d = sync[2] THEN spc' = "store" /\ UNCHANGED sync ELSE SyncEnd
    /\ UNCHANGED <<store, index, mark, dedupQ, syncQ, readerVars, dedupVars>>

SyncStore ==
    /\ spc = "store"
    /\ store' = store \cup {sync[2]}
    /\ spc' = "gc"
    /\ UNCHANGED <<file, index, mark, dedupQ, syncQ, readerVars, dedupVars, sync, history>>

SyncFails ==
    /\ spc \in {"fetch", "store"} /\ Fail
    /\ SyncEnd
    /\ UNCHANGED <<stores, mark, dedupQ, syncQ, readerVars, dedupVars>>

SyncGc ==
    /\ spc = "gc"
    /\ \/ index[sync[1]] # None /\ CacheDrop(sync[1]) /\ UNCHANGED history
       \/ Fail /\ UNCHANGED file
    /\ SyncEnd
    /\ UNCHANGED <<store, index, mark, dedupQ, syncQ, readerVars, dedupVars>>

SyncStep == SyncTake \/ SyncFetch \/ SyncStore \/ SyncFails \/ SyncGc
-----------------------------------------------------------------------------
\* gc-chunk, or an addition that needs room, deletes a chunk from ChunkDB.
Collect ==
    /\ Collects
    /\ \E d \in store : store' = store \ {d} /\ collected' = collected \cup {d}
    /\ UNCHANGED <<file, index, mark, dedupQ, syncQ, readerVars, dedupVars, syncVars, failures,
                   restarts, cut>>

\* The mount process ends and the image is mounted again.
Restart ==
    /\ restarts < MaxRestarts
    /\ restarts' = restarts + 1
    /\ mark' = {} /\ dedupQ' = <<>> /\ syncQ' = <<>>
    /\ pc' = [t \in Readers |-> "idle"]
    /\ first' = [t \in Readers |-> 0]
    /\ last' = [t \in Readers |-> 0]
    /\ pos' = [t \in Readers |-> 0]
    /\ found' = [t \in Readers |-> {}]
    /\ result' = [t \in Readers |-> "none"]
    /\ DedupEnd /\ SyncEnd
    /\ UNCHANGED <<stores, failures, collected, cut>>

ReaderStep(t) ==
    \/ ReadHit(t) \/ ReadMiss(t) \/ Prefetch(t) \/ ReadFallback(t) \/ ReadStoreFails(t)
    \/ ReadCache(t) \/ ReadCacheFails(t) \/ Offer(t) \/ Mark(t)

Next ==
    \/ \E t \in Readers, a, b \in Chunks : a <= b /\ BeginRead(t, a, b)
    \/ \E t \in Readers : ReaderStep(t)
    \/ DedupStep
    \/ SyncStep
    \/ Collect
    \/ Restart

Spec == Init /\ [][Next]_vars

\* Threads keep running; nothing is assumed of callers, collection or restarts.
FairSpec ==
    /\ Spec
    /\ \A t \in Readers : WF_vars(ReaderStep(t))
    /\ WF_vars(DedupStep)
    /\ WF_vars(SyncStep)
-----------------------------------------------------------------------------
(* Properties.                                                              *)

\* The image's bytes of chunk c, or what the backend once passed off as them.
Fits(c, d) == d = Content[c] \/ <<c, d>> \in cut

(* A read that succeeds returns the image's bytes, or for a chunk what the  *)
(* backend once cut it short to, wherever each segment came from and        *)
(* whatever was stored, collected and dropped in the middle.                *)
ReadReturnsImage == \A t \in Readers : result[t] # "wrong"

\* A reader has still to copy bytes out.
Copying == {"store", "prefetch", "again", "cache"}

Image == INSTANCE ImageStore WITH
    todo <- [t \in Readers |-> IF pc[t] \in Copying THEN pos[t] .. last[t] ELSE {}],
    short <- {p[1] : p \in cut}

(* With a backend behind the cache the mount is a store of the image:       *)
(* ChunkDB, its garbage collection, peers, the workers and the holes they   *)
(* punch into the cache do not show in what a read hands out, in which      *)
(* order, and how it ends.                                                  *)
ImplementsImageStore == Image!Spec

(* A record names the chunk's own bytes: DedupWorker never computes a       *)
(* checksum over a hole or over part of a chunk, but for one that the cache *)
(* has from a backend that cut it short.                                    *)
IndexIsTruthful == \A c \in Chunks : index[c] = None \/ Fits(c, index[c])

(* What ChunkDB has not been made to delete is in the file or in ChunkDB:   *)
(* the file of a local image may be the only copy, and gc_chunk punches     *)
(* holes into it.                                                           *)
NothingIsLost == \A c \in Chunks : file[c] # None \/ Content[c] \in store \cup collected

(* A chunk that is marked, and so will not be sent again, gets its record,  *)
(* unless something has failed: a full queue does not leave it marked.      *)
DedupCompletes ==
    \A c \in Chunks : c \in mark ~> c \notin mark \/ index[c] # None \/ failures > 0
-----------------------------------------------------------------------------
(* The inductive invariant behind the safety properties, in named parts.    *)

\* A reader stays in its request.
RangeInv ==
    \A t \in Readers : pc[t] # "idle" => first[t] <= pos[t] /\ pos[t] <= last[t]

\* What a reader was told has a record still has one: records only appear.
FoundInv ==
    \A t \in Readers :
        /\ \A c \in found[t] : index[c] # None
        /\ pc[t] \in {"store", "prefetch", "again"} => pos[t] \in found[t]

\* DedupWorker works on a chunk without a record, which nobody else can give one.
WorkerInv ==
    /\ dpc \in {"fetch", "store", "index"} => index[dchunk] = None
    /\ dpc \in {"store", "index"} => Fits(dchunk, ddigest)
    /\ dpc = "gc" => index[dchunk] # None

(* A hole of a local image is a chunk that has a record, and nothing of it   *)
(* was cut short.  The file of a remote one has what the backend has sent.   *)
HoleInv ==
    /\ ~Remote => cut = {} /\ \A c \in Chunks : file[c] # None \/ index[c] # None
    /\ \A c \in Chunks : file[c] = None \/ Fits(c, file[c])

\* A record names bytes that ChunkDB has or has been made to delete.
KeptInv ==
    /\ \A c \in Chunks : index[c] # None => index[c] \in store \cup collected
    /\ dpc = "index" => ddigest \in store \cup collected

\* With a backend behind the cache reads are right; a hole of a local image is zeros.
RemoteReads == Remote => ReadReturnsImage

IInv ==
    /\ TypeOK
    /\ RangeInv
    /\ IndexIsTruthful
    /\ FoundInv
    /\ WorkerInv
    /\ HoleInv
    /\ KeptInv
    /\ RemoteReads
=============================================================================
