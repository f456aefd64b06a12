------------------------------ MODULE ChunkDB ------------------------------
(***************************************************************************)
(* The content-addressed chunk store, src/backend/chunkdb.rs.              *)
(*                                                                         *)
(* Several processes (mount, serve-chunk, gc-chunk) open one LMDB          *)
(* environment with three tables: the chunks' data, the time each was last *)
(* accessed, and the same times as keys in LRU order.  In each process all *)
(* writes go through one writer thread, which drains three queues by       *)
(* priority: additions, deletions, access times.  LMDB runs one write      *)
(* transaction at a time over all the processes, so a transaction is one   *)
(* step here.  A gc-chunk process runs GcWorker.                           *)
(*                                                                         *)
(* A chunk stands for its checksum and its bytes.  Room is counted in      *)
(* chunks: the map is full when a transaction would hold more than         *)
(* Capacity of them.                                                       *)
(***************************************************************************)
EXTENDS Integers, FiniteSets

CONSTANTS
    Chunks,        \* checksums
    Procs,         \* processes that have the database open
    GcProcs,       \* those of them that run gc-chunk
    Faulty,        \* those of them that may be killed, and whose calls to the chunk
                   \* index may fail
    Failing,       \* those of them whose transactions may fail
    Callers,       \* threads of a process that add chunks
    Capacity,      \* chunks the LMDB map has room for
    HighMark,      \* chunks that make up GC_HIGH_WATERMARK of the map
    LowMark,       \* chunks that make up GC_LOW_WATERMARK of the map
    GcBatch,       \* GC_BATCH
    AddBatch,      \* ADD_CHUNKS_BATCH_SIZE
    AccessBatch,   \* ACCESS_BATCH_SIZE
    MinInterval,   \* ACCESS_UPDATE_MIN_INTERVAL_SECS, in ticks
    ExpireAfter,   \* the age gc_expired deletes from, in ticks
    MaxTime        \* bound: the clock stops there

ASSUME ChunkDBAssumption ==
    /\ GcProcs \subseteq Procs
    /\ Faulty \subseteq Procs /\ Failing \subseteq Procs
    /\ Capacity \in Nat /\ HighMark \in Nat /\ LowMark \in Nat
    /\ LowMark <= HighMark
    /\ Callers \in Nat \ {0}
    /\ GcBatch \in Nat \ {0} /\ AddBatch \in Nat \ {0} /\ AccessBatch \in Nat \ {0}
    /\ MinInterval \in Nat /\ ExpireAfter \in Nat /\ MaxTime \in Nat \ {0}
    /\ IsFiniteSet(Chunks)

Times == 1 .. MaxTime
Keys == Times \X Chunks          \* AccessKey: ordered by time, then by checksum

VARIABLES
    data,        \* data_db: the chunks stored
    access,      \* access_db: chunk -> last access, 0 when there is no record
    index,       \* access_index: the keys in it
    registered,  \* chunks the chunk index lists this node as an owner of
    now,         \* the clock
    high,        \* process -> additions queued (add_chunk, a sub-batch of add_chunks)
    medium,      \* process -> keys queued for deletion
    pending,     \* process -> chunks queued for an access time
    stop,        \* process -> its ChunkDB is being dropped
    wpc,         \* process -> where its writer thread is
    wHigh,       \* process -> additions it has drained
    wMedium,     \* process -> keys it has drained
    wPending,    \* process -> accesses it has drained
    wChunks,     \* process -> the addition it has committed and must still register
    wKeys,       \* process -> the keys it is evicting for room
    wNow,        \* process -> the time it stamps accesses with
    wStop,       \* process -> it saw stop when it drained
    lost,        \* chunks whose queued access time a kill or a failed transaction took
    gpc,         \* gc process -> where its GcWorker is
    gKeys,       \* gc process -> expired keys it still has to delete
    gDeleted     \* gc process -> keys deleted and not yet unregistered

tables == <<data, access, index>>
queues == <<high, medium, pending, stop>>
writer == <<wpc, wHigh, wMedium, wPending, wChunks, wKeys, wNow, wStop>>
gcVars == <<gpc, gKeys, gDeleted>>
vars == <<tables, registered, now, queues, writer, lost, gcVars>>

WriterPcs == {"idle", "high", "register", "evict", "unregister", "access", "stopped"}
GcPcs == {"idle", "submit", "wait", "unregister", "usage", "lruwait", "lruunregister",
          "finished"}

Additions == {B \in SUBSET Chunks : B # {} /\ Cardinality(B) <= AddBatch}
ChunksOf(K) == {k[2] : k \in K}

(* Besides the types: LMDB never holds more than its map has room for.      *)
TypeOK ==
    /\ data \in SUBSET Chunks /\ Cardinality(data) <= Capacity
    /\ access \in [Chunks -> 0 .. MaxTime]
    /\ index \in SUBSET Keys
    /\ registered \in SUBSET Chunks
    /\ now \in Times
    /\ high \in [Procs -> SUBSET Additions]
    /\ medium \in [Procs -> SUBSET Keys]
    /\ pending \in [Procs -> SUBSET Chunks]
    /\ stop \in [Procs -> BOOLEAN]
    /\ wpc \in [Procs -> WriterPcs]
    /\ wHigh \in [Procs -> SUBSET Additions]
    /\ wMedium \in [Procs -> SUBSET Keys]
    /\ wPending \in [Procs -> SUBSET Chunks]
    /\ wChunks \in [Procs -> SUBSET Chunks]
    /\ wKeys \in [Procs -> SUBSET Keys]
    /\ wNow \in [Procs -> Times]
    /\ wStop \in [Procs -> BOOLEAN]
    /\ lost \in SUBSET Chunks
    /\ gpc \in [GcProcs -> GcPcs]
    /\ gKeys \in [GcProcs -> SUBSET Keys]
    /\ gDeleted \in [GcProcs -> SUBSET Keys]

Init ==
    /\ data = {} /\ access = [c \in Chunks |-> 0] /\ index = {}
    /\ registered = {} /\ now = 1 /\ lost = {}
    /\ high = [p \in Procs |-> {}]
    /\ medium = [p \in Procs |-> {}]
    /\ pending = [p \in Procs |-> {}]
    /\ stop = [p \in Procs |-> FALSE]
    /\ wpc = [p \in Procs |-> "idle"]
    /\ wHigh = [p \in Procs |-> {}]
    /\ wMedium = [p \in Procs |-> {}]
    /\ wPending = [p \in Procs |-> {}]
    /\ wChunks = [p \in Procs |-> {}]
    /\ wKeys = [p \in Procs |-> {}]
    /\ wNow = [p \in Procs |-> 1]
    /\ wStop = [p \in Procs |-> FALSE]
    /\ gpc = [g \in GcProcs |-> "idle"]
    /\ gKeys = [g \in GcProcs |-> {}]
    /\ gDeleted = [g \in GcProcs |-> {}]
-----------------------------------------------------------------------------
(* What a transaction does to the tables.                                   *)

\* B is one of the pieces of at most n elements that S is worked off in.
IsBatch(B, S, n) ==
    /\ B \subseteq S
    /\ Cardinality(B) = IF Cardinality(S) < n THEN Cardinality(S) ELSE n

\* The n oldest keys of the LRU index, as gc_lru and gc_lru_direct read them.
IsOldest(T, n) ==
    /\ IsBatch(T, index, n)
    /\ \A k \in T, j \in index \ T : k[1] <= j[1]

(* do_delete_keys and gc_lru_direct: for each key the chunk's data, its     *)
(* access record and that key go, whatever the record says by now.          *)
DeleteKeys(K) ==
    /\ data' = data \ ChunksOf(K)
    /\ access' = [c \in Chunks |-> IF c \in ChunksOf(K) THEN 0 ELSE access[c]]
    /\ index' = index \ K

\* update_access leaves a record alone that is recent or newer than t.
Restamped(c, t) == access[c] = 0 \/ (t > access[c] /\ t - access[c] >= MinInterval)

\* Mutant: the old key is removed and the new one forgotten.
UpdateAccessNoIndex(B, t) ==
    LET S == {c \in B : Restamped(c, t)} IN
    /\ access' = [c \in Chunks |-> IF c \in S THEN t ELSE access[c]]
    /\ index' = index \ {<<access[c], c>> : c \in S}

\* update_access for a batch of chunks at time t, one transaction.
UpdateAccess(B, t) ==
    LET S == {c \in B : Restamped(c, t)} IN
    /\ access' = [c \in Chunks |-> IF c \in S THEN t ELSE access[c]]
    /\ index' = (index \ {<<access[c], c>> : c \in S}) \cup {<<t, c>> : c \in S}

(* The chunk index is told after the commit; its answer is ignored or only  *)
(* logged.                                                                  *)
Register(p, S) == registered' = registered \cup S \/ (p \in Faulty /\ UNCHANGED registered)
Unregister(p, S) == registered' = registered \ S \/ (p \in Faulty /\ UNCHANGED registered)
-----------------------------------------------------------------------------
(* Callers in a process that is not shutting down.                          *)

Running(p) == ~stop[p] /\ wpc[p] # "stopped"

\* add_chunk, or one sub-batch of add_chunks: the caller blocks for the reply.
SubmitAdd(p, B) ==
    /\ Running(p) /\ p \notin GcProcs
    /\ Cardinality(high[p] \cup wHigh[p]) + (IF wpc[p] = "register" THEN 1 ELSE 0) < Callers
    /\ high' = [high EXCEPT ![p] = @ \cup {B}]
    /\ UNCHANGED <<tables, registered, now, medium, pending, stop, writer, lost, gcVars>>

\* with_chunk and with_chunk_range: a hit queues an access time.
ReadChunk(p, c) ==
    /\ Running(p) /\ p \notin GcProcs
    /\ c \in data
    /\ pending' = [pending EXCEPT ![p] = @ \cup {c}]
    /\ UNCHANGED <<tables, registered, now, high, medium, stop, writer, lost, gcVars>>

\* Drop for ChunkDB: every caller has its reply by then.
DropDB(p) ==
    /\ Running(p)
    /\ high[p] = {} /\ wHigh[p] = {} /\ medium[p] = {} /\ wMedium[p] = {}
    /\ wpc[p] \in {"idle", "high", "access"}
    /\ p \in GcProcs => gpc[p] = "finished"
    /\ stop' = [stop EXCEPT ![p] = TRUE]
    /\ UNCHANGED <<tables, registered, now, high, medium, pending, writer, lost, gcVars>>
-----------------------------------------------------------------------------
(* WriterThread::run.                                                       *)

\* The three queues are drained together under the channel's mutex.
Drain(p) ==
    /\ wpc[p] = "idle"
    /\ high[p] # {} \/ medium[p] # {} \/ pending[p] # {} \/ stop[p]
    /\ wHigh' = [wHigh EXCEPT ![p] = high[p]]
    /\ wMedium' = [wMedium EXCEPT ![p] = medium[p]]
    /\ wPending' = [wPending EXCEPT ![p] = pending[p]]
    /\ wStop' = [wStop EXCEPT ![p] = stop[p]]
    /\ high' = [high EXCEPT ![p] = {}]
    /\ medium' = [medium EXCEPT ![p] = {}]
    /\ pending' = [pending EXCEPT ![p] = {}]
    /\ wpc' = [wpc EXCEPT ![p] = "high"]
    /\ UNCHANGED <<tables, registered, now, stop, wChunks, wKeys, wNow, lost, gcVars>>

\* The transaction that puts the chunks of B does not report MapFull.
HasRoom(B) == Cardinality(data \cup B) <= Capacity

\* do_add_chunk, do_add_chunks_sub_batch: chunks already there are kept.
CommitAdd(p, B) ==
    /\ wpc[p] = "high" /\ B \in wHigh[p]
    /\ HasRoom(B)
    /\ data' = data \cup B
    /\ wHigh' = [wHigh EXCEPT ![p] = @ \ {B}]
    /\ wChunks' = [wChunks EXCEPT ![p] = B]
    /\ wpc' = [wpc EXCEPT ![p] = "register"]
    /\ UNCHANGED <<access, index, registered, now, queues, wMedium, wPending, wKeys, wNow, wStop,
                   lost, gcVars>>

\* After the commit: register with the chunk index, queue the access times, reply.
RegisterAdded(p) ==
    /\ wpc[p] = "register"
    /\ Register(p, wChunks[p])
    /\ pending' = [pending EXCEPT ![p] = @ \cup wChunks[p]]
    /\ wChunks' = [wChunks EXCEPT ![p] = {}]
    /\ wpc' = [wpc EXCEPT ![p] = "high"]
    /\ UNCHANGED <<tables, now, high, medium, stop, wHigh, wMedium, wPending, wKeys, wNow, wStop,
                   lost, gcVars>>

\* Mutant: an addition that finds nothing to evict is tried again.
AddMapFullRetrying(p, B) ==
    /\ wpc[p] = "high" /\ B \in wHigh[p]
    /\ ~HasRoom(B)
    /\ \E T \in SUBSET index : IsOldest(T, GcBatch) /\ wKeys' = [wKeys EXCEPT ![p] = T]
    /\ wpc' = [wpc EXCEPT ![p] = "evict"]
    /\ UNCHANGED <<tables, registered, now, queues, wHigh, wMedium, wPending, wChunks, wNow, wStop,
                   lost, gcVars>>

(* MapFull: gc_lru_direct reads the oldest keys in a transaction of its     *)
(* own; with none to evict the addition fails.                              *)
AddMapFull(p, B) ==
    /\ wpc[p] = "high" /\ B \in wHigh[p]
    /\ ~HasRoom(B)
    /\ IF index = {}
         THEN /\ wHigh' = [wHigh EXCEPT ![p] = @ \ {B}]
              /\ UNCHANGED <<wpc, wKeys>>
         ELSE /\ \E T \in SUBSET index : IsOldest(T, GcBatch) /\ wKeys' = [wKeys EXCEPT ![p] = T]
              /\ wpc' = [wpc EXCEPT ![p] = "evict"]
              /\ UNCHANGED wHigh
    /\ UNCHANGED <<tables, registered, now, queues, wMedium, wPending, wChunks, wNow, wStop,
                   lost, gcVars>>

EvictCommit(p) ==
    /\ wpc[p] = "evict"
    /\ DeleteKeys(wKeys[p])
    /\ wpc' = [wpc EXCEPT ![p] = "unregister"]
    /\ UNCHANGED <<registered, now, queues, wHigh, wMedium, wPending, wChunks, wKeys, wNow, wStop,
                   lost, gcVars>>

\* Mutant: evicted chunks stay registered.
EvictKeepRegistered(p) ==
    /\ wpc[p] = "unregister"
    /\ wKeys' = [wKeys EXCEPT ![p] = {}]
    /\ wpc' = [wpc EXCEPT ![p] = "high"]
    /\ UNCHANGED <<tables, registered, now, queues, wHigh, wMedium, wPending, wChunks, wNow, wStop,
                   lost, gcVars>>

\* ... then unregisters what it evicted, and the addition is tried again.
EvictUnregister(p) ==
    /\ wpc[p] = "unregister"
    /\ Unregister(p, ChunksOf(wKeys[p]))
    /\ wKeys' = [wKeys EXCEPT ![p] = {}]
    /\ wpc' = [wpc EXCEPT ![p] = "high"]
    /\ UNCHANGED <<tables, now, queues, wHigh, wMedium, wPending, wChunks, wNow, wStop,
                   lost, gcVars>>

\* A transaction of the addition, or of the eviction for it, fails: so does the addition.
AddFails(p, B) ==
    /\ p \in Failing
    /\ wpc[p] \in {"high", "evict"} /\ B \in wHigh[p]
    /\ wHigh' = [wHigh EXCEPT ![p] = @ \ {B}]
    /\ wKeys' = [wKeys EXCEPT ![p] = {}]
    /\ wpc' = [wpc EXCEPT ![p] = "high"]
    /\ UNCHANGED <<tables, registered, now, queues, wMedium, wPending, wChunks, wNow, wStop,
                   lost, gcVars>>

\* process_medium, once the additions are done.
ProcessDelete(p) ==
    /\ wpc[p] = "high" /\ wHigh[p] = {} /\ wMedium[p] # {}
    /\ DeleteKeys(wMedium[p])
    /\ wMedium' = [wMedium EXCEPT ![p] = {}]
    /\ UNCHANGED <<registered, now, queues, wpc, wHigh, wPending, wChunks, wKeys, wNow, wStop,
                   lost, gcVars>>

(* do_delete_keys fails: GcWorker::run returns its error, and what earlier  *)
(* batches of gc_expired deleted is not unregistered.                       *)
DeleteFails(g) ==
    /\ g \in Failing \cap GcProcs
    /\ wpc[g] = "high" /\ wHigh[g] = {} /\ wMedium[g] # {}
    /\ wMedium' = [wMedium EXCEPT ![g] = {}]
    /\ gpc' = [gpc EXCEPT ![g] = "finished"]
    /\ gKeys' = [gKeys EXCEPT ![g] = {}]
    /\ gDeleted' = [gDeleted EXCEPT ![g] = {}]
    /\ UNCHANGED <<tables, registered, now, queues, wpc, wHigh, wPending, wChunks, wKeys, wNow, wStop,
                   lost>>

\* process_access_updates reads the clock once.
BeginAccess(p) ==
    /\ wpc[p] = "high" /\ wHigh[p] = {} /\ wMedium[p] = {}
    /\ wNow' = [wNow EXCEPT ![p] = now]
    /\ wpc' = [wpc EXCEPT ![p] = "access"]
    /\ UNCHANGED <<tables, registered, now, queues, wHigh, wMedium, wPending, wChunks, wKeys, wStop,
                   lost, gcVars>>

\* Mutant: what is left when the writer yields is dropped.
YieldDropping(p, rest) ==
    IF rest # {} /\ (high[p] # {} \/ medium[p] # {})
      THEN wPending' = [wPending EXCEPT ![p] = {}] /\ UNCHANGED pending
      ELSE wPending' = [wPending EXCEPT ![p] = rest] /\ UNCHANGED pending

\* Between batches the writer yields to newly queued work and requeues the rest.
Yield(p, rest) ==
    IF rest # {} /\ (high[p] # {} \/ medium[p] # {})
      THEN /\ wPending' = [wPending EXCEPT ![p] = {}]
           /\ pending' = [pending EXCEPT ![p] = @ \cup rest]
      ELSE /\ wPending' = [wPending EXCEPT ![p] = rest]
           /\ UNCHANGED pending

(* commit_access_batch for the next AccessBatch chunks (a hash set: any of  *)
(* them).  If the transaction fails, the batch is dropped with a warning.   *)
CommitAccess(p) ==
    /\ wpc[p] = "access" /\ wPending[p] # {}
    /\ \E B \in SUBSET wPending[p] :
         /\ IsBatch(B, wPending[p], AccessBatch)
         /\ \/ UpdateAccess(B, wNow[p]) /\ UNCHANGED lost
            \/ p \in Failing /\ lost' = lost \cup B /\ UNCHANGED <<access, index>>
         /\ Yield(p, wPending[p] \ B)
    /\ UNCHANGED <<data, registered, now, high, medium, stop, wpc, wHigh, wMedium, wChunks, wKeys,
                   wNow, wStop, gcVars>>

\* Mutant: the loop ends on stop as it is now, not as it was when draining.
EndCycleStopNow(p) ==
    /\ wpc[p] = "access" /\ wPending[p] = {}
    /\ wpc' = [wpc EXCEPT ![p] = IF stop[p] THEN "stopped" ELSE "idle"]
    /\ wNow' = [wNow EXCEPT ![p] = 1]
    /\ UNCHANGED <<tables, registered, now, queues, wHigh, wMedium, wPending, wChunks, wKeys,
                   wStop, lost, gcVars>>

EndCycle(p) ==
    /\ wpc[p] = "access" /\ wPending[p] = {}
    /\ wpc' = [wpc EXCEPT ![p] = IF wStop[p] THEN "stopped" ELSE "idle"]
    /\ wNow' = [wNow EXCEPT ![p] = 1]
    /\ UNCHANGED <<tables, registered, now, queues, wHigh, wMedium, wPending, wChunks, wKeys,
                   wStop, lost, gcVars>>

WriterStep(p) ==
    \/ Drain(p) \/ RegisterAdded(p) \/ EvictCommit(p) \/ EvictUnregister(p)
    \/ ProcessDelete(p) \/ BeginAccess(p) \/ CommitAccess(p) \/ EndCycle(p)
    \/ \E B \in Additions : CommitAdd(p, B) \/ AddMapFull(p, B) \/ AddFails(p, B)
    \/ DeleteFails(p)
-----------------------------------------------------------------------------
(* GcWorker::run in a gc-chunk process.                                     *)

\* gc_expired reads every key older than the cutoff.
GcStart(g) ==
    /\ gpc[g] = "idle" /\ Running(g)
    /\ gKeys' = [gKeys EXCEPT ![g] = {k \in index : k[1] < now - ExpireAfter}]
    /\ gpc' = [gpc EXCEPT ![g] = "submit"]
    /\ UNCHANGED <<tables, registered, now, queues, writer, lost, gDeleted>>

(* ... and has them deleted in batches of GC_BATCH; when all are gone, the  *)
(* checksums are unregistered.                                              *)
GcSubmit(g) ==
    /\ gpc[g] = "submit"
    /\ IF gKeys[g] = {}
         THEN /\ gpc' = [gpc EXCEPT ![g] = "unregister"]
              /\ UNCHANGED <<medium, gKeys, gDeleted>>
         ELSE /\ \E T \in SUBSET gKeys[g] :
                   /\ IsBatch(T, gKeys[g], GcBatch)
                   /\ medium' = [medium EXCEPT ![g] = T]
                   /\ gKeys' = [gKeys EXCEPT ![g] = @ \ T]
                   /\ gDeleted' = [gDeleted EXCEPT ![g] = @ \cup T]
              /\ gpc' = [gpc EXCEPT ![g] = "wait"]
    /\ UNCHANGED <<tables, registered, now, high, pending, stop, writer, lost>>

Deleted(g) == medium[g] = {} /\ wMedium[g] = {}

\* The reply to delete_keys arrives.
GcReply(g) ==
    /\ gpc[g] \in {"wait", "lruwait"} /\ Deleted(g)
    /\ gpc' = [gpc EXCEPT ![g] = IF gpc[g] = "wait" THEN "submit" ELSE "lruunregister"]
    /\ UNCHANGED <<tables, registered, now, queues, writer, lost, gKeys, gDeleted>>

(* unregister_chunks through the local chunk server, then the test of the   *)
(* loop it is in: after a batch of gc_lru the low watermark.                *)
GcUnregister(g) ==
    /\ gpc[g] \in {"unregister", "lruunregister"}
    /\ Unregister(g, ChunksOf(gDeleted[g]))
    /\ gpc' = [gpc EXCEPT ![g] =
                 IF gpc[g] = "lruunregister" /\ (gDeleted[g] = {} \/ Cardinality(data) <= LowMark)
                   THEN "finished" ELSE "usage"]
    /\ gDeleted' = [gDeleted EXCEPT ![g] = {}]
    /\ UNCHANGED <<tables, now, queues, writer, lost, gKeys>>

\* The head of the loop: usage_ratio against the high watermark, then gc_lru.
GcUsage(g) ==
    /\ gpc[g] = "usage"
    /\ IF Cardinality(data) <= HighMark
         THEN /\ gpc' = [gpc EXCEPT ![g] = "finished"]
              /\ UNCHANGED <<medium, gDeleted>>
         ELSE /\ \E T \in SUBSET index :
                   /\ IsOldest(T, GcBatch)
                   /\ medium' = [medium EXCEPT ![g] = T]
                   /\ gDeleted' = [gDeleted EXCEPT ![g] = T]
              /\ gpc' = [gpc EXCEPT ![g] = "lruwait"]
    /\ UNCHANGED <<tables, registered, now, high, pending, stop, writer, lost, gKeys>>

GcStep(g) == GcStart(g) \/ GcSubmit(g) \/ GcReply(g) \/ GcUnregister(g) \/ GcUsage(g)
-----------------------------------------------------------------------------
Tick ==
    /\ now < MaxTime
    /\ now' = now + 1
    /\ UNCHANGED <<tables, registered, queues, writer, lost, gcVars>>

\* A process is killed and started again; only what was committed remains.
Kill(p) ==
    /\ p \in Faulty
    /\ lost' = lost \cup pending[p] \cup wPending[p] \cup wChunks[p]
    /\ high' = [high EXCEPT ![p] = {}]
    /\ medium' = [medium EXCEPT ![p] = {}]
    /\ pending' = [pending EXCEPT ![p] = {}]
    /\ stop' = [stop EXCEPT ![p] = FALSE]
    /\ wpc' = [wpc EXCEPT ![p] = "idle"]
    /\ wHigh' = [wHigh EXCEPT ![p] = {}]
    /\ wMedium' = [wMedium EXCEPT ![p] = {}]
    /\ wPending' = [wPending EXCEPT ![p] = {}]
    /\ wChunks' = [wChunks EXCEPT ![p] = {}]
    /\ wKeys' = [wKeys EXCEPT ![p] = {}]
    /\ wStop' = [wStop EXCEPT ![p] = FALSE]
    /\ wNow' = [wNow EXCEPT ![p] = 1]
    /\ gpc' = [g \in GcProcs |-> IF g = p THEN "idle" ELSE gpc[g]]
    /\ gKeys' = [g \in GcProcs |-> IF g = p THEN {} ELSE gKeys[g]]
    /\ gDeleted' = [g \in GcProcs |-> IF g = p THEN {} ELSE gDeleted[g]]
    /\ UNCHANGED <<tables, registered, now>>

\* ChunkDB is opened again by a new process.
Open(p) ==
    /\ wpc[p] = "stopped"
    /\ wpc' = [wpc EXCEPT ![p] = "idle"]
    /\ stop' = [stop EXCEPT ![p] = FALSE]
    /\ wStop' = [wStop EXCEPT ![p] = FALSE]
    /\ pending' = [pending EXCEPT ![p] = {}]
    /\ gpc' = [g \in GcProcs |-> IF g = p THEN "idle" ELSE gpc[g]]
    /\ UNCHANGED <<tables, registered, now, high, medium, wHigh, wMedium, wPending, wChunks, wKeys,
                   wNow, lost, gKeys, gDeleted>>

Next ==
    \/ \E p \in Procs, B \in Additions : SubmitAdd(p, B)
    \/ \E p \in Procs, c \in Chunks : ReadChunk(p, c)
    \/ \E p \in Procs : DropDB(p) \/ Open(p) \/ WriterStep(p) \/ Kill(p)
    \/ \E g \in GcProcs : GcStep(g)
    \/ Tick

Spec == Init /\ [][Next]_vars

\* Writer threads and GcWorker keep running.
FairSpec ==
    /\ Spec
    /\ \A p \in Procs : WF_vars(WriterStep(p))
    /\ \A g \in GcProcs : WF_vars(GcStep(g))
-----------------------------------------------------------------------------
(* Properties.                                                              *)

(* Every access record has its key in the LRU index, so that gc_expired and *)
(* gc_lru can find the chunk, whichever processes updated and deleted it    *)
(* in between.                                                              *)
AccessIsIndexed == \A c \in Chunks : access[c] # 0 => <<access[c], c>> \in index

(* Garbage collection can reach every stored chunk: it has an access record *)
(* or one is on its way in a writer's queues.  The exceptions are chunks    *)
(* whose queued update died with a killed process or a failed transaction.  *)
Collectable ==
    \A c \in data :
        \/ access[c] # 0
        \/ \E p \in Procs : c \in pending[p] \cup wPending[p] \cup wChunks[p]
        \/ c \in lost

(* Dropping a ChunkDB loses no access time that was queued before: the      *)
(* writer's last round drains what its earlier ones requeued.               *)
CleanStopLosesNothing == \A p \in Procs : wpc[p] = "stopped" => pending[p] = {}

(* The chunk index lists only chunks that are stored, except those an       *)
(* eviction or gc-chunk is about to unregister.                             *)
RegisteredIsStored ==
    registered \subseteq
        data \cup UNION {ChunksOf(wKeys[p]) : p \in Procs}
             \cup UNION {ChunksOf(gDeleted[g]) : g \in GcProcs}

(* Every addition is taken up and answered: the writer always comes back to *)
(* its queues, and evicting for room comes to an end.                       *)
AdditionsAnswered ==
    \A p \in Procs, B \in Additions :
        /\ B \in high[p] ~> B \in wHigh[p]
        /\ B \in wHigh[p] ~> B \notin wHigh[p]
-----------------------------------------------------------------------------
(* The inductive invariant of ChunkDBProofs.                                *)

\* What the writer thread has drained is worked off before it drains again.
DrainInv ==
    \A p \in Procs :
        /\ wpc[p] # "register" => wChunks[p] = {}
        /\ wpc[p] \in {"idle", "stopped"} => wPending[p] = {}

\* Once stop is set no request is left, and no access time after it was seen.
StopInv ==
    \A p \in Procs :
        /\ stop[p] => /\ high[p] = {} /\ medium[p] = {} /\ wHigh[p] = {} /\ wMedium[p] = {}
                      /\ wpc[p] \in {"idle", "high", "access", "stopped"}
                      /\ p \in GcProcs => gpc[p] = "finished"
        /\ wStop[p] => stop[p] /\ pending[p] = {}
        /\ wpc[p] = "stopped" => wStop[p]

IInv ==
    TypeOK /\ AccessIsIndexed /\ Collectable /\ DrainInv /\ StopInv

(* Of process p when it alone has the database open, runs no collector and  *)
(* reaches the chunk index: what it registers is still stored, and only     *)
(* what it has just evicted is registered and gone.                         *)
SoleWriterInv(p) ==
    /\ medium[p] = {} /\ wMedium[p] = {}
    /\ wpc[p] = "register" => wChunks[p] \subseteq data
    /\ registered \subseteq
         data \cup (IF wpc[p] = "unregister" THEN ChunksOf(wKeys[p]) ELSE {})
=============================================================================
