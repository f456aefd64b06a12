# A TLA+ model of distill-fs

distill-fs mounts container images over FUSE.  Reads go through a local block
cache in front of a remote store; chunks of 4 MiB that have been read are
deduplicated into a content-addressed store, ChunkDB, which all processes of a
node share and which nodes share with each other over a peer protocol.  These
modules model the part of it that has to be right for a read to return the
image's bytes, check it with TLC on small instances and prove the central
properties with TLAPS for every instance.

Run a check with `tlc -config X.cfg M`, a proof with `tlapm M.tla`; the table
of runs below names both.

## 1. Inventory

Paths are relative to `src/src/`.

| component | state | operations | interacts with |
|---|---|---|---|
| Block cache, `backend/cache.rs` | sparse file and bitmap, both mapped; `drop_lock`; in-flight table | `read_at`, `write_to_fuse_writer`, `fetch_data`, `invalidate_chunk`, `from_raw_file` | storage backend (fetch), dedup workers (invalidate) |
| ChunkDB, `backend/chunkdb.rs` | LMDB tables `data`, `chunk_access`, `chunk_access_index`; per process three write queues and a writer thread | `add_chunk(s)`, `with_chunk(_range)`, `gc_expired`, `gc_lru`, `delete_keys`, drop | other processes through LMDB; chunk index (register, unregister) |
| Garbage collector, `backend/chunkdb.rs` GcWorker | none of its own | `run`: expire, then LRU down to a watermark | ChunkDB, local chunk server |
| IndexDB, `backend/indexdb.rs` | LMDB table (image, end, start) -> checksum | lookup by offset, insertion | dedup |
| Dedup, `backend/dedup.rs` | bitmap of chunks handed over; two bounded queues; two worker threads | `fetch`, `write_to_fuse_writer`, `dedup`, `gc_chunk`, sync | cache, IndexDB, ChunkDB, local chunk server |
| Peer sessions and pools, `backend/peer.rs` | request table, closed flag, pool of sessions | send with timeout, reader task, acquire, health check | chunk server |
| Chunk server, `backend/peer.rs` | shutdown flag, two acceptors, permits, per connection a reader, request tasks and a writer | get, prefetch, register, unregister, health; run, shutdown, drop | ChunkDB, chunk index, peers |
| Chunk index, `backend/peer.rs` | Redis owners per chunk with TTL and limit, local tracker, cached connection | register, unregister, sync, refresh, repair, lookup | ChunkDB, Redis |
| Peer selection and health, `backend/peer.rs` | peer list, hit hints, failure counts | `candidate_peers`, `fetch_chunk` | chunk index, sessions |
| Circuit breaker and local client, `backend/peer.rs` | open flag, time of the last failure | `should_reject`, `record_success`, `record_failure`, health checker | local chunk server |
| Nydus images, `image/nydus.rs` | RAFS metadata, store worker and queue | `read`, `read_chunk_data`, `store_chunk_bg` | cache, ChunkDB |
| Raw images, `image/raw.rs` | one file | `lookup`, `read`, `readdir` | dedup reader |
| FUSE service, `fs.rs`; log rotation, `log_rotation.rs`; command line, `cli.rs` | session; log files; options | service loop; rotate; wiring | all |

What is hard in it:

* **Concurrency.** FUSE threads, dedup and sync workers share the cache;
  readers wait for each other's fetches inside a read lock that a writer wants.
  A bit is tested before a mutex is taken.  Several processes share one LMDB
  environment; keys read in one transaction are used in a later one.
* **Failure.** A fetch fails half way, or ends early with an Ok; a transaction fails between two others;
  a process is killed between a commit and the queueing of the access record,
  or between clearing a bit, flushing it and punching a hole.
* **Ordering.** Registrations reach the chunk index after the commits they
  report, from several processes.
* **Waiting.** A flag is tested before its notification is awaited; a permit is
  awaited where a shutdown is not looked at; a response timeout races the
  answer; entries in Redis lapse unless they are refreshed in time.
* **Limits.** Full queues drop requests; the map is full and eviction has to
  make room and come to an end.
* **Arithmetic.** Lookups by byte offset in keys whose byte order is not the
  order the code has in mind.

`PROJECT.json` lists these as hazards, each at its line, with the properties
that would catch it going wrong.

What makes each component correct:

* cache: a set bit means fetched bytes; a read returns the image's bytes; one
  fetcher per chunk; no lost wakeup; nothing the durable bitmap promises is
  punched away; reads and invalidations return;
* ChunkDB: what is stored fits; every chunk can be found by garbage
  collection; a clean stop loses nothing; additions are answered; the chunk
  index lists what is stored;
* IndexDB: segments tile the request; what has a record is found;
* dedup: reads return the image's bytes; a record names its chunk's bytes;
  the last copy of a chunk is never dropped; marked chunks get their record;
* sessions: a response reaches the request it answers and no other; no request
  is forgotten or counted wrongly when it times out or the session closes; the
  pool is bounded;
* chunk index: what is tracked does not lapse, what is deleted gets off the
  list, what is stored gets on it;
* prefetch: only verified data is stored, and a good copy in reach is fetched;
* breaker: a rejection has a recent failure as its reason, and ends when the
  server is back;
* chunk server: it stops when told to, serves who is waiting, and does not give
  up a connection whose requests are not answered;
* Nydus images: a read returns the file, whatever its chunks come from; what is
  queued for ChunkDB gets there before the image is gone.

## 2. Modules

| module | models | composed of |
|---|---|---|
| `ReadThrough` | what the cache promises: an abstract read-through store | |
| `Cache` | `backend/cache.rs` | implements `ReadThrough` |
| `ChunkDB` | `backend/chunkdb.rs`, all processes of a node | |
| `DedupRange` | `dedup_range` and the keys of `backend/indexdb.rs`, in bytes | |
| `ImageStore` | what a mount with a backend promises: reads hand out the image, chunk by chunk | |
| `Dedup` | `backend/dedup.rs`, one mount | cache, ChunkDB and lookup at their specifications; with a backend it implements `ImageStore` |
| `Session` | `SessionPool` and `MultiplexedSession` of `backend/peer.rs`, one server | |
| `ChunkIndex` | the register script, `RedisChunkIndex`, `IndexMaintainer` and the control requests, one node in full | |
| `NydusRead` | `read`, the store worker and drop of `image/nydus.rs` | extends `DedupRange`, through which the blob is read; ChunkDB at its specification |
| `Prefetch` | `PrefetchRequest`, `PeerClient`, hints, health records and discovery | index and ChunkDB at their specifications |
| `Breaker` | `CircuitBreaker` and `LocalChunkClient` | |
| `ChunkServer` | `ShutdownHandle`, `run_inner`, acceptors, `RequestHandler` | |
| `MCCache`, `MCChunkDB`, `MCDedup`, `MCSession` | definitions the instances for TLC need; the other modules are run as they are | |
| `CacheProofs`, `ChunkDBProofs`, `DedupProofs`, `SessionProofs`, `ChunkIndexProofs`, `NydusReadProofs`, `PeerClientProofs`, `ChunkServerProofs` | proofs; `NydusReadProofs` those about `DedupRange` too, `PeerClientProofs` those about `Breaker` and, through its instance `P`, about `Prefetch` | |

### Cache

A range is a range of chunk numbers.  The bytes of a chunk in the mapping are a
hole, partly written, or the image's; the image does not change.  `bit` is the
mapped bitmap, `diskBit` what a loss of power would leave of it, and the kernel
may write it back at any time (`Writeback`).  Each reader has a program counter
through `read_at`; one step is one atomic operation of the code: taking
`drop_lock`, loading the bit, the critical section of the in-flight table,
waiting, the backend writing some bytes, `set_bit`, removing the entry,
`done()`, copying.  `drop_lock` has no variable of its own: who holds it
follows from the program counters, as the guards live as long as the calls.
`waitFor` stands for the `Arc<InFlightIO>` a waiter holds: it names the owner
while that is Fetching, and is `None` when it is Done, so a wakeup that is
missed is visible.  A waiter may time out at any moment, even after `done()`.
Readers are `read_at` and `write_to_fuse_writer`, which differ in whether the
range is refused before or after the lock is taken; the model refuses before.
A restart keeps mapped bytes (a process crash, not a loss of power).

A fetch writes the whole chunk and succeeds (`FetchOk`), fails after any part of
it (`FetchErr`), or ends early and succeeds all the same (`FetchShort`):
`fetch_data` discards the count of bytes and sets the bit.  The history variable
`short` keeps the chunks whose bytes are there on such terms until the chunk is
dropped or fetched in full, and a read that copies one of them ends as "short",
which is told from "torn", a read of bytes that no fetch has passed off as a
chunk.

`WriterPriority` says whether a waiting writer of `drop_lock` holds back new
readers: the standard library leaves it open, so both values are checked.

### ChunkDB

A chunk stands for its checksum and its bytes, room is counted in chunks, and a
write transaction is one step because LMDB runs one at a time over all the
processes.  Requests in a queue are kept as a set: the model works them off in
any order and merges equal ones, and each sub-batch of `add_chunks` is an
addition of its own, which allows more orders than the queue does.  The three
tables, the queues under the channel's mutex, what the writer has drained and
what `GcWorker` carries between transactions are separate variables, since what
goes stale between them is the point.  A process in `Faulty` may be killed at
any step and its calls to the chunk index may be lost; the transactions of a
process in `Failing` may fail.  `lost` is a history variable: the chunks whose queued access time died
with a kill or a failed transaction.  The clock (`now`) is shared and bounded.

`registered` is the chunk index as this node sees itself in it; how Redis keeps
it is in `ChunkIndex`.

### DedupRange

Byte offsets in an image or blob whose last chunk is shorter.  Records appear
as `dedup` writes them; a request looks its range up.  The module has no
behaviour of its own: `NydusRead` makes the requests and runs the dedup worker.  `LookupRange` is the
loop of `dedup_range` as a fold over the records in LMDB's order, which `Walk`
describes as the sequence of the records whose keys ascend.  The properties say what that loop computes: the leading covered bytes, and nothing
for a request that starts at the last byte of a record.

### Dedup

One mount: readers, the DedupWorker, the SyncWorker, and restarts.  A chunk's
bytes are named by their checksum, `Zero` being the checksum of a hole.  The
parts below are taken at what the other modules show of them: a read of the
cache or a drop is one step (`Cache` implements `ReadThrough`), a lookup
returns the records up to the first gap, or nothing when the request starts at
the last byte of a longer record, and the worker's check of one chunk tells a
record from none except in a shorter last chunk; ChunkDB is a set that anybody
may delete from (`Collects`).  That lookup and check are those of `DedupRange`,
which counts bytes, is proved (`LookupsGoByChunk`, `ChecksSeeTheirChunk`).  A segment without a record is
read chunk by chunk, which lets a drop come between two chunks of it where the
code would hold `drop_lock`; a drop between the lookup and the first chunk has
the same effect.  `Remote` says whether there is a backend behind the cache; a
local image has none, and its file may be the only copy of its bytes.
`collected` is a history variable, the checksums ChunkDB was ever made to
delete, and so is `cut`, the chunks that the backend has cut short and to what
(`Cuts` says what it may cut): the cache passes such bytes off as the chunk,
DedupWorker computes its checksum over them, and every later read of the image
gets them from ChunkDB.  Locals
of a call are reset when it returns, which only saves states.

### Session

The callers of one pool, its sessions, their reader tasks and the server's side
of each connection.  A request asks for a chunk and a response is the chunk it
answers for, whatever its status.  Each caller has a program counter through
`acquire`, `send_request` and `close`, each reader task one through its loop.
`wire` holds the requests that will be answered, and the server answers them in
any order, as each is handled by a task of its own; `stream` says whether the
bytes of the connection break off inside a request.  A write that times out may
leave part of a frame and frees the writer's mutex before its caller closes the
session: the next request completes the frame, and the server may act on the
mixture (`Mixed`) under the first one's id.  The model takes the cut to lie
behind the eight bytes of the id, and the bytes that follow a mixture to be
refused.  Removing an entry and sending on its channel are one step: a timeout
between the two is one just before.  The pool's mutex is held between prune and
pick while flags and counts change.  The pool has no order: which idle sessions
go beyond the first `MinIdle`, and which of several least used ones is taken,
is open.  Time is abstracted: a timeout may come at any moment of a wait, and a
session without requests may count as idle for long at any moment.  A request
entered after `close` has taken the table waits for its own timeout.

### ChunkIndex

One node in full: ChunkDB's calls arrive at control tasks, `Sync` walks ChunkDB
once, `Loop` refreshes what the tracker holds and then repairs a batch.  A
command to Redis is one step, so calls for one chunk interleave between their
commands and the update of the tracker.  An entry is kept with its age, which
makes time finite; a tick makes all entries older.  Time is that of the scores
in Redis, whole seconds: nine tenths of an interval, over which the batches of
a refresh are spread, may count as the whole of it, so they are rounded up.  `register_many` takes the
time once for a whole call: no tick comes between its first command and its
tracking.  Other nodes are their registrations, which compete for the places
of owners.  Which of several entries of equal age the limit drops depends on
the order of addresses and is open.  A call may fail before or between its
commands; a connection that Redis closes stays broken, as `redis_conn` never
replaces it.  Initially ChunkDB and Redis are in any state a former process can
have left.  History variables: `renewed`, the chunks whose entry this process
has written itself (an entry found by a walk may be about to lapse),
`loose`, the chunks whose unregistration failed or met a registration of the
same chunk, and `missed`, the refreshes in a row that have failed.  The jitter
before the first refresh counts as one: an entry written during it is as old at
that refresh as one whose last refresh failed.

### NydusRead

A mount with ChunkDB, since without one nothing is stored.  `Read` takes any
offset and size, with `MaxOffset` as the largest number so that their sum may
overflow.  Each chunk is taken from ChunkDB or, after a miss or an error there,
from the blob.  A file byte is its offset and a chunk's data the number of its
bytes that are there: decompression may return fewer.  Where a chunk lies in
the blob, whether it is compressed and whether it has data at all differs
between the images that share ChunkDB, so it is open at each read, ranges that
a truncated blob does not have included.  The writer takes all of what it is
given or fails.  One read runs at a time; ChunkDB, the queue and the dedup
records change beside it.  `sent` and `handed` are the histories of both ends
of the queue.

### Prefetch

Requests for one chunk; what requests for others do to the hints and the health
records is `OtherHit`.  Times are left out: a hint expires and a failure is
forgotten at any step, and scores order peers of a class in any way.  The
discovered peers are a bag: one address may be listed under several node ids or
repeatedly in the configuration, and the `dedup` after the sort by score
(`peer.rs:1974`) removes neighbours only, so a list may have it twice
(`Ranked`).  Peers
stop, start, store and delete at will; those in `Corrupt` send data that does
not have the checksum.  The lookup may fail at any time, so that discovery may
be used even when there is an owner.

### Breaker

The two atomics are read and written one at a time.  `last` is the age of
`last_failure_ms`, `failure` (history) the age of the last failure there has
been; ages stop at the cool-down.  A thread's request may fail although the
server is up, as an error in the answer counts as a failure; the health
checker only connects.

### ChunkServer

A server with a peer client and an index, so that both periodic tasks run.
`wait` is two steps, the test of the flag and the creation of the `Notified`,
which from then on receives a `notify_waiters`.  The branch of a `select!` that
is taken is open.  A handler that has a permit reads requests, each becomes a
task, and responses go through the connection's writer.  Slots stand for
permits; tasks and writers that go on without one are forgotten, as nothing
waits for them.  The history variable `owed` counts the requests of a connection
that its writer, as long as it works, has yet to answer.  A client may go on
sending, or not read its replies, for ever: the keep-alive time starts anew with
each request and a write has no timeout.

## 3. Runs

| run | config | instance | states | checks |
|---|---|---|---|---|
| cache_safety | `MCCache.cfg` | 2 readers, 2 droppers, 2 chunks, 1 failure | 2.1 M | TypeOK, PresentMeansFetched, ReadReturnsImage, PunchIsSafe |
| cache_waiters | `MCCacheWaiters.cfg` | 3 readers, 1 dropper, 1 chunk, 1 failure, fair | 101 k | OneFetcherPerChunk, WaiterHasOwner, ImplementsReadThrough, ReadsTerminate, InvalidationsTerminate |
| chunkdb_shared | `MCChunkDBShared.cfg` | mount + faulty gc process, 2 chunks, room for 1 | 0.9 M | AccessIsIndexed, Collectable, CleanStopLosesNothing |
| chunkdb_writer | `MCChunkDBWriter.cfg` | 1 process, 2 callers, batches of 2, room for 1, failing transactions, fair | 109 k | RegisteredIsStored, AdditionsAnswered |
| dedup_remote | `MCDedupRemote.cfg` | 1 reader, 2 chunks of which 1 may be cut short, peers, GC, 1 failure, 1 restart | 1.9 M | ReadReturnsImage, ImplementsImageStore |
| dedup_local | `MCDedupLocal.cfg` | 1 reader, 2 chunks, GC, 1 failure, 1 restart, fair | 0.4 M | IndexIsTruthful, NothingIsLost, DedupCompletes |
| session | `MCSession.cfg` | 2 callers, 3 sessions, pool of 1, 3 requests, 2 failing writes | 2.3 M | OwnResponse, TableIsExact, InflightIsExact, PoolBound |
| chunk_index | `MCChunkIndex.cfg` | 1 chunk, 2 nodes, 1 place for an owner, 1 control task, TTL of 3, 1 failure, fair | 501 k | TrackedNeverLapses, DeletedIsUnlisted, StoredGetsListed |
| nydus_read | `MCNydusRead.cfg` | file of 3 bytes in chunks of 2, blob of 5 in chunks of 2, queue of 1, batches of 2, 2 reads, fair | 764 k | TypeOK, ReadReturnsFile, QueueIsStored, DropEnds, SegmentsTile, FindsPrefix |
| prefetch | `MCPrefetch.cfg` | 2 peers, 1 of them corrupt, each listed up to twice, 1 request at a time, fair | 339 k | OnlyVerifiedIsStored, FindableIsFetched |
| breaker | `MCBreaker.cfg` | 2 threads and the checker, cool-down and interval of 2, fair | 73 k | RejectsAfterFailure, Recovers |
| chunk_server | `MCChunkServer.cfg` | 1 permit, backlogs of 1, 1 request at a time per connection, fair | 197 k | RunEnds, PendingIsServed, AnsweredBeforeRelease |

Disagreements between the code and its documents, comments and tests, or
behaviour a maintainer should know of, all visible in the models:

* **A local image can read zeros.**  A deduplicated chunk of a local image is
  punched out of its file, and the file is the backend.  A read that spans a
  chunk without a record and a punched one (`dedup.rs:464`: the record after
  the gap is not found), or that looked its records up before the punch, copies
  the hole, although ChunkDB has the bytes; `README.md:360-361` says ChunkDB is
  tried first.  Adding the invariant `ReadReturnsImage` to `MCDedupLocal.cfg`
  gives the trace; with a backend the property is checked (dedup_remote) and
  proved.
* **A short fetch is taken for a chunk.**  `fetch_data` tests the backend's
  result for an error and discards its count (`cache.rs:419-426`); a fetch that
  ends early with an Ok, which `general.rs:54-56` passes through, leaves part of
  the chunk a hole and its bit set, where `dedup.rs:299-311` and
  `nydus.rs:312-328` treat a short read as an error.  Reads then return the
  hole, and DedupWorker, to which the cache reports the full length, records its
  checksum for the chunk.  It is the exception in `PresentMeansFetched`, in
  `ReadReturnsImage` (`Cache`, `Dedup`) and in `IndexIsTruthful`, and what "short"
  stands for in `ReadThrough` and `ImageStore`.
* **A record is missed at its last byte.**  `bytes_encode` (`indexdb.rs:171`)
  sorts the larger start last, `Ord` (`indexdb.rs:152`) says the opposite, and a
  request that starts at a record's last byte does not find it: `AtLastByte` in
  `FindsPrefix`.  On a local image such a read of a punched chunk copies the
  hole too (`BeginRead` of `Dedup`).
* **gc-chunk can delete a fresh chunk.**  `gc_expired` deletes by keys read in
  an earlier transaction (`chunkdb.rs:721`): a chunk that another process has
  restamped in between goes too, where `README.md:294` says "older than 24
  hours".
* A shutdown that comes between the test of the flag and the creation of the
  `Notified` (`peer.rs:809-813`) is missed by an acceptor until a client
  connects: `Missed` in `RunEnds`.
* An acceptor waits for a permit inside the branch of `select!`
  (`peer.rs:2738`), where it does not look at the shutdown.  With every permit
  held by a client that keeps sending (`peer.rs:3158-3162`, the idle timeout is
  per request) or does not read its replies (`peer.rs:3090-3155`, no timeout),
  it neither accepts nor stops: `NoPermitLeft` in `RunEnds` and
  `PendingIsServed`.
* A peer whose address is listed twice can be asked twice and take two of the
  `max_query_peers` places (`peer.rs:1974`): `Findable` counts its copies.
* A connection to Redis that has broken is cached for good (`peer.rs:1335`),
  where the discovery worker drops its own (`peer.rs:3458`); every call of the
  index then fails.  It is the exception in `StoredGetsListed`.
* The loop waits for a jitter of up to an interval before its first refresh
  (`peer.rs:3330-3341`), so that an entry registered in that time lapses when
  the first refresh fails, where a later one may fail without harm: `missed`
  in `TrackedNeverLapses`.  The interval is at least a second (`peer.rs:1614`)
  and the spread nearly another, so a TTL of one or two seconds leaves no room
  for a failed refresh, and one second none at all.
* A refresh or repair can register a chunk again that is being unregistered;
  the entry is then refreshed as long as the process lives (`loose`).
* A peer with a corrupt copy is recorded as a success and a hint before the
  checksum is compared (`peer.rs:2065`), and nobody else is asked
  (`peer.rs:2869`): it hides good copies, hence `Corrupt` in `Findable`.
* Owners that do not answer hide the discovered peers (`peer.rs:1996`), and
  peers without a hint are shuffled whatever their health (`peer.rs:2023`).
* An error status of a healthy server opens the breaker (`peer.rs:2366`), where
  the comment at `peer.rs:2189` says "is known to be unavailable".
* An accept error ends one acceptor for good (`peer.rs:2737`), and the server
  goes on with the other.
* A second server started by mistake removes the running one's socket file
  before it fails to bind (`peer.rs:2590`): `StartAgain`.
* A batch of checksums that breaks off frees the permit while the writer and the
  tasks of the connection go on (`peer.rs:3176`).
* Chunks read from a blob are stored under the checksum of the metadata without
  being compared with it (`nydus.rs:571`).
* a reader tests the bit (`cache.rs:399`) before it locks the in-flight table,
  so a chunk can be fetched a second time over the same bytes, where
  `cache/tests.rs:259` expects one fetch;
* `GcWorker::run` stops as soon as usage is at the high watermark
  (`chunkdb.rs:1335`), where `README.md:295` says down to 80%;
* a process can register a chunk that another has evicted and unregistered
  since the commit (`chunkdb.rs:643`);
* `dedup_range` loses the record that follows a gap (`dedup.rs:195`);
* `gc_chunk` asks IndexDB only (`dedup.rs:337`) and can punch a chunk out of
  the file that ChunkDB has deleted since: hence `collected` in NothingIsLost.

**Bounds.** Two chunks are the fewest with a range, a neighbour and a gap; two
readers the fewest that wait for each other, three the fewest where a
notification can reach the wrong one; two droppers the fewest that compete for
`drop_lock`; one failure takes each error path from every state.  ChunkDB has
one chunk less room than there are chunks, so that MapFull happens; a clock of
two ticks makes fresh and expired records, three make a restamp after an
expiry.  Queues of length one are full as soon as they are used.  Readers and
droppers, and ChunkDB's chunks, are interchangeable and declared symmetric in
the runs that check safety only.  A pool of one that two callers may overrun
by one needs a third session to show that they do no more; a second request of
one of them meets what the first has left on the connection, and a second
failing write what the first has broken off.  `session` does not check for
deadlock: it ends when `MaxRequests` requests have been begun.  Every bound is a
constant: `MaxFailures`, `MaxRestarts`, `MaxTime`, `MaxSessions`, `MaxRequests`,
`Callers`, `QueueLen`, `Capacity`, `MaxReads`, `MaxPending`, `MaxOffset`,
`MaxCopies`.  In `Cache` a fetch that comes short counts as one of the
`MaxFailures`.  In `Dedup` the backend may cut chunks short as often as it
likes.  Its runs have one reader beside the two workers, which read through the
cache and write to ChunkDB as a second reader does; `ReadReturnsImage` has been
checked with two readers too (8.3 M states, without failures), and the theorems
are for any number.

A TTL of 3 is the tightest that leaves room: two intervals and the spread fill
it (TTLs of 4 and 6 have been checked too); one place for an owner makes two nodes evict each other, and one
failure loses a registration or a whole refresh.  Two nodes and one chunk show
every interleaving of calls for the same key; calls for different chunks share
only the connection and the walk's cursor (an instance of two chunks without
other nodes has been checked too).  A file of three bytes in chunks of two has
reads inside, across and past chunks; a blob of five has a short last chunk and
room for a gap.  A queue of one is full at the second chunk of a read, and
batches of two are never full with it unless the worker keeps up.  With one
failure a peer is unhealthy at once, and with two peers, each listed up to
twice, and a limit of two candidates a hinted, an unhealthy or a stale one can
fill the list.  A
breaker's cool-down of two has an instant that is neither the failure's nor the
end.  One permit makes the acceptors compete for it.

**Fairness.** Threads keep running: weak fairness of each thread's steps.
`Cache` adds strong fairness of taking `drop_lock`, as a lock is handed to
whoever keeps asking, and assumes that the backend answers; it does not assume
that a waiter's timeout comes to its help, nor spurious wakeups.  Nothing is
assumed of callers, the clock, garbage collection, failures or restarts.
`ChunkIndex` assumes that tasks run, that time goes on (`Tick` is held up only
by steps of the loop that are due, hence strong fairness) and that the loop's
timers fire in time: a batch is sent when it is due and a turn ends before the
next.  `Prefetch` assumes that requests for the chunk keep coming, that adding
to ChunkDB does not fail for ever, and that the shuffle leaves no peer out for
ever.  `Breaker` assumes that the checker's timer fires in time and that
requests end, by their timeout at the latest.  In `ChunkServer` the runtime
runs every task; `select!` polls its branches in random order, so an acceptor
whose backlog is never empty tests the flag again (strong fairness of
`TestFlag`), and the work on a request comes to an end.  Nothing is assumed of
its clients, neither that they stop sending nor that they read their replies.  In
`NydusRead` the worker's thread runs.
`AdditionsAnswered` says that an addition is drained and then leaves the
writer, answered or refused.

## 4. Proofs

For any number of threads, processes, chunks, callers and sessions, any
capacity, watermarks, batch sizes and limits of the pool, and any number of failures and restarts.  Assumptions are the
named `ASSUME`s of the modules: constants have their types, the image has a
chunk, batches are not empty, checksums of holes are checksums.

| theorem | says |
|---|---|
| `CacheProofs!TypeCorrect`, `BitsAreSound`, `ReadsAreSound`, `FetchesAreExclusive`, `NoLostWakeup`, `PunchesAreSafe` | `Spec => []TypeOK`, `PresentMeansFetched`, `ReadReturnsImage`, `OneFetcherPerChunk`, `WaiterHasOwner`, and the action property `PunchIsSafe` |
| `CacheProofs!Refinement` | `Spec => Abstract!Spec`: the cache implements `ReadThrough`, short fetches included |
| `ChunkDBProofs!TypeCorrect`, `RecordsAreIndexed`, `ChunksAreCollectable`, `StopsAreClean` | `Spec => []TypeOK`, `AccessIsIndexed`, `Collectable`, `CleanStopLosesNothing` |
| `ChunkDBProofs!SoleWriterRegisters` | `Alone(p)`, that is, one process, no gc-chunk and no kills, gives `Spec => []RegisteredIsStored` |
| `DedupProofs!TypeCorrect`, `RecordsAreTruthful` | `Spec => []TypeOK`, `IndexIsTruthful` |
| `DedupProofs!RemoteReadsAreSound` | `Remote => (Spec => []ReadReturnsImage)` |
| `DedupProofs!Refinement` | `Remote => (Spec => Image!Spec)`: with a backend the mount implements `ImageStore` |
| `DedupProofs!LocalImageIsKept` | `~Remote => (Spec => []NothingIsLost)` |
| `SessionProofs!TypeCorrect`, `ResponsesAreOwn`, `TableStaysExact`, `CountsStayExact`, `PoolStaysBounded` | `Spec => []TypeOK`, `OwnResponse`, `TableIsExact`, `InflightIsExact`, `PoolBound` |
| `ChunkIndexProofs!TypeCorrect`, `EntriesOutliveTheInterval`, `DeletionsAreThorough` | `Spec => []TypeOK`, `TrackedNeverLapses`, `DeletedIsUnlisted` |
| `NydusReadProofs!TypeCorrect`, `ReadsReturnTheFile`, `QueuesAreStored` | `Spec => []TypeOK`, `ReadReturnsFile`, `QueueIsStored` |
| `NydusReadProofs!LookupsTileRequests`, `LookupsFindThePrefix` | `Spec => []SegmentsTile`, and the action property `FindsPrefix` |
| `NydusReadProofs!LookupsGoByChunk`, `ChecksSeeTheirChunk` | `Spec => []LookupIsByChunk`, `CheckSeesChunk`: in chunks, `dedup_range` and `dedup_check_range` are what `Dedup` takes them to be |
| `PeerClientProofs!LastIsFailureAlways`, `RejectionHasReason` | of `Breaker`: `Spec => []IInv`, and the action property `RejectsAfterFailure` |
| `PeerClientProofs!PrefetchInvariance`, `OnlyVerifiedChunks` | of `Prefetch`, given its `Parameters`: `P!Spec => []P!IInv`, `P!OnlyVerifiedIsStored` |
| `ChunkServerProofs!OwedAlways`, `PermitsAreEarned` | `Spec => []IInv`, `AnsweredBeforeRelease` |

The inductive invariants are defined in the modules themselves (`IInv`), those
of `Breaker` and `ChunkServer` (`IInv`) and of `ChunkIndex` (`TimeInv`,
`HeldInv`) in their proof modules.  All have
been checked with TLC on instances of the runs.

* **Cache.** That a read returns the image is not inductive: a reader copies
  several steps after it has tested the bits.  `PassedInv` says that the chunks
  its loop has passed are still present, which needs `LockInv` (a dropper is
  inside `drop_lock` only without readers) and `RangeInv` (the loop stays in
  its range).  `EntryInv` ties the in-flight table to the program counters of
  the fetchers and gives exclusiveness; `WaitInv` says that an unfinished
  reference is held by a waiter of a live owner, for the wakeups; `DropInv`
  records what a dropper has done, so that the durable bit is clear when the
  hole is punched.  `ShortInv` says what is known of a chunk whose fetch came
  short.
* **ChunkDB.** `AccessIsIndexed` survives deletion by stale keys because a
  deletion removes the access record whatever key it came by.  `Collectable`
  needs `DrainInv`: what the writer drained is worked off before it drains
  again.  The clean stop needs `StopInv`: after `stop` is set no caller is left,
  so a round that saw it cannot yield.
  `RegisteredIsStored` is false as soon as a second process can evict between
  the commit of an addition and its registration.  For one process
  `SoleWriterInv` says that its writer thread keeps the two apart: what it is
  about to register is stored, and what is listed and no longer stored is among
  the keys it is about to unregister.
* **Dedup.** A checksum is computed over the image's bytes, or over those that
  a short fetch has left in the cache (`Fits`), because a chunk
  without a record has not been punched (`HoleInv`) and only the one
  DedupWorker writes records (`WorkerInv`); a reader's snapshot stays true
  because records only appear (`FoundInv`); `KeptInv` says that a
  record's bytes are in ChunkDB or were deleted from it.  With a backend, the
  chunks a reader has still to copy map to `todo` of `ImageStore`: a copy takes
  the first of them away (`CopiedServes`), misses, prefetches, fallbacks, offers
  and all that workers and garbage collection do leave it alone (`NotShown`), but
  for a short fetch of a worker, which adds to `short` (`ShortGrows`).
* **Session.** A response is matched by id alone, so that it is the caller's
  own needs `IdInv` (ids on a session are unique among its requests and below
  the counter) and `WireInv` (the server answers an id with what its caller
  wants, except for the id of a broken-off request, whose caller no longer
  waits).  `InflightIsExact` gives that taking the count down never wraps, and
  so the type invariant.  `RoomInv` counts the callers that are connecting with
  the pool, since they will add to it without looking again.
* **ChunkIndex.** How old an entry may be depends on where the loop is.
  `AgeInv` bounds it: by the time since the turn began if this turn has come by
  the chunk, by one more interval if it has yet to (the batches are spread over
  the interval, and this turn may come late to what the last one refreshed
  early), and by yet another if the last turn failed.  `LoopInv` says that the
  timers fire in time, so that a turn is shorter than the interval, and
  `SampleInv` that no time passes between a registration and its tracking; that
  two intervals and the rounded spread fit into a TTL of three seconds or more
  does the rest.  Proving it for every TTL
  has shown that the jitter has to count as a failed turn.  `HeldInv` says of a
  chunk that is neither stored nor excused that it is forgotten, or in the
  hands of one task that unregisters it and of nobody else.
* **NydusRead.** `PositionInv` says that the read stands at the byte of the file
  that follows what it has written, inside the chunk it is at; with the
  arithmetic of one chunk (`WantedBounds`) a chunk's bytes continue the reply
  (`WrittenStep`), also in a short last chunk.  `DropInv` says that no read
  outlives the sender and that a worker that has ended has left nothing.
* **DedupRange.** What the loop of `dedup_range` computes is shown for every set
  of records and every range.  `WalkFold` turns the fold into the sequence of
  the loop's states, and an induction over that sequence (the least state that
  breaks a claim, `LeastNumber`) shows what holds after each record.  The walk
  meets the records in the order of their keys (`WalkSorts`), which, as records
  lie apart, is their order in the image (`WalkOrdered`).  `Cut`: the segments so
  far tile the request up to where the loop stands.  `Unbroken` or `Broken`: all
  bytes so far have a record and were found, or there is a first gap, behind
  which nothing is found, since the loop then always stands at the start of a
  record it has consumed.  That records lie apart comes from `BlobInv`: they are
  those of whole chunks.  So a byte has a record when its chunk has one, and the
  bytes found up to the first gap end at the end of a chunk or of the request
  (`CoveredChunks`, `ByChunk`): this is `Lookup` of `Dedup`.  The check of one
  chunk is a walk over the records from that chunk on, of which the first alone
  matters (`WalkFromChunk`, `ChunkCheck`); the CHUNK_SIZE bytes it asks for
  reach beyond a shorter last chunk.
* **Breaker.** A caller that rejects has loaded the flag in an earlier step and
  the time in this one, either of which another thread may have replaced since.
  `IInv` says that whenever the flag is set, about to be set, or has been seen
  set, the recorded time is that of a failure and so not newer than the last
  one; a thread that has yet to store its time holds one that is not newer
  either.  The initial time, which is no failure, is never compared.
* **Prefetch.** A request's list is the owners in their ranking, or the hinted
  peers in theirs followed by the other discovered ones in any order, cut to the
  limit, which `WithinLimit` states; that no peer is in it twice does not hold.
  `HoldsAnswer` says that data is held only between an answer and its
  verification, so that no data of an earlier peer is stored when a later one
  has been asked.
* **ChunkServer.** A handler that gives its permit back looks at its writer and
  not at what it owes.  `OwedInv` ties the two: a working writer owes the tasks
  that run and the responses that wait, a failed one nothing, and a free permit
  has none of them, so the next connection on it starts with nothing.

Only model-checked: liveness (`ReadsTerminate`, `InvalidationsTerminate`,
`AdditionsAnswered`, `DedupCompletes`, `StoredGetsListed`,
`DropEnds`, `FindableIsFetched`, `Recovers`, `RunEnds`, `PendingIsServed`),
which is beyond the prover, as `ENABLED` is.  Every safety property that a run
checks has a theorem.  What recursive definitions compute would need an
induction the provers cannot instantiate; `dedup_range` is a fold instead, and
its induction goes over the least state that breaks a claim.

## 5. Not modelled, and the plan

Not modelled, and why:

* checksum computation (taken as injective), LMDB, Redis, tokio and RAFS beyond
  what the code uses of them, statistics and metrics;
* the storage backends and the FUSE service: I/O through libraries, which the
  models take as calls that succeed, in part or in full, fail or take their time;
* loss of power for the data file of the cache (the bitmap's is modelled):
  nothing flushes data before its bit, so no property could hold;
* raw images: one file whose reads are those of the dedup reader;
* the branch of `dedup` for a request with a given checksum: no request outside
  the tests has one;
* the wire format beyond ids and framing (`Session`), the size option, log
  rotation, the command line, benchmarks: sequential code without state that
  other parts depend on.

Worth doing next: the same for Nydus images, whose reads an abstract file could
stand for as `ImageStore` stands for a mount, and a run of `Dedup` with the
bytes of `DedupRange` in the place of its chunks.
