------------------------------- MODULE Cache -------------------------------
(***************************************************************************)
(* The sparse cache file with its presence bitmap, src/backend/cache.rs.   *)
(*                                                                         *)
(* FUSE threads and the dedup workers read through the cache: read_at      *)
(* (and write_to_fuse_writer, its zero-copy twin) takes drop_lock for      *)
(* reading, makes every chunk of the range present (fetch_data) and copies *)
(* the mapped bytes.  A chunk is fetched by the thread that enters it in   *)
(* the in-flight table; the others wait on its condition variable.  The    *)
(* dedup workers take drop_lock for writing and drop a chunk               *)
(* (invalidate_chunk): clear its bit, flush the bitmap, punch a hole.      *)
(*                                                                         *)
(* Data are abstracted to what the properties tell apart: the mapped bytes *)
(* of a chunk are a hole, partly written, or the image's bytes, which are  *)
(* immutable.  A range is a range of chunk indices.  A fetch that returns  *)
(* Ok may have written fewer bytes than the chunk has: fetch_data does not *)
(* look at the count, and `short' records the chunks this has happened to. *)
(*                                                                         *)
(* drop_lock has no variable: the threads inside it are those whose        *)
(* program counter says so, as the guards live for the whole call.         *)
(***************************************************************************)
EXTENDS Integers, FiniteSets

CONSTANTS
    Readers,         \* threads calling read_at or write_to_fuse_writer
    Droppers,        \* threads calling invalidate_chunk
    NChunks,         \* the image has chunks 0 .. NChunks-1
    MaxFailures,     \* bound: backend fetches that may fail or come short
    WriterPriority,  \* does a waiting writer of drop_lock hold back new readers
    None             \* no thread

ASSUME CacheAssumption ==
    /\ NChunks \in Nat \ {0}
    /\ MaxFailures \in Nat
    /\ WriterPriority \in BOOLEAN
    /\ None \notin Readers

Chunks == 0 .. (NChunks - 1)

VARIABLES
    bit,        \* chunk -> its bit in the mapped bitmap
    diskBit,    \* chunk -> its bit in the bitmap on the disk
    raw,        \* chunk -> its bytes in the mapped cache file
    short,      \* history: the chunks whose last fetch returned Ok before the chunk
                \*          was complete, until they are fetched whole or dropped
    inFlight,   \* chunk -> the reader that entered it in in_flight_ios, or None
    waitFor,    \* reader -> the owner of the InFlightIO it holds a reference to
                \*           while that is Fetching; None when it is Done
    pc,         \* reader -> where it is in read_at
    first,      \* reader -> first chunk of its range
    last,       \* reader -> last chunk of its range
    idx,        \* reader -> the chunk its loop is at
    result,     \* reader -> how its last read ended
    dpc,        \* dropper -> where it is in invalidate_chunk
    dchunk,     \* dropper -> the chunk it drops
    gcQueue,    \* chunks the dedup workers have been asked to drop
    failures    \* fetches that have failed or come short so far

readerVars == <<pc, first, last, idx, result, waitFor>>
dropperVars == <<dpc, dchunk>>
vars == <<bit, diskBit, raw, short, inFlight, readerVars, dropperVars, gcQueue, failures>>

(* A thread between register_or_wait_inflight_io returning a new InFlightIO *)
(* and ProcessIOGuard calling done() on it.                                 *)
OwnerPcs == {"fetch", "setbit", "remove", "done", "failremove", "faildone"}
\* The part of it that ends with remove_inflight_io.
EntryPcs == {"fetch", "setbit", "remove", "failremove"}
WaiterPcs == {"join", "wait"}
InsidePcs == OwnerPcs \cup WaiterPcs \cup {"check", "register", "copy"}
ReaderPcs == InsidePcs \cup {"idle", "lock"}
WriterPcs == {"locked", "sync", "punch"}
DropperPcs == WriterPcs \cup {"idle", "lock"}
Contents == {"hole", "part", "image"}
Results == {"none", "image", "short", "torn", "error"}

\* Who holds drop_lock for reading, for writing, and who waits to write.
ReadersIn == {t \in Readers : pc[t] \in InsidePcs}
WritersIn == {d \in Droppers : dpc[d] \in WriterPcs}
WritersWaiting == {d \in Droppers : dpc[d] = "lock"}

TypeOK ==
    /\ bit \in [Chunks -> BOOLEAN]
    /\ diskBit \in [Chunks -> BOOLEAN]
    /\ raw \in [Chunks -> Contents]
    /\ short \in SUBSET Chunks
    /\ inFlight \in [Chunks -> Readers \cup {None}]
    /\ waitFor \in [Readers -> Readers \cup {None}]
    /\ pc \in [Readers -> ReaderPcs]
    /\ first \in [Readers -> Chunks]
    /\ last \in [Readers -> Chunks]
    /\ idx \in [Readers -> Chunks]
    /\ result \in [Readers -> Results]
    /\ dpc \in [Droppers -> DropperPcs]
    /\ dchunk \in [Droppers -> Chunks]
    /\ gcQueue \in SUBSET Chunks
    /\ failures \in 0 .. MaxFailures

\* Cache::new on fresh files: both are sparse and the bitmap is all zero.
Init ==
    /\ bit = [c \in Chunks |-> FALSE]
    /\ diskBit = [c \in Chunks |-> FALSE]
    /\ raw = [c \in Chunks |-> "hole"]
    /\ short = {}
    /\ inFlight = [c \in Chunks |-> None]
    /\ waitFor = [t \in Readers |-> None]
    /\ pc = [t \in Readers |-> "idle"]
    /\ first = [t \in Readers |-> 0]
    /\ last = [t \in Readers |-> 0]
    /\ idx = [t \in Readers |-> 0]
    /\ result = [t \in Readers |-> "none"]
    /\ dpc = [d \in Droppers |-> "idle"]
    /\ dchunk = [d \in Droppers |-> 0]
    /\ gcQueue = {}
    /\ failures = 0
-----------------------------------------------------------------------------
(* Readers: read_at, fetch_data, the in-flight table.                       *)

Goto(t, label) == pc' = [pc EXCEPT ![t] = label]

\* Mutant: the end of the range is not cut at the image's end.
FixRangeUncut(off, n) == off + n - 1

(* fix_range: a request that starts past the end is refused, one that runs  *)
(* past it is cut at the last chunk.                                        *)
FixRange(off, n) == IF off + n > NChunks THEN NChunks - 1 ELSE off + n - 1

\* A reader calls read_at(off, n) and queues for drop_lock.
BeginRead(t, off, n) ==
    /\ pc[t] = "idle"
    /\ IF off >= NChunks
         THEN /\ result' = [result EXCEPT ![t] = "error"]
              /\ UNCHANGED <<pc, first, last, idx>>
         ELSE /\ first' = [first EXCEPT ![t] = off]
              /\ last' = [last EXCEPT ![t] = FixRange(off, n)]
              /\ idx' = [idx EXCEPT ![t] = off]
              /\ result' = [result EXCEPT ![t] = "none"]
              /\ Goto(t, "lock")
    /\ UNCHANGED <<bit, diskBit, raw, short, inFlight, waitFor, dropperVars, gcQueue, failures>>

\* Mutant: read_at without the drop_lock guard.
ReadUnlocked(t) ==
    /\ pc[t] = "lock"
    /\ Goto(t, "check")
    /\ UNCHANGED <<bit, diskBit, raw, short, inFlight, waitFor, first, last, idx, result,
                   dropperVars, gcQueue, failures>>

\* drop_lock.read()
ReadLock(t) ==
    /\ pc[t] = "lock"
    /\ WritersIn = {}
    /\ WriterPriority => WritersWaiting = {}
    /\ Goto(t, "check")
    /\ UNCHANGED <<bit, diskBit, raw, short, inFlight, waitFor, first, last, idx, result,
                   dropperVars, gcQueue, failures>>

\* The step to the next chunk of the range, or to the copy after the last one.
NextChunk(t) ==
    IF idx[t] = last[t]
      THEN Goto(t, "copy") /\ UNCHANGED idx
      ELSE Goto(t, "check") /\ idx' = [idx EXCEPT ![t] = idx[t] + 1]

\* The bit is loaded; whether it is clear is acted on in a later step.
CheckBit(t) ==
    /\ pc[t] = "check"
    /\ IF bit[idx[t]]
         THEN NextChunk(t)
         ELSE Goto(t, "register") /\ UNCHANGED idx
    /\ UNCHANGED <<bit, diskBit, raw, short, inFlight, waitFor, first, last, result,
                   dropperVars, gcQueue, failures>>

\* Is the InFlightIO that o entered for chunk c still Fetching?
IoFetching(o, c) == o # None /\ pc[o] \in OwnerPcs /\ idx[o] = c

\* Mutant: every reader inserts its own entry.
RegisterAlways(t) ==
    /\ pc[t] = "register"
    /\ inFlight' = [inFlight EXCEPT ![idx[t]] = t]
    /\ Goto(t, "fetch")
    /\ UNCHANGED <<bit, diskBit, raw, short, waitFor, first, last, idx, result,
                   dropperVars, gcQueue, failures>>

\* register_or_wait_inflight_io, one critical section of the table's mutex.
Register(t) ==
    LET o == inFlight[idx[t]] IN
    /\ pc[t] = "register"
    /\ IF o = None
         THEN /\ inFlight' = [inFlight EXCEPT ![idx[t]] = t]
              /\ Goto(t, "fetch")
              /\ UNCHANGED waitFor
         ELSE /\ waitFor' = [waitFor EXCEPT ![t] = IF IoFetching(o, idx[t]) THEN o ELSE None]
              /\ Goto(t, "join")
              /\ UNCHANGED inFlight
    /\ UNCHANGED <<bit, diskBit, raw, short, first, last, idx, result,
                   dropperVars, gcQueue, failures>>

\* InFlightIO::wait takes the state's mutex: Done returns at once.
Join(t) ==
    /\ pc[t] = "join"
    /\ Goto(t, IF waitFor[t] = None THEN "check" ELSE "wait")
    /\ UNCHANGED <<bit, diskBit, raw, short, inFlight, waitFor, first, last, idx, result,
                   dropperVars, gcQueue, failures>>

\* The condition variable returns: notified, or spuriously.
Wake(t) ==
    /\ pc[t] = "wait"
    /\ waitFor' = [waitFor EXCEPT ![t] = None]
    /\ Goto(t, "check")
    /\ UNCHANGED <<bit, diskBit, raw, short, inFlight, first, last, idx, result,
                   dropperVars, gcQueue, failures>>

(* wait_timeout reports the timeout, even when done() ran before the waiter *)
(* got the mutex back; read_at returns the error and leaves drop_lock.      *)
Timeout(t) ==
    /\ pc[t] = "wait"
    /\ waitFor' = [waitFor EXCEPT ![t] = None]
    /\ result' = [result EXCEPT ![t] = "error"]
    /\ Goto(t, "idle")
    /\ UNCHANGED <<bit, diskBit, raw, short, inFlight, first, last, idx,
                   dropperVars, gcQueue, failures>>

(* The backend writes into the mapping as bytes arrive.  Over a chunk that  *)
(* is already complete it writes the bytes that are there.                  *)
FetchSome(t) ==
    /\ pc[t] = "fetch"
    /\ raw[idx[t]] = "hole"
    /\ raw' = [raw EXCEPT ![idx[t]] = "part"]
    /\ UNCHANGED <<bit, diskBit, short, inFlight, readerVars, dropperVars, gcQueue, failures>>

(* b.fetch returned Ok and the whole chunk has been written.                *)
FetchOk(t) ==
    /\ pc[t] = "fetch"
    /\ raw' = [raw EXCEPT ![idx[t]] = "image"]
    /\ short' = short \ {idx[t]}
    /\ Goto(t, "setbit")
    /\ UNCHANGED <<bit, diskBit, inFlight, waitFor, first, last, idx, result,
                   dropperVars, gcQueue, failures>>

(* b.fetch returned Ok with a smaller count, which fetch_data does not look *)
(* at: what was there before stays in the rest of the chunk.                *)
FetchShort(t) ==
    /\ pc[t] = "fetch"
    /\ failures < MaxFailures
    /\ failures' = failures + 1
    /\ short' = IF raw[idx[t]] = "image" THEN short ELSE short \cup {idx[t]}
    /\ Goto(t, "setbit")
    /\ UNCHANGED <<bit, diskBit, raw, inFlight, waitFor, first, last, idx, result,
                   dropperVars, gcQueue>>

\* Mutant: the error of b.fetch is recorded and not returned.
FetchErrIgnored(t) ==
    /\ pc[t] = "fetch"
    /\ failures < MaxFailures
    /\ failures' = failures + 1
    /\ Goto(t, "setbit")
    /\ UNCHANGED <<bit, diskBit, raw, short, inFlight, waitFor, first, last, idx, result,
                   dropperVars, gcQueue>>

\* b.fetch returned Err: what it wrote stays in the mapping.
FetchErr(t) ==
    /\ pc[t] = "fetch"
    /\ failures < MaxFailures
    /\ failures' = failures + 1
    /\ Goto(t, "failremove")
    /\ UNCHANGED <<bit, diskBit, raw, short, inFlight, waitFor, first, last, idx, result,
                   dropperVars, gcQueue>>

\* set_bit: one compare-and-swap on the bit's byte.
SetBit(t) ==
    /\ pc[t] = "setbit"
    /\ bit' = [bit EXCEPT ![idx[t]] = TRUE]
    /\ Goto(t, "remove")
    /\ UNCHANGED <<diskBit, raw, short, inFlight, waitFor, first, last, idx, result,
                   dropperVars, gcQueue, failures>>

\* Mutant: the error path returns without remove_inflight_io.
RemoveOnlyOnSuccess(t) ==
    /\ pc[t] \in {"remove", "failremove"}
    /\ inFlight' = IF pc[t] = "remove" THEN [inFlight EXCEPT ![idx[t]] = None] ELSE inFlight
    /\ Goto(t, IF pc[t] = "remove" THEN "done" ELSE "faildone")
    /\ UNCHANGED <<bit, diskBit, raw, short, waitFor, first, last, idx, result,
                   dropperVars, gcQueue, failures>>

\* remove_inflight_io, on the success path and on the error path.
RemoveInflight(t) ==
    /\ pc[t] \in {"remove", "failremove"}
    /\ inFlight' = [inFlight EXCEPT ![idx[t]] = None]
    /\ Goto(t, IF pc[t] = "remove" THEN "done" ELSE "faildone")
    /\ UNCHANGED <<bit, diskBit, raw, short, waitFor, first, last, idx, result,
                   dropperVars, gcQueue, failures>>

\* Mutant: done() reaches one waiter only (notify_one).
NotifyDoneOne(t) ==
    LET W == {w \in Readers : waitFor[w] = t} IN
    waitFor' = [w \in Readers |->
                  IF w \in W /\ w = (CHOOSE x \in W : TRUE) THEN None ELSE waitFor[w]]

\* InFlightIO::done: Done under the state's mutex, then notify_all.
NotifyDone(t) ==
    waitFor' = [w \in Readers |-> IF waitFor[w] = t THEN None ELSE waitFor[w]]

\* ProcessIOGuard is dropped at the end of the loop body.
Done(t) ==
    /\ pc[t] = "done"
    /\ NotifyDone(t)
    /\ NextChunk(t)
    /\ UNCHANGED <<bit, diskBit, raw, short, inFlight, first, last, result,
                   dropperVars, gcQueue, failures>>

\* ... or by the return of the error, which also leaves drop_lock.
FailDone(t) ==
    /\ pc[t] = "faildone"
    /\ NotifyDone(t)
    /\ result' = [result EXCEPT ![t] = "error"]
    /\ Goto(t, "idle")
    /\ UNCHANGED <<bit, diskBit, raw, short, inFlight, first, last, idx,
                   dropperVars, gcQueue, failures>>

(* What a copy of these chunks contains: the image, the image but for what  *)
(* the backend has cut short, or something else.                            *)
CopiedBytes(range) ==
    LET damaged == {c \in range : raw[c] # "image"} IN
    IF damaged = {} THEN "image" ELSE IF damaged \subseteq short THEN "short" ELSE "torn"

(* The mapped bytes are copied out and drop_lock is released.  The caller   *)
(* may have the chunks it read stored elsewhere and dropped here.           *)
Copy(t) ==
    LET range == first[t] .. last[t] IN
    /\ pc[t] = "copy"
    /\ result' = [result EXCEPT ![t] = CopiedBytes(range)]
    /\ \E S \in SUBSET range : gcQueue' = gcQueue \cup S
    /\ Goto(t, "idle")
    /\ UNCHANGED <<bit, diskBit, raw, short, inFlight, waitFor, first, last, idx,
                   dropperVars, failures>>
-----------------------------------------------------------------------------
(* Droppers: invalidate_chunk.                                              *)

BeginInvalidate(d) ==
    /\ dpc[d] = "idle"
    /\ \E c \in gcQueue :
         /\ dchunk' = [dchunk EXCEPT ![d] = c]
         /\ gcQueue' = gcQueue \ {c}
    /\ dpc' = [dpc EXCEPT ![d] = "lock"]
    /\ UNCHANGED <<bit, diskBit, raw, short, inFlight, readerVars, failures>>

\* drop_lock.write()
WriteLock(d) ==
    /\ dpc[d] = "lock"
    /\ ReadersIn = {}
    /\ WritersIn = {}
    /\ dpc' = [dpc EXCEPT ![d] = "locked"]
    /\ UNCHANGED <<bit, diskBit, raw, short, inFlight, readerVars, dchunk, gcQueue, failures>>

\* invalidate_chunk returns, with or without an error, and releases drop_lock.
Release(d) ==
    /\ dpc' = [dpc EXCEPT ![d] = "idle"]
    /\ dchunk' = [dchunk EXCEPT ![d] = 0]

\* A chunk that is not present is left alone; otherwise clear_bit.
ClearBit(d) ==
    /\ dpc[d] = "locked"
    /\ bit' = [bit EXCEPT ![dchunk[d]] = FALSE]
    /\ short' = short \ {dchunk[d]}
    /\ IF bit[dchunk[d]]
         THEN dpc' = [dpc EXCEPT ![d] = "sync"] /\ UNCHANGED dchunk
         ELSE Release(d)
    /\ UNCHANGED <<diskBit, raw, inFlight, readerVars, gcQueue, failures>>

\* Mutant: the bitmap is not flushed before the hole is punched.
NoSync(d) ==
    /\ dpc[d] = "sync"
    /\ dpc' = [dpc EXCEPT ![d] = "punch"]
    /\ UNCHANGED <<bit, diskBit, raw, short, inFlight, readerVars, dchunk, gcQueue, failures>>

\* bitmap.file.sync_data(): an error returns with the bit clear and no hole.
SyncBitmap(d) ==
    /\ dpc[d] = "sync"
    /\ \/ /\ diskBit' = bit
          /\ dpc' = [dpc EXCEPT ![d] = "punch"]
          /\ UNCHANGED dchunk
       \/ Release(d) /\ UNCHANGED diskBit
    /\ UNCHANGED <<bit, raw, short, inFlight, readerVars, gcQueue, failures>>

\* punch_hole, which may fail too; either way drop_lock is released.
PunchHole(d) ==
    /\ dpc[d] = "punch"
    /\ \/ raw' = [raw EXCEPT ![dchunk[d]] = "hole"]
       \/ UNCHANGED raw
    /\ Release(d)
    /\ UNCHANGED <<bit, diskBit, short, inFlight, readerVars, gcQueue, failures>>
-----------------------------------------------------------------------------
(* The kernel and the process.                                              *)

\* The kernel writes the bitmap's dirty page back whenever it likes.
Writeback ==
    /\ diskBit' = bit
    /\ UNCHANGED <<bit, raw, short, inFlight, readerVars, dropperVars, gcQueue, failures>>

(* The process dies and a new one opens the same files (Cache::new): the    *)
(* mapped pages survive, everything in memory is lost.                      *)
Restart ==
    /\ inFlight' = [c \in Chunks |-> None]
    /\ waitFor' = [t \in Readers |-> None]
    /\ pc' = [t \in Readers |-> "idle"]
    /\ result' = [t \in Readers |-> "none"]
    /\ dpc' = [d \in Droppers |-> "idle"]
    /\ dchunk' = [d \in Droppers |-> 0]
    /\ gcQueue' = {}
    /\ UNCHANGED <<bit, diskBit, raw, short, first, last, idx, failures>>
-----------------------------------------------------------------------------
ReaderStep(t) ==
    \/ ReadLock(t) \/ CheckBit(t) \/ Register(t) \/ Join(t) \/ Wake(t) \/ Timeout(t)
    \/ FetchSome(t) \/ FetchOk(t) \/ FetchShort(t) \/ FetchErr(t) \/ SetBit(t)
    \/ RemoveInflight(t) \/ Done(t) \/ FailDone(t) \/ Copy(t)

DropperStep(d) ==
    \/ BeginInvalidate(d) \/ WriteLock(d) \/ ClearBit(d) \/ SyncBitmap(d) \/ PunchHole(d)

Next ==
    \/ \E t \in Readers : \E off \in 0 .. NChunks, n \in 1 .. NChunks : BeginRead(t, off, n)
    \/ \E t \in Readers : ReaderStep(t)
    \/ \E d \in Droppers : DropperStep(d)
    \/ Writeback
    \/ Restart

Spec == Init /\ [][Next]_vars

(* Threads keep running and the backend answers; drop_lock is handed to     *)
(* every thread that keeps asking.  A waiter is not promised its timeout    *)
(* and not woken without a notification.                                    *)
ReaderFairness(t) ==
    /\ SF_vars(ReadLock(t))
    /\ WF_vars(CheckBit(t) \/ Register(t) \/ Join(t) \/ FetchOk(t) \/ FetchShort(t)
               \/ SetBit(t) \/ RemoveInflight(t) \/ Done(t) \/ FailDone(t) \/ Copy(t))
    /\ WF_vars(waitFor[t] = None /\ Wake(t))

DropperFairness(d) ==
    /\ SF_vars(WriteLock(d))
    /\ WF_vars(BeginInvalidate(d) \/ ClearBit(d) \/ SyncBitmap(d) \/ PunchHole(d))

FairSpec ==
    /\ Spec
    /\ \A t \in Readers : ReaderFairness(t)
    /\ \A d \in Droppers : DropperFairness(d)
-----------------------------------------------------------------------------
(* Properties.                                                              *)

(* A chunk whose bit is set holds the image's bytes, or what a fetch that   *)
(* reported success has left of them (cache.rs:419 ignores the count): no   *)
(* failed or unfinished fetch, punched hole or restart ever leaves a set    *)
(* bit over other bytes.  The fast path of fetch_data trusts the bit alone. *)
PresentMeansFetched == \A c \in Chunks : bit[c] => raw[c] = "image" \/ c \in short

(* A read that succeeds returned the image's bytes for its whole range, but *)
(* for chunks that the backend cut short with an Ok: no hole punched and no *)
(* chunk being written or left by a failure reached the caller, whatever    *)
(* invalidate_chunk, the other readers and a restart did meanwhile.         *)
ReadReturnsImage == \A t \in Readers : result[t] # "torn"

(* Two threads are never between registering and removing the same chunk:   *)
(* the in-flight table makes fetches of one chunk exclusive.                *)
OneFetcherPerChunk ==
    \A t, u \in Readers :
        t # u /\ pc[t] \in EntryPcs /\ pc[u] \in EntryPcs => idx[t] # idx[u]

(* Whoever waits for an unfinished InFlightIO waits for a live owner that   *)
(* is fetching that very chunk and has done() still ahead of it: no wakeup  *)
(* is lost and nobody waits for a thread that has gone.                     *)
WaiterHasOwner ==
    \A t \in Readers :
        pc[t] \in WaiterPcs /\ waitFor[t] # None
        => IoFetching(waitFor[t], idx[t])

(* invalidate_chunk punches a hole only where the bitmap on the disk says   *)
(* absent, and never under a reader: whenever the machine stops, a chunk    *)
(* the durable bitmap promises has not been punched away.                   *)
PunchIsSafe ==
    [][\A c \in Chunks :
         raw[c] = "image" /\ raw'[c] = "hole"
         => ~diskBit[c] /\ ReadersIn = {}]_vars

\* Every read_at returns, whether with data or with an error.
ReadsTerminate == \A t \in Readers : pc[t] # "idle" ~> pc[t] = "idle"

\* Every invalidate_chunk gets drop_lock and returns.
InvalidationsTerminate == \A d \in Droppers : dpc[d] # "idle" ~> dpc[d] = "idle"
-----------------------------------------------------------------------------
(* The inductive invariant behind the properties, in named parts.           *)

\* drop_lock: readers or one writer.
LockInv ==
    /\ \A t \in Readers, d \in Droppers : ~(pc[t] \in InsidePcs /\ dpc[d] \in WriterPcs)
    /\ \A d, e \in Droppers : dpc[d] \in WriterPcs /\ dpc[e] \in WriterPcs => d = e

\* The loop of fetch_data stays in the range it was given.
RangeInv ==
    \A t \in Readers :
        /\ pc[t] # "idle" => first[t] <= idx[t] /\ idx[t] <= last[t]
        /\ pc[t] = "lock" => idx[t] = first[t]

\* What a reader has behind it: the chunks its loop has passed are present.
PassedInv ==
    \A t \in Readers :
        /\ pc[t] \in InsidePcs => \A c \in first[t] .. (idx[t] - 1) : bit[c]
        /\ pc[t] \in {"remove", "done", "copy"} => bit[idx[t]]
        /\ pc[t] = "copy" => idx[t] = last[t]
        /\ pc[t] = "setbit" => raw[idx[t]] = "image" \/ idx[t] \in short

\* The table holds exactly the chunks being fetched, under their fetcher.
EntryInv ==
    /\ \A t \in Readers : pc[t] \in EntryPcs => inFlight[idx[t]] = t
    /\ \A c \in Chunks : inFlight[c] # None
         => pc[inFlight[c]] \in EntryPcs /\ idx[inFlight[c]] = c

\* A reference to an unfinished InFlightIO is held only by a waiter.
WaitInv ==
    \A t \in Readers :
        waitFor[t] # None => pc[t] \in WaiterPcs /\ IoFetching(waitFor[t], idx[t])

\* What invalidate_chunk has done so far.
DropInv ==
    \A d \in Droppers :
        /\ dpc[d] \in {"sync", "punch"} => ~bit[dchunk[d]]
        /\ dpc[d] = "punch" => ~diskBit[dchunk[d]]

\* A chunk that is still counted as short is not complete.
ShortInv == \A c \in short : raw[c] # "image"

IInv ==
    /\ TypeOK
    /\ PresentMeansFetched
    /\ ReadReturnsImage
    /\ LockInv
    /\ RangeInv
    /\ PassedInv
    /\ EntryInv
    /\ WaitInv
    /\ DropInv
    /\ ShortInv
-----------------------------------------------------------------------------
(* The cache implements the read-through store of ReadThrough: no waiting,  *)
(* redundant fetching or dropping is visible to a caller of read_at.        *)
Abstract == INSTANCE ReadThrough WITH
    present <- {c \in Chunks : bit[c]},
    short <- {c \in short : bit[c]},
    active <- [t \in Readers |-> IF pc[t] \in InsidePcs THEN first[t] .. last[t] ELSE {}],
    result <- result

(* Every behaviour of the cache is one of ReadThrough under the mapping      *)
(* above: read_at succeeds only with every chunk of its range present and    *)
(* hands out the image but for the chunks that were filled short; present    *)
(* bytes only get complete; invalidate_chunk takes effect between reads.     *)
ImplementsReadThrough == Abstract!Spec
=============================================================================
