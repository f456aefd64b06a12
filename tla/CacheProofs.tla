---------------------------- MODULE CacheProofs ----------------------------
(***************************************************************************)
(* Proofs about Cache, for any number of readers, droppers and chunks:     *)
(* the inductive invariant IInv, the safety properties it implies, and     *)
(* that the cache implements ReadThrough.                                  *)
(*                                                                         *)
(* There is one lemma per action: the action preserves IInv.  In the       *)
(* longer ones the first step spells out what the action does to each      *)
(* variable, and the following ones treat the parts of IInv in turn.       *)
(***************************************************************************)
EXTENDS Cache, TLAPS

USE CacheAssumption
USE DEF ReaderPcs, InsidePcs, OwnerPcs, EntryPcs, WaiterPcs, WriterPcs, DropperPcs,
        Contents, Results, ShortInv

(* Initially the cache is empty and nobody is inside it. *)
LEMMA InitIInv == Init => IInv
  BY DEF Init, IInv, TypeOK, PresentMeansFetched, ReadReturnsImage, LockInv, RangeInv,
         PassedInv, EntryInv, WaitInv, DropInv, Chunks
-----------------------------------------------------------------------------
(* Readers. *)

(* A call of read_at only records a range inside the image. *)
LEMMA BeginReadStep ==
    ASSUME IInv, NEW t \in Readers, NEW off \in 0 .. NChunks, NEW n \in 1 .. NChunks,
           BeginRead(t, off, n)
    PROVE  IInv'
<1> USE DEF IInv
<1>1. CASE off >= NChunks
  <2>1. /\ pc[t] = "idle"
        /\ result' = [result EXCEPT ![t] = "error"]
        /\ UNCHANGED <<bit, diskBit, raw, short, inFlight, waitFor, pc, first, last, idx, dpc, dchunk,
                       gcQueue, failures>>
    BY <1>1 DEF BeginRead, dropperVars
  <2>2. TypeOK' /\ ReadReturnsImage'
    BY <2>1 DEF TypeOK, ReadReturnsImage
  <2> QED
    BY <2>1, <2>2 DEF PresentMeansFetched, LockInv, RangeInv, PassedInv, EntryInv, WaitInv,
                      DropInv, IoFetching
<1>2. CASE off < NChunks
  <2> DEFINE end == FixRange(off, n)
  <2>1. /\ pc[t] = "idle"
        /\ first' = [first EXCEPT ![t] = off]
        /\ last' = [last EXCEPT ![t] = end]
        /\ idx' = [idx EXCEPT ![t] = off]
        /\ result' = [result EXCEPT ![t] = "none"]
        /\ pc' = [pc EXCEPT ![t] = "lock"]
        /\ UNCHANGED <<bit, diskBit, raw, short, inFlight, waitFor, dpc, dchunk, gcQueue, failures>>
    BY <1>2 DEF BeginRead, Goto, dropperVars
  <2>2. off \in Chunks /\ end \in Chunks /\ off <= end
    BY <1>2 DEF FixRange, Chunks
  <2> HIDE DEF end
  <2>3. TypeOK' /\ ReadReturnsImage' /\ PresentMeansFetched' /\ LockInv' /\ DropInv' /\ ShortInv'
    BY <2>1, <2>2 DEF TypeOK, ReadReturnsImage, PresentMeansFetched, LockInv, DropInv
  <2>4. RangeInv'
    BY <2>1, <2>2 DEF RangeInv, TypeOK, Chunks
  <2>5. PassedInv'
    BY <2>1 DEF PassedInv, TypeOK
  <2>6. EntryInv' /\ WaitInv'
    BY <2>1 DEF EntryInv, WaitInv, IoFetching, TypeOK
  <2> QED BY <2>3, <2>4, <2>5, <2>6
<1> QED BY <1>1, <1>2 DEF Chunks

(* Taking drop_lock for reading keeps writers out. *)
LEMMA ReadLockStep ==
    ASSUME IInv, NEW t \in Readers, ReadLock(t)
    PROVE  IInv'
<1> USE DEF IInv
<1>1. /\ pc[t] = "lock"
      /\ WritersIn = {}
      /\ pc' = [pc EXCEPT ![t] = "check"]
      /\ UNCHANGED <<bit, diskBit, raw, short, inFlight, waitFor, first, last, idx, result, dpc, dchunk,
                     gcQueue, failures>>
  BY DEF ReadLock, Goto, dropperVars
<1>2. TypeOK' /\ PresentMeansFetched' /\ ReadReturnsImage' /\ RangeInv' /\ DropInv' /\ ShortInv'
  BY <1>1 DEF TypeOK, PresentMeansFetched, ReadReturnsImage, RangeInv, DropInv
<1>3. LockInv'
  BY <1>1 DEF LockInv, WritersIn, TypeOK
<1>4. PassedInv'
  BY <1>1 DEF PassedInv, RangeInv, TypeOK, Chunks
<1>5. EntryInv' /\ WaitInv'
  BY <1>1 DEF EntryInv, WaitInv, IoFetching, TypeOK
<1> QED BY <1>2, <1>3, <1>4, <1>5

(* Passing a chunk whose bit is set extends what the reader has behind it. *)
LEMMA NextChunkStep ==
    ASSUME IInv, NEW t \in Readers, NextChunk(t), bit[idx[t]],
           pc[t] \in {"check", "done"}, NotifyDone(t),
           UNCHANGED <<bit, diskBit, raw, short, inFlight, first, last, result, dpc, dchunk,
                       gcQueue, failures>>
    PROVE  IInv'
<1> USE DEF IInv
<1> DEFINE next == IF idx[t] = last[t] THEN idx[t] ELSE idx[t] + 1
           label == IF idx[t] = last[t] THEN "copy" ELSE "check"
<1>1. /\ idx' = [idx EXCEPT ![t] = next]
      /\ pc' = [pc EXCEPT ![t] = label]
  BY DEF NextChunk, Goto, TypeOK
<1>2. next \in Chunks /\ next <= last[t] /\ first[t] <= next
  BY DEF RangeInv, TypeOK, Chunks
<1>3. label \in {"copy", "check"}
  OBVIOUS
<1>4. label = "copy" => next = last[t] /\ bit[next]
  OBVIOUS
<1>5. \A c \in first[t] .. (next - 1) : bit[c]
  BY DEF PassedInv, RangeInv, TypeOK, Chunks
<1>6. waitFor' \in [Readers -> Readers \cup {None}]
  BY DEF NotifyDone, TypeOK
<1> HIDE DEF next, label
<1>7. TypeOK'
  BY <1>1, <1>2, <1>3, <1>6 DEF TypeOK
<1>8. PresentMeansFetched' /\ ReadReturnsImage' /\ DropInv' /\ ShortInv' /\ LockInv'
  BY <1>1, <1>3 DEF PresentMeansFetched, ReadReturnsImage, DropInv, LockInv, TypeOK
<1>9. RangeInv'
  BY <1>1, <1>2, <1>3 DEF RangeInv, TypeOK
<1>10. PassedInv'
  BY <1>1, <1>3, <1>4, <1>5 DEF PassedInv, TypeOK
<1>11. EntryInv'
  BY <1>1, <1>3 DEF EntryInv, TypeOK
<1>12. WaitInv'
  <2> SUFFICES ASSUME NEW w \in Readers, waitFor'[w] # None
               PROVE  pc'[w] \in WaiterPcs /\ IoFetching(waitFor[w], idx[w])'
    BY DEF WaitInv, IoFetching
  <2>1. waitFor'[w] = waitFor[w] /\ waitFor[w] # t /\ waitFor[w] \in Readers
    BY DEF NotifyDone, TypeOK
  <2>2. pc[w] \in WaiterPcs /\ IoFetching(waitFor[w], idx[w]) /\ w # t
    BY <2>1 DEF WaitInv
  <2> QED BY <1>1, <2>1, <2>2 DEF IoFetching, TypeOK
<1> QED BY <1>7, <1>8, <1>9, <1>10, <1>11, <1>12

(* Loading the bit: a set bit passes the chunk, a clear one is remembered. *)
LEMMA CheckBitStep ==
    ASSUME IInv, NEW t \in Readers, CheckBit(t)
    PROVE  IInv'
<1> USE DEF IInv
<1>1. CASE bit[idx[t]]
  <2>1. waitFor' = waitFor /\ pc[t] = "check"
    BY DEF CheckBit
  <2>2. \A w \in Readers : waitFor[w] # t
    BY <2>1 DEF WaitInv, IoFetching, TypeOK
  <2>3. NotifyDone(t)
    BY <2>1, <2>2 DEF NotifyDone, TypeOK
  <2> QED BY <1>1, <2>1, <2>3, NextChunkStep DEF CheckBit, dropperVars
<1>2. CASE ~bit[idx[t]]
  <2>1. /\ pc[t] = "check"
        /\ pc' = [pc EXCEPT ![t] = "register"]
        /\ UNCHANGED <<bit, diskBit, raw, short, inFlight, waitFor, first, last, idx, result, dpc,
                       dchunk, gcQueue, failures>>
    BY <1>2 DEF CheckBit, Goto, dropperVars
  <2>2. TypeOK' /\ PresentMeansFetched' /\ ReadReturnsImage' /\ RangeInv' /\ DropInv' /\ ShortInv' /\ LockInv'
    BY <2>1 DEF TypeOK, PresentMeansFetched, ReadReturnsImage, RangeInv, DropInv, LockInv
  <2>3. PassedInv' /\ EntryInv' /\ WaitInv'
    BY <2>1 DEF PassedInv, EntryInv, WaitInv, IoFetching, TypeOK
  <2> QED BY <2>2, <2>3
<1> QED BY <1>1, <1>2

(* Registering either makes the reader the one owner of the chunk or makes *)
(* it hold a reference to the owner's unfinished InFlightIO.               *)
LEMMA RegisterStep ==
    ASSUME IInv, NEW t \in Readers, Register(t)
    PROVE  IInv'
<1> USE DEF IInv
<1> DEFINE c == idx[t]
<1>0. c \in Chunks /\ pc[t] = "register" /\ waitFor[t] = None
  BY DEF Register, TypeOK, WaitInv
<1>1. CASE inFlight[c] = None
  <2>1. /\ inFlight' = [inFlight EXCEPT ![c] = t]
        /\ pc' = [pc EXCEPT ![t] = "fetch"]
        /\ UNCHANGED <<bit, diskBit, raw, short, waitFor, first, last, idx, result, dpc,
                       dchunk, gcQueue, failures>>
    BY <1>1 DEF Register, Goto, dropperVars
  <2>2. TypeOK' /\ PresentMeansFetched' /\ ReadReturnsImage' /\ RangeInv' /\ DropInv' /\ ShortInv' /\ LockInv'
    BY <1>0, <2>1 DEF TypeOK, PresentMeansFetched, ReadReturnsImage, RangeInv, DropInv, LockInv
  <2>3. PassedInv' /\ WaitInv'
    BY <1>0, <2>1 DEF PassedInv, WaitInv, IoFetching, TypeOK
  <2>4. EntryInv'
    BY <1>0, <1>1, <2>1 DEF EntryInv, TypeOK
  <2> QED BY <2>2, <2>3, <2>4
<1>2. CASE inFlight[c] # None
  <2> DEFINE o == inFlight[c]
  <2>1. o \in Readers /\ IoFetching(o, c) /\ o # t
    BY <1>0, <1>2 DEF EntryInv, IoFetching, TypeOK
  <2>2. /\ waitFor' = [waitFor EXCEPT ![t] = o]
        /\ pc' = [pc EXCEPT ![t] = "join"]
        /\ UNCHANGED <<bit, diskBit, raw, short, inFlight, first, last, idx, result, dpc,
                       dchunk, gcQueue, failures>>
    BY <1>2, <2>1 DEF Register, Goto, dropperVars
  <2>3. TypeOK' /\ PresentMeansFetched' /\ ReadReturnsImage' /\ RangeInv' /\ DropInv' /\ ShortInv' /\ LockInv'
    BY <1>0, <2>1, <2>2 DEF TypeOK, PresentMeansFetched, ReadReturnsImage, RangeInv, DropInv, LockInv
  <2>4. PassedInv' /\ EntryInv'
    BY <1>0, <2>2 DEF PassedInv, EntryInv, TypeOK
  <2>5. WaitInv'
    BY <1>0, <2>1, <2>2 DEF WaitInv, IoFetching, TypeOK
  <2> QED BY <2>3, <2>4, <2>5
<1> QED BY <1>1, <1>2

(* Waiting and leaving the wait change nothing but the waiter. *)
LEMMA WaiterSteps ==
    ASSUME IInv, NEW t \in Readers, Join(t) \/ Wake(t) \/ Timeout(t)
    PROVE  IInv'
<1> USE DEF IInv, TypeOK, PresentMeansFetched, ReadReturnsImage, LockInv, RangeInv, PassedInv,
            EntryInv, WaitInv, DropInv, IoFetching, Goto, dropperVars
<1>1. CASE Join(t) BY <1>1 DEF Join
<1>2. CASE Wake(t) BY <1>2 DEF Wake
<1>3. CASE Timeout(t) BY <1>3 DEF Timeout
<1> QED BY <1>1, <1>2, <1>3

(* The owner's steps up to set_bit: EntryInv makes it the only one at its  *)
(* chunk, LockInv keeps the droppers out.                                  *)
LEMMA OwnerSteps ==
    ASSUME IInv, NEW t \in Readers,
           FetchSome(t) \/ FetchOk(t) \/ FetchShort(t) \/ FetchErr(t) \/ SetBit(t)
             \/ RemoveInflight(t)
    PROVE  IInv'
<1> USE DEF IInv, TypeOK, PresentMeansFetched, ReadReturnsImage, LockInv, RangeInv, PassedInv,
            EntryInv, WaitInv, DropInv, IoFetching, Goto, readerVars, dropperVars
<1>1. CASE FetchSome(t) BY <1>1 DEF FetchSome
<1>2. CASE FetchOk(t) BY <1>2 DEF FetchOk
<1>3. CASE FetchErr(t) BY <1>3 DEF FetchErr
<1>4. CASE SetBit(t) BY <1>4 DEF SetBit
<1>5. CASE RemoveInflight(t) BY <1>5 DEF RemoveInflight
<1>6. CASE FetchShort(t) BY <1>6 DEF FetchShort
<1> QED BY <1>1, <1>2, <1>3, <1>4, <1>5, <1>6

(* done() ends every reference to the InFlightIO, and its owner goes on to *)
(* the next chunk or returns the error.                                    *)
LEMMA DoneSteps ==
    ASSUME IInv, NEW t \in Readers, Done(t) \/ FailDone(t)
    PROVE  IInv'
<1> USE DEF IInv
<1>1. CASE Done(t)
  <2>1. bit[idx[t]]
    BY <1>1 DEF Done, PassedInv
  <2> QED BY <1>1, <2>1, NextChunkStep DEF Done, dropperVars
<1>2. CASE FailDone(t)
  BY <1>2 DEF FailDone, NotifyDone, TypeOK, PresentMeansFetched, ReadReturnsImage, LockInv,
              RangeInv, PassedInv, EntryInv, WaitInv, DropInv, IoFetching, Goto, dropperVars
<1> QED BY <1>1, <1>2

(* The copy finds every chunk of the range present, so fetched, in full or *)
(* short.                                                                  *)
LEMMA CopyStep ==
    ASSUME IInv, NEW t \in Readers, Copy(t)
    PROVE  IInv'
<1> USE DEF IInv
<1>1. /\ pc[t] = "copy"
      /\ pc' = [pc EXCEPT ![t] = "idle"]
      /\ UNCHANGED <<bit, diskBit, raw, short, inFlight, waitFor, first, last, idx, dpc, dchunk, failures>>
  BY DEF Copy, Goto, dropperVars
<1>2. \A c \in first[t] .. last[t] : c \in Chunks /\ (raw[c] = "image" \/ c \in short)
  BY <1>1 DEF PassedInv, RangeInv, PresentMeansFetched, TypeOK, Chunks
<1>3. \E b \in {"image", "short"} : result' = [result EXCEPT ![t] = b]
  <2>1. CopiedBytes(first[t] .. last[t]) \in {"image", "short"}
    BY <1>2 DEF CopiedBytes
  <2> QED BY <2>1 DEF Copy
<1>4. gcQueue' \in SUBSET Chunks
  BY <1>2 DEF Copy, TypeOK
<1>5. TypeOK' /\ PresentMeansFetched' /\ ReadReturnsImage' /\ RangeInv' /\ DropInv' /\ ShortInv' /\ LockInv'
  BY <1>1, <1>3, <1>4 DEF TypeOK, PresentMeansFetched, ReadReturnsImage, RangeInv, DropInv, LockInv
<1>6. PassedInv' /\ EntryInv' /\ WaitInv'
  BY <1>1 DEF PassedInv, EntryInv, WaitInv, IoFetching, TypeOK
<1> QED BY <1>5, <1>6
-----------------------------------------------------------------------------
(* Droppers, the kernel and the process. *)

(* Dropping a chunk: no reader is inside, so no bit is being relied upon. *)
LEMMA DropperSteps ==
    ASSUME IInv, NEW d \in Droppers, DropperStep(d)
    PROVE  IInv'
<1> USE DEF IInv, TypeOK, PresentMeansFetched, ReadReturnsImage, LockInv, RangeInv, PassedInv,
            EntryInv, WaitInv, DropInv, IoFetching, readerVars
<1>1. CASE BeginInvalidate(d) BY <1>1 DEF BeginInvalidate
<1>2. CASE WriteLock(d) BY <1>2 DEF WriteLock, ReadersIn, WritersIn
<1>3. CASE ClearBit(d)
  <2>1. CASE bit[dchunk[d]]
    BY <1>3, <2>1 DEF ClearBit
  <2>2. CASE ~bit[dchunk[d]]
    <3>1. /\ dpc[d] = "locked"
          /\ bit' = bit
          /\ short' = short \ {dchunk[d]}
          /\ dpc' = [dpc EXCEPT ![d] = "idle"]
          /\ dchunk' = [dchunk EXCEPT ![d] = 0]
          /\ UNCHANGED <<diskBit, raw, inFlight, pc, first, last, idx, result, waitFor, gcQueue,
                         failures>>
      BY <1>3, <2>2 DEF ClearBit, Release
    <3>2. \A t \in Readers : pc[t] \notin InsidePcs
      BY <3>1
    <3>3. TypeOK'
      <4>1. 0 \in Chunks
        BY DEF Chunks
      <4> QED BY <3>1, <4>1
    <3>5. PresentMeansFetched' /\ ReadReturnsImage' /\ LockInv' /\ ShortInv'
      BY <2>2, <3>1
    <3>4. RangeInv' /\ PassedInv' /\ EntryInv' /\ WaitInv' /\ DropInv'
      BY <3>1, <3>2
    <3> QED BY <3>3, <3>4, <3>5
  <2> QED BY <2>1, <2>2
<1>4. CASE SyncBitmap(d)
  <2>1. CASE diskBit' = bit /\ dpc' = [dpc EXCEPT ![d] = "punch"] /\ dchunk' = dchunk
    BY <1>4, <2>1 DEF SyncBitmap
  <2>2. CASE Release(d) /\ UNCHANGED diskBit
    BY <1>4, <2>2 DEF SyncBitmap, Release, Chunks
  <2> QED BY <1>4, <2>1, <2>2 DEF SyncBitmap
<1>5. CASE PunchHole(d)
  <2>1. CASE raw' = [raw EXCEPT ![dchunk[d]] = "hole"]
    BY <1>5, <2>1 DEF PunchHole, Release, Chunks
  <2>2. CASE UNCHANGED raw
    BY <1>5, <2>2 DEF PunchHole, Release, Chunks
  <2> QED BY <1>5, <2>1, <2>2 DEF PunchHole
<1> QED BY <1>1, <1>2, <1>3, <1>4, <1>5 DEF DropperStep

(* Writeback copies the bitmap, a restart keeps the files and empties the  *)
(* memory.                                                                 *)
LEMMA SystemSteps ==
    ASSUME IInv, Writeback \/ Restart
    PROVE  IInv'
<1> USE DEF IInv, TypeOK, PresentMeansFetched, ReadReturnsImage, LockInv, RangeInv, PassedInv,
            EntryInv, WaitInv, DropInv, IoFetching, readerVars, dropperVars
<1>1. CASE Writeback BY <1>1 DEF Writeback
<1>2. CASE Restart BY <1>2 DEF Restart, Chunks
<1> QED BY <1>1, <1>2

(* Every step of the cache preserves the invariant. *)
LEMMA NextIInv == IInv /\ [Next]_vars => IInv'
<1> SUFFICES ASSUME IInv, [Next]_vars PROVE IInv'
  OBVIOUS
<1>1. CASE \E t \in Readers : \E off \in 0 .. NChunks, n \in 1 .. NChunks : BeginRead(t, off, n)
  BY <1>1, BeginReadStep
<1>2. CASE \E t \in Readers : ReaderStep(t)
  BY <1>2, ReadLockStep, CheckBitStep, RegisterStep, WaiterSteps, OwnerSteps, DoneSteps, CopyStep
     DEF ReaderStep
<1>3. CASE \E d \in Droppers : DropperStep(d)
  BY <1>3, DropperSteps
<1>4. CASE Writeback \/ Restart
  BY <1>4, SystemSteps
<1>5. CASE UNCHANGED vars
  BY <1>5 DEF vars, readerVars, dropperVars, IInv, TypeOK, PresentMeansFetched, ReadReturnsImage,
              LockInv, RangeInv, PassedInv, EntryInv, WaitInv, DropInv, IoFetching
<1> QED BY <1>1, <1>2, <1>3, <1>4, <1>5 DEF Next
-----------------------------------------------------------------------------
(* The theorems. *)

(* The inductive invariant holds in every state the cache reaches. *)
THEOREM Invariance == Spec => []IInv
  BY InitIInv, NextIInv, PTL DEF Spec

(* Type correctness: among other things the loop of fetch_data never       *)
(* leaves the image.                                                       *)
THEOREM TypeCorrect == Spec => []TypeOK
<1>1. IInv => TypeOK BY DEF IInv
<1> QED BY <1>1, Invariance, PTL

(* A set bit means bytes that a fetch reported as fetched, the image's or  *)
(* what a short Ok left of them: fetch_data's fast path adds no error of   *)
(* its own, for any number of readers, droppers, failures and restarts.    *)
THEOREM BitsAreSound == Spec => []PresentMeansFetched
<1>1. IInv => PresentMeansFetched BY DEF IInv
<1> QED BY <1>1, Invariance, PTL

(* read_at never returns a punched hole or a half-written chunk, except    *)
(* for what the backend itself cut short with an Ok.                       *)
THEOREM ReadsAreSound == Spec => []ReadReturnsImage
<1>1. IInv => ReadReturnsImage BY DEF IInv
<1> QED BY <1>1, Invariance, PTL

(* The in-flight table gives each chunk at most one fetcher at a time. *)
THEOREM FetchesAreExclusive == Spec => []OneFetcherPerChunk
<1>1. IInv => OneFetcherPerChunk BY DEF IInv, EntryInv, OneFetcherPerChunk
<1> QED BY <1>1, Invariance, PTL

(* A waiter's owner is alive and still has done() ahead of it. *)
THEOREM NoLostWakeup == Spec => []WaiterHasOwner
<1>1. IInv => WaiterHasOwner BY DEF IInv, WaitInv, WaiterHasOwner
<1> QED BY <1>1, Invariance, PTL

(* invalidate_chunk punches only what the durable bitmap calls absent, and *)
(* only with no reader inside.                                             *)
THEOREM PunchesAreSafe == Spec => PunchIsSafe
<1> DEFINE Safe == \A c \in Chunks :
                     raw[c] = "image" /\ raw'[c] = "hole" => ~diskBit[c] /\ ReadersIn = {}
<1>1. IInv /\ [Next]_vars => [Safe]_vars
  <2> SUFFICES ASSUME IInv, Next, NEW c \in Chunks, raw[c] = "image", raw'[c] = "hole"
               PROVE  ~diskBit[c] /\ ReadersIn = {}
    OBVIOUS
  <2> USE DEF IInv
  <2>1. CASE \E t \in Readers : \E off \in 0 .. NChunks, n \in 1 .. NChunks : BeginRead(t, off, n)
    BY <2>1 DEF BeginRead
  <2>2. CASE \E t \in Readers : ReaderStep(t)
    BY <2>2 DEF ReaderStep, ReadLock, CheckBit, Register, Join, Wake, Timeout, FetchSome, FetchOk,
                FetchShort, FetchErr, SetBit, RemoveInflight, Done, FailDone, Copy, TypeOK
  <2>3. ASSUME NEW d \in Droppers, DropperStep(d)
        PROVE  ~diskBit[c] /\ ReadersIn = {}
    <3>1. PunchHole(d) /\ c = dchunk[d]
      BY <2>3 DEF DropperStep, BeginInvalidate, WriteLock, ClearBit, SyncBitmap, PunchHole, TypeOK
    <3> QED BY <3>1 DEF PunchHole, DropInv, LockInv, ReadersIn
  <2>4. CASE Writeback \/ Restart
    BY <2>4 DEF Writeback, Restart
  <2> QED BY <2>1, <2>2, <2>3, <2>4 DEF Next
<1> QED BY <1>1, Invariance, PTL DEF Spec, PunchIsSafe
-----------------------------------------------------------------------------
(* Refinement. *)

(* A reader inside the cache covers a non-empty set of chunks of the image. *)
LEMMA RangeOfReader ==
    ASSUME IInv, NEW t \in Readers, pc[t] # "idle"
    PROVE  /\ first[t] .. last[t] \in SUBSET Chunks
           /\ idx[t] \in first[t] .. last[t]
           /\ first[t] .. last[t] # {}
  BY DEF IInv, RangeInv, TypeOK, Chunks

(* Every step of the cache is a step of ReadThrough or leaves what it      *)
(* shows unchanged.                                                        *)
LEMMA StepRefines == IInv /\ IInv' /\ [Next]_vars => [Abstract!Next]_Abstract!vars
<1> SUFFICES ASSUME IInv, IInv', [Next]_vars PROVE [Abstract!Next]_Abstract!vars
  OBVIOUS
<1> DEFINE Shown == <<bit, first, last, result>>
           act == [t \in Readers |-> IF pc[t] \in InsidePcs THEN first[t] .. last[t] ELSE {}]
           pres == {c \in Chunks : bit[c]}
           sh == {c \in short : bit[c]}
<1> USE DEF Abstract!vars, Abstract!Next
<1>1. ASSUME NEW t \in Readers, NEW off \in 0 .. NChunks, NEW n \in 1 .. NChunks,
             BeginRead(t, off, n)
      PROVE  Abstract!Reset(t)
  <2>1. act' = act /\ pres' = pres /\ sh' = sh /\ act[t] = {}
    BY <1>1 DEF BeginRead, Goto, IInv, TypeOK
  <2>2. \E r \in {"none", "error"} : result' = [result EXCEPT ![t] = r]
    BY <1>1 DEF BeginRead
  <2> QED BY <2>1, <2>2 DEF Abstract!Reset
<1>2. ASSUME NEW t \in Readers, ReadLock(t)
      PROVE  Abstract!Begin(t)
  <2>1. pres' = pres /\ sh' = sh /\ result' = result /\ act[t] = {}
    BY <1>2 DEF ReadLock
  <2>2. act' = [act EXCEPT ![t] = first[t] .. last[t]]
    BY <1>2 DEF ReadLock, Goto, IInv, TypeOK
  <2>3. first[t] .. last[t] \in SUBSET Chunks /\ first[t] .. last[t] # {}
    BY <1>2, RangeOfReader DEF ReadLock
  <2> QED BY <2>1, <2>2, <2>3 DEF Abstract!Begin
<1>3. ASSUME NEW t \in Readers, SetBit(t) \/ FetchOk(t)
      PROVE  Abstract!Fill(t) \/ UNCHANGED Abstract!vars
  <2>0. pc[t] \in {"setbit", "fetch"} /\ idx[t] \in Chunks /\ short \in SUBSET Chunks
    BY <1>3 DEF SetBit, FetchOk, IInv, TypeOK
  <2>1. act' = act /\ result' = result /\ act[t] = first[t] .. last[t]
    BY <1>3 DEF SetBit, FetchOk, Goto, IInv, TypeOK
  <2>2. idx[t] \in act[t]
    BY <2>0, <2>1, RangeOfReader
  <2>3. CASE bit[idx[t]]
    <3>1. pres' = pres \cup {idx[t]} /\ pres' = pres
      BY <1>3, <2>0, <2>3 DEF SetBit, FetchOk, IInv, TypeOK
    <3>2. sh' = sh \/ sh' = sh \ {idx[t]}
      BY <1>3, <2>0, <2>3 DEF SetBit, FetchOk, IInv, TypeOK
    <3> QED BY <2>1, <2>2, <3>1, <3>2 DEF Abstract!Fill
  <2>4. CASE ~bit[idx[t]] /\ SetBit(t)
    <3>1. pres' = pres \cup {idx[t]} /\ idx[t] \notin pres
      BY <2>0, <2>4 DEF SetBit, IInv, TypeOK
    <3>2. short' = short /\ \A c \in Chunks : bit'[c] <=> (bit[c] \/ c = idx[t])
      BY <2>4 DEF SetBit, IInv, TypeOK
    <3>3. sh' = IF idx[t] \in short THEN sh \cup {idx[t]} ELSE sh \ {idx[t]}
      BY <2>0, <2>4, <3>2
    <3> QED BY <2>1, <2>2, <3>1, <3>3 DEF Abstract!Fill
  <2>5. CASE ~bit[idx[t]] /\ FetchOk(t)
    <3>1. bit' = bit /\ short' = short \ {idx[t]}
      BY <2>5 DEF FetchOk
    <3>2. sh' = sh /\ pres' = pres
      BY <2>5, <3>1
    <3> QED BY <2>1, <3>2
  <2> QED BY <1>3, <2>3, <2>4, <2>5
<1>4. ASSUME NEW t \in Readers, Timeout(t) \/ FailDone(t)
      PROVE  Abstract!Fail(t)
  <2>1. /\ pres' = pres /\ sh' = sh
        /\ act[t] = first[t] .. last[t]
        /\ act' = [act EXCEPT ![t] = {}]
    <3>1. /\ pc[t] \in InsidePcs
          /\ pc' = [pc EXCEPT ![t] = "idle"]
          /\ UNCHANGED <<bit, short, first, last>>
      BY <1>4 DEF Timeout, FailDone, Goto
    <3>2. \A u \in Readers : pc'[u] = IF u = t THEN "idle" ELSE pc[u]
      BY <3>1 DEF IInv, TypeOK
    <3>3. act' = [u \in Readers |-> IF u = t THEN {} ELSE act[u]]
      BY <3>1, <3>2
    <3> QED BY <3>1, <3>3
  <2>2. act[t] # {}
    BY <1>4, <2>1, RangeOfReader DEF Timeout, FailDone
  <2>3. result' = [result EXCEPT ![t] = "error"]
    BY <1>4 DEF Timeout, FailDone
  <2> QED BY <2>1, <2>2, <2>3 DEF Abstract!Fail
<1>5. ASSUME NEW t \in Readers, Copy(t)
      PROVE  Abstract!Succeed(t)
  <2>1. /\ pres' = pres /\ sh' = sh
        /\ act[t] = first[t] .. last[t]
        /\ act' = [act EXCEPT ![t] = {}]
    <3>1. /\ pc[t] \in InsidePcs
          /\ pc' = [pc EXCEPT ![t] = "idle"]
          /\ UNCHANGED <<bit, short, first, last>>
      BY <1>5 DEF Copy, Goto
    <3>2. \A u \in Readers : pc'[u] = IF u = t THEN "idle" ELSE pc[u]
      BY <3>1 DEF IInv, TypeOK
    <3>3. act' = [u \in Readers |-> IF u = t THEN {} ELSE act[u]]
      BY <3>1, <3>2
    <3> QED BY <3>1, <3>3
  <2>2. act[t] # {} /\ act[t] \subseteq Chunks
    BY <1>5, <2>1, RangeOfReader DEF Copy
  <2>3. \A c \in act[t] : bit[c]
    BY <1>5, <2>1 DEF Copy, IInv, PassedInv, RangeInv, TypeOK, Chunks
  <2>4. result' = [result EXCEPT ![t] = IF act[t] \cap sh = {} THEN "image" ELSE "short"]
    <3>1. \A c \in act[t] : raw[c] = "image" <=> c \notin sh
      BY <2>2, <2>3 DEF IInv, PresentMeansFetched
    <3>2. CopiedBytes(act[t]) = IF act[t] \cap sh = {} THEN "image" ELSE "short"
      <4>1. CASE act[t] \cap sh = {}
        <5>1. \A c \in act[t] : raw[c] = "image"
          BY <3>1, <4>1
        <5> QED BY <4>1, <5>1 DEF CopiedBytes
      <4>2. CASE act[t] \cap sh # {}
        <5>1. ~ \A c \in act[t] : raw[c] = "image"
          BY <3>1, <4>2
        <5>2. \A c \in act[t] : raw[c] # "image" => c \in short
          BY <3>1
        <5> QED BY <4>2, <5>1, <5>2 DEF CopiedBytes
      <4> QED BY <4>1, <4>2
    <3> QED BY <1>5, <2>1, <3>2 DEF Copy
  <2> QED BY <2>1, <2>2, <2>3, <2>4 DEF Abstract!Succeed
<1>6. ASSUME NEW d \in Droppers, ClearBit(d)
      PROVE  \E c \in Chunks : Abstract!Evict(c)
  <2>1. act' = act /\ result' = result /\ dchunk[d] \in Chunks
    BY <1>6 DEF ClearBit, readerVars, IInv, TypeOK
  <2>2. pres' = pres \ {dchunk[d]} /\ sh' = sh \ {dchunk[d]}
    BY <1>6 DEF ClearBit, IInv, TypeOK
  <2>3. \A t \in Readers : act[t] = {}
    BY <1>6 DEF ClearBit, IInv, LockInv
  <2> QED BY <2>1, <2>2, <2>3 DEF Abstract!Evict
<1>7. ASSUME Restart PROVE Abstract!Crash
  BY <1>7 DEF Restart, Abstract!Crash
<1>8. ASSUME NEW t \in Readers,
             \/ CheckBit(t) \/ Register(t) \/ Join(t) \/ Wake(t) \/ FetchSome(t) \/ FetchShort(t)
             \/ FetchErr(t) \/ RemoveInflight(t) \/ Done(t)
      PROVE  UNCHANGED Abstract!vars
  <2>1. Shown' = Shown
    BY <1>8 DEF CheckBit, Register, Join, Wake, FetchSome, FetchShort, FetchErr, RemoveInflight, Done,
                readerVars
  <2>2. pc[t] \in InsidePcs /\ pc'[t] \in InsidePcs
    BY <1>8 DEF CheckBit, Register, Join, Wake, FetchSome, FetchShort, FetchErr, RemoveInflight, Done,
                NextChunk, Goto, readerVars, IInv, TypeOK
  <2>3. \A u \in Readers : u # t => pc'[u] = pc[u]
    BY <1>8 DEF CheckBit, Register, Join, Wake, FetchSome, FetchShort, FetchErr, RemoveInflight, Done,
                NextChunk, Goto, readerVars, IInv, TypeOK
  <2>4. sh' = sh
    <3>1. CASE FetchShort(t)
      BY <3>1 DEF FetchShort, IInv, TypeOK, PresentMeansFetched
    <3>2. CASE ~FetchShort(t)
      BY <1>8, <3>2 DEF CheckBit, Register, Join, Wake, FetchSome, FetchErr, RemoveInflight, Done,
                        readerVars
    <3> QED BY <3>1, <3>2
  <2> QED BY <2>1, <2>2, <2>3, <2>4
<1>9. ASSUME NEW d \in Droppers,
             BeginInvalidate(d) \/ WriteLock(d) \/ SyncBitmap(d) \/ PunchHole(d)
      PROVE  UNCHANGED Abstract!vars
  BY <1>9 DEF BeginInvalidate, WriteLock, SyncBitmap, PunchHole, readerVars
<1>10. CASE Writeback \/ UNCHANGED vars
  BY <1>10 DEF Writeback, vars, readerVars
<1>11. CASE Next
  <2> HIDE DEF Abstract!vars, Abstract!Next
  <2>1. ASSUME NEW t \in Readers, ReaderStep(t)
        PROVE  [Abstract!Next]_Abstract!vars
    BY <2>1, <1>2, <1>3, <1>4, <1>5, <1>8 DEF ReaderStep, Abstract!Next
  <2>2. ASSUME NEW d \in Droppers, DropperStep(d)
        PROVE  [Abstract!Next]_Abstract!vars
    BY <2>2, <1>6, <1>9 DEF DropperStep, Abstract!Next
  <2> QED BY <1>1, <1>7, <1>10, <1>11, <2>1, <2>2 DEF Next, Abstract!Next
<1> QED BY <1>10, <1>11

(* The cache implements the read-through store: callers of read_at cannot  *)
(* tell the waiting, refetching and dropping cache from ReadThrough, whose *)
(* reads are the image's bytes but for chunks the backend cut short.       *)
THEOREM Refinement == Spec => ImplementsReadThrough
<1>1. Init => Abstract!Init
  BY DEF Init, Abstract!Init
<1> QED BY <1>1, StepRefines, Invariance, PTL DEF Spec, ImplementsReadThrough, Abstract!Spec

=============================================================================
