---------------------------- MODULE DedupProofs ----------------------------
(***************************************************************************)
(* Proofs about Dedup, for any image, number of readers, queue length and  *)
(* number of failures and restarts: a record names its chunk's own bytes,  *)
(* reads with a backend behind the cache return the image, both but for    *)
(* chunks that the backend has cut short, and the punched file of a local  *)
(* image together with ChunkDB keeps every byte as long as nobody deletes  *)
(* from ChunkDB.                                                           *)
(***************************************************************************)
EXTENDS Dedup, TLAPS

USE DedupAssumption
USE DEF ReaderPcs, DedupPcs, SyncPcs, Results

-----------------------------------------------------------------------------
(* What the proofs need to know of chunk numbers. *)
LEMMA ChunkFacts ==
    /\ Chunks \subseteq Int
    /\ 0 \in Chunks
    /\ \A c, d \in Chunks : c <= d /\ c # d => c + 1 \in Chunks
BY DEF Chunks
-----------------------------------------------------------------------------
(* Type correctness. *)

(* Reading through the cache leaves bytes or a hole in the file. *)
LEMMA CacheReadType ==
    ASSUME TypeOK, NEW c \in Chunks, NEW d \in Digests, CacheRead(c, d)
    PROVE  /\ file' \in [Chunks -> Digests \cup {None}]
           /\ cut' \in SUBSET (Chunks \X Digests)
           /\ UNCHANGED <<failures, restarts, collected>>
<1>1. CASE UNCHANGED <<file, history>>
  BY <1>1 DEF TypeOK, history
<1>2. CASE ~UNCHANGED <<file, history>>
  <2>1. /\ file' = [file EXCEPT ![c] = d]
        /\ cut' = cut \/ cut' = cut \cup {<<c, d>>}
        /\ UNCHANGED <<failures, restarts, collected>>
    BY <1>2 DEF CacheRead
  <2> QED BY <2>1 DEF TypeOK
<1> QED BY <1>1, <1>2

(* Copying a segment out keeps the reader's locals in their types. *)
LEMMA CopiedType ==
    ASSUME TypeOK, RangeInv, NEW t \in Readers, pc[t] # "idle", NEW d, Copied(t, d)
    PROVE  /\ pc' \in [Readers -> ReaderPcs]
           /\ pos' \in [Readers -> Chunks]
           /\ found' \in [Readers -> SUBSET Chunks]
           /\ result' \in [Readers -> Results]
<1>1. pos[t] # last[t] => pos[t] + 1 \in Chunks
  BY ChunkFacts DEF TypeOK, RangeInv
<1>2. CASE pos[t] = last[t]
  <2>1. PICK r \in Results : result' = [result EXCEPT ![t] = r]
    BY <1>2 DEF Copied
  <2>2. /\ pc' = [pc EXCEPT ![t] = "offer"]
        /\ pos' = [pos EXCEPT ![t] = first[t]]
        /\ found' = [found EXCEPT ![t] = {}]
    BY <1>2 DEF Copied, Goto
  <2> QED BY <2>1, <2>2 DEF TypeOK
<1>3. CASE pos[t] # last[t]
  <2>1. PICK r \in {"wrong", "short", result[t]} : result' = [result EXCEPT ![t] = r]
    BY <1>3 DEF Copied
  <2>2. PICK p \in {"store", "cache"} : pc' = [pc EXCEPT ![t] = p]
    BY <1>3 DEF Copied, Goto
  <2>3. pos' = [pos EXCEPT ![t] = pos[t] + 1] /\ found' = found
    BY <1>3 DEF Copied
  <2>4. r \in Results /\ p \in ReaderPcs
    BY <2>1, <2>2 DEF TypeOK, Results, ReaderPcs
  <2> QED BY <1>1, <1>3, <2>1, <2>2, <2>3, <2>4 DEF TypeOK
<1> QED BY <1>2, <1>3

(* So does going on to the next chunk to offer, or returning. *)
LEMMA NextOfferType ==
    ASSUME TypeOK, RangeInv, NEW t \in Readers, pc[t] # "idle", NextOffer(t)
    PROVE  /\ pc' \in [Readers -> ReaderPcs]
           /\ first' \in [Readers -> Chunks]
           /\ last' \in [Readers -> Chunks]
           /\ pos' \in [Readers -> Chunks]
           /\ found' \in [Readers -> SUBSET Chunks]
<1>1. pos[t] # last[t] => pos[t] + 1 \in Chunks
  BY ChunkFacts DEF TypeOK, RangeInv
<1>2. CASE pos[t] = last[t]
  <2>1. /\ pc' = [pc EXCEPT ![t] = "idle"]
        /\ first' = [first EXCEPT ![t] = 0]
        /\ last' = [last EXCEPT ![t] = 0]
        /\ pos' = [pos EXCEPT ![t] = 0]
        /\ found' = [found EXCEPT ![t] = {}]
    BY <1>2 DEF NextOffer, Goto, Return
  <2> QED BY <2>1, ChunkFacts DEF TypeOK
<1>3. CASE pos[t] # last[t]
  <2>1. /\ pc' = [pc EXCEPT ![t] = "offer"]
        /\ pos' = [pos EXCEPT ![t] = pos[t] + 1]
        /\ UNCHANGED <<first, last, found>>
    BY <1>3 DEF NextOffer, Goto
  <2> QED BY <1>1, <1>3, <2>1 DEF TypeOK
<1> QED BY <1>2, <1>3

(* A reader's steps keep the types: RangeInv bounds the step to the next    *)
(* chunk, FoundInv says that what is sent to the SyncWorker is a checksum.  *)
LEMMA ReaderType ==
    ASSUME TypeOK, RangeInv, FoundInv, NEW t \in Readers, ReaderStep(t)
    PROVE  TypeOK'
<1> USE DEF stores, dedupVars, syncVars, history
<1>1. CASE ReadHit(t)
  <2>1. pc[t] # "idle" /\ Copied(t, index[pos[t]])
    BY <1>1 DEF ReadHit
  <2> QED BY <1>1, <2>1, CopiedType DEF ReadHit, TypeOK
<1>2. CASE ReadMiss(t)
  BY <1>2 DEF ReadMiss, TypeOK, Goto
<1>3. CASE Prefetch(t)
  BY <1>3 DEF Prefetch, TypeOK, Goto
<1>4. CASE ReadFallback(t)
  <2>1. pos[t] \in Chunks /\ index[pos[t]] \in Digests
    BY <1>4 DEF ReadFallback, FoundInv, TypeOK
  <2>2. syncQ' \in Seq(Chunks \X Digests) /\ Len(syncQ') <= QueueLen
    BY <1>4, <2>1 DEF ReadFallback, HasRoom, TypeOK
  <2> QED BY <1>4, <2>2 DEF ReadFallback, TypeOK, Goto
<1>5. CASE ReadStoreFails(t)
  BY <1>5 DEF ReadStoreFails, Fail, TypeOK, Goto
<1>6. CASE ReadCache(t)
  <2>1. PICK d \in Digests : CacheRead(pos[t], d) /\ Copied(t, d)
    BY <1>6 DEF ReadCache
  <2>2. pc[t] # "idle" /\ pos[t] \in Chunks
    BY <1>6 DEF ReadCache, TypeOK
  <2>3. /\ file' \in [Chunks -> Digests \cup {None}]
        /\ cut' \in SUBSET (Chunks \X Digests)
        /\ UNCHANGED <<failures, restarts, collected>>
    BY <2>1, <2>2, CacheReadType
  <2>4. /\ pc' \in [Readers -> ReaderPcs]
        /\ pos' \in [Readers -> Chunks]
        /\ found' \in [Readers -> SUBSET Chunks]
        /\ result' \in [Readers -> Results]
    BY <2>1, <2>2, CopiedType
  <2> QED BY <1>6, <2>3, <2>4 DEF ReadCache, TypeOK
<1>7. CASE ReadCacheFails(t)
  BY <1>7, ChunkFacts DEF ReadCacheFails, Fail, TypeOK, Goto, Return
<1>8. CASE Offer(t)
  <2>1. CASE pos[t] \notin mark /\ HasRoom(dedupQ)
    <3>1. pos[t] \in Chunks /\ dedupQ \in Seq(Chunks)
      BY DEF TypeOK
    <3>2. dedupQ' = Append(dedupQ, pos[t]) /\ Len(dedupQ) < QueueLen
      BY <1>8, <2>1 DEF Offer, HasRoom
    <3>3. dedupQ' \in Seq(Chunks) /\ Len(dedupQ') <= QueueLen
      BY <3>1, <3>2
    <3> QED BY <1>8, <2>1, <3>3 DEF Offer, TypeOK, Goto
  <2>2. CASE ~(pos[t] \notin mark /\ HasRoom(dedupQ))
    <3>1. pc[t] # "idle" /\ NextOffer(t) /\ UNCHANGED dedupQ
      BY <1>8, <2>2 DEF Offer
    <3> QED BY <1>8, <3>1, NextOfferType DEF Offer, TypeOK
  <2> QED BY <2>1, <2>2
<1>9. CASE Mark(t)
  <2>1. pc[t] # "idle" /\ NextOffer(t)
    BY <1>9 DEF Mark
  <2> QED BY <1>9, <2>1, NextOfferType DEF Mark, TypeOK
<1> QED BY <1>1, <1>2, <1>3, <1>4, <1>5, <1>6, <1>7, <1>8, <1>9 DEF ReaderStep

(* The DedupWorker's steps keep the types. *)
LEMMA DedupType ==
    ASSUME TypeOK, DedupStep
    PROVE  TypeOK'
<1> USE ChunkFacts DEF TypeOK, stores, readerVars, syncVars, history, DedupGoto, DedupEnd, Fail
<1>1. CASE DedupTake
  <2>1. Head(dedupQ) \in Chunks /\ Tail(dedupQ) \in Seq(Chunks) /\ Len(Tail(dedupQ)) <= QueueLen
    BY <1>1 DEF DedupTake
  <2> QED BY <1>1, <2>1 DEF DedupTake
<1>2. CASE DedupCheck
  BY <1>2 DEF DedupCheck
<1>3. CASE DedupFetch
  <2>1. PICK d \in Digests : CacheRead(dchunk, d) /\ ddigest' = d
    BY <1>3 DEF DedupFetch
  <2>2. /\ file' \in [Chunks -> Digests \cup {None}]
        /\ cut' \in SUBSET (Chunks \X Digests)
        /\ UNCHANGED <<failures, restarts, collected>>
    BY <2>1, CacheReadType
  <2> QED BY <1>3, <2>1, <2>2 DEF DedupFetch
<1>4. CASE DedupFetchFails
  BY <1>4 DEF DedupFetchFails
<1>5. CASE DedupStore
  BY <1>5 DEF DedupStore
<1>6. CASE DedupStoreFails
  BY <1>6 DEF DedupStoreFails
<1>7. CASE DedupIndex
  BY <1>7 DEF DedupIndex
<1>8. CASE DedupIndexFails
  BY <1>8 DEF DedupIndexFails
<1>9. CASE DedupGc
  <2>1. file' \in [Chunks -> Digests \cup {None}]
    BY <1>9 DEF DedupGc, CacheDrop
  <2>2. failures' \in 0 .. MaxFailures /\ UNCHANGED <<restarts, collected, cut>>
    BY <1>9 DEF DedupGc
  <2> QED BY <1>9, <2>1, <2>2 DEF DedupGc
<1> QED BY <1>1, <1>2, <1>3, <1>4, <1>5, <1>6, <1>7, <1>8, <1>9 DEF DedupStep

(* The SyncWorker's steps keep the types. *)
LEMMA SyncType ==
    ASSUME TypeOK, SyncStep
    PROVE  TypeOK'
<1> USE ChunkFacts DEF TypeOK, stores, readerVars, dedupVars, history, SyncEnd, Fail
<1>0. sync[1] \in Chunks /\ sync[2] \in Digests
  OBVIOUS
<1>1. CASE SyncTake
  <2>1. Head(syncQ) \in Chunks \X Digests
    BY <1>1 DEF SyncTake
  <2>2. Tail(syncQ) \in Seq(Chunks \X Digests) /\ Len(Tail(syncQ)) <= QueueLen
    BY <1>1 DEF SyncTake
  <2> QED BY <1>1, <2>1, <2>2 DEF SyncTake
<1>2. CASE SyncFetch
  <2>1. PICK d \in Digests : CacheRead(sync[1], d)
    BY <1>2 DEF SyncFetch
  <2>2. /\ file' \in [Chunks -> Digests \cup {None}]
        /\ cut' \in SUBSET (Chunks \X Digests)
        /\ UNCHANGED <<failures, restarts, collected>>
    BY <1>0, <2>1, CacheReadType
  <2>3. spc' \in SyncPcs /\ sync' \in Chunks \X Digests
    BY <1>0, <1>2 DEF SyncFetch
  <2> QED BY <1>2, <2>2, <2>3 DEF SyncFetch
<1>3. CASE SyncStore
  BY <1>0, <1>3 DEF SyncStore
<1>4. CASE SyncFails
  BY <1>4 DEF SyncFails
<1>5. CASE SyncGc
  <2>1. file' \in [Chunks -> Digests \cup {None}]
    BY <1>0, <1>5 DEF SyncGc, CacheDrop
  <2>2. failures' \in 0 .. MaxFailures /\ UNCHANGED <<restarts, collected, cut>>
    BY <1>5 DEF SyncGc
  <2> QED BY <1>5, <2>1, <2>2 DEF SyncGc
<1> QED BY <1>1, <1>2, <1>3, <1>4, <1>5 DEF SyncStep

(* Every step keeps the types. *)
LEMMA TypeStep ==
    ASSUME TypeOK, RangeInv, FoundInv, [Next]_vars
    PROVE  TypeOK'
<1> USE DEF stores, readerVars, dedupVars, syncVars, history
<1>1. ASSUME NEW t \in Readers, NEW a \in Chunks, NEW b \in Chunks, BeginRead(t, a, b)
      PROVE  TypeOK'
  <2>1. Lookup(a, b) \subseteq Chunks
    BY DEF Lookup, Chunks
  <2>2. failures' \in 0 .. MaxFailures /\ UNCHANGED <<restarts, collected, cut>>
    BY <1>1 DEF BeginRead, TypeOK, Fail
  <2>3. PICK S \in {{}, Lookup(a, b)}, l \in {"store", "cache"} :
          found' = [found EXCEPT ![t] = S] /\ pc' = [pc EXCEPT ![t] = l]
    BY <1>1 DEF BeginRead, Goto
  <2>4. found' \in [Readers -> SUBSET Chunks] /\ pc' \in [Readers -> ReaderPcs]
    BY <2>1, <2>3 DEF TypeOK
  <2> QED BY <1>1, <2>2, <2>4 DEF BeginRead, TypeOK
<1>2. CASE Collect
  BY <1>2 DEF Collect, TypeOK
<1>3. CASE Restart
  BY <1>3, ChunkFacts DEF Restart, TypeOK, DedupEnd, SyncEnd
<1>4. CASE UNCHANGED vars
  BY <1>4 DEF vars, TypeOK
<1> QED BY <1>1, <1>2, <1>3, <1>4, ReaderType, DedupType, SyncType DEF Next
-----------------------------------------------------------------------------
(* The readers. *)

(* A reader's step keeps it in its request, and its locals with the records. *)
LEMMA ReaderLocals ==
    ASSUME TypeOK, RangeInv, FoundInv, NEW t \in Readers, ReaderStep(t)
    PROVE  RangeInv' /\ FoundInv'
<1>1. index' = index
  BY DEF ReaderStep, ReadHit, ReadMiss, Prefetch, ReadFallback, ReadStoreFails, ReadCache,
         ReadCacheFails, Offer, Mark, stores
<1>0. \A u \in Readers : first[u] \in Int /\ last[u] \in Int /\ pos[u] \in Int
  BY ChunkFacts DEF TypeOK
<1> DEFINE Within(u) == first[u] <= pos[u] /\ pos[u] <= last[u]
<1>2. ASSUME pc[t] # "idle", NEW d, Copied(t, d), UNCHANGED <<first, last>>
      PROVE  RangeInv' /\ FoundInv'
  <2>1. CASE pos[t] = last[t]
    <3>1. /\ pc' = [pc EXCEPT ![t] = "offer"]
          /\ pos' = [pos EXCEPT ![t] = first[t]]
          /\ found' = [found EXCEPT ![t] = {}]
      BY <1>2, <2>1 DEF Copied, Goto
    <3>2. Within(t)'
      BY <1>0, <1>2, <3>1 DEF RangeInv, TypeOK
    <3>3. RangeInv'
      BY <1>2, <3>1, <3>2 DEF RangeInv, TypeOK
    <3>4. FoundInv'
      BY <1>1, <3>1 DEF FoundInv, TypeOK
    <3> QED BY <3>3, <3>4
  <2>2. CASE pos[t] # last[t]
    <3>1. /\ pc' = [pc EXCEPT ![t] = IF pos[t] + 1 \in found[t] THEN "store" ELSE "cache"]
          /\ pos' = [pos EXCEPT ![t] = pos[t] + 1]
          /\ UNCHANGED found
      BY <1>2, <2>2 DEF Copied, Goto
    <3>2. Within(t)'
      BY <1>0, <1>2, <2>2, <3>1 DEF RangeInv, TypeOK
    <3>3. RangeInv'
      BY <1>2, <3>1, <3>2 DEF RangeInv, TypeOK
    <3>4. FoundInv'
      BY <1>1, <3>1 DEF FoundInv, TypeOK
    <3> QED BY <3>3, <3>4
  <2> QED BY <2>1, <2>2
<1>3. ASSUME NEW l \in {"prefetch", "again", "cache", "mark"}, pc[t] # "idle",
             l \in {"prefetch", "again"} => pc[t] \in {"store", "prefetch"},
             pc' = [pc EXCEPT ![t] = l], UNCHANGED <<first, last, pos, found>>
      PROVE  RangeInv' /\ FoundInv'
  BY <1>1, <1>3 DEF RangeInv, FoundInv, TypeOK
<1>4. ASSUME Return(t)
      PROVE  RangeInv' /\ FoundInv'
  BY <1>1, <1>4 DEF Return, Goto, RangeInv, FoundInv, TypeOK
<1>5. ASSUME pc[t] # "idle", NextOffer(t)
      PROVE  RangeInv' /\ FoundInv'
  <2>1. CASE pos[t] = last[t]
    BY <1>4, <1>5, <2>1 DEF NextOffer
  <2>2. CASE pos[t] # last[t]
    <3>1. /\ pc' = [pc EXCEPT ![t] = "offer"]
          /\ pos' = [pos EXCEPT ![t] = pos[t] + 1]
          /\ UNCHANGED <<first, last, found>>
      BY <1>5, <2>2 DEF NextOffer, Goto
    <3>2. Within(t)'
      BY <1>0, <1>5, <2>2, <3>1 DEF RangeInv, TypeOK
    <3>3. RangeInv'
      BY <1>5, <3>1, <3>2 DEF RangeInv, TypeOK
    <3>4. FoundInv'
      BY <1>1, <3>1 DEF FoundInv, TypeOK
    <3> QED BY <3>3, <3>4
  <2> QED BY <2>1, <2>2
<1>6. CASE ReadHit(t)
  BY <1>2, <1>6 DEF ReadHit
<1>7. CASE ReadMiss(t)
  BY <1>3, <1>7 DEF ReadMiss, Goto
<1>8. CASE Prefetch(t)
  BY <1>3, <1>8 DEF Prefetch, Goto
<1>9. CASE ReadFallback(t)
  BY <1>3, <1>9 DEF ReadFallback, Goto
<1>10. CASE ReadStoreFails(t)
  BY <1>3, <1>10 DEF ReadStoreFails, Goto
<1>11. CASE ReadCache(t)
  BY <1>2, <1>11 DEF ReadCache
<1>12. CASE ReadCacheFails(t)
  BY <1>4, <1>12 DEF ReadCacheFails
<1>13. CASE Offer(t)
  BY <1>3, <1>5, <1>13 DEF Offer, Goto
<1>14. CASE Mark(t)
  BY <1>5, <1>14 DEF Mark
<1> QED BY <1>6, <1>7, <1>8, <1>9, <1>10, <1>11, <1>12, <1>13, <1>14 DEF ReaderStep

(* DedupIndex is the only step that writes IndexDB, and it adds a record. *)
LEMMA RecordsStay ==
    ASSUME TypeOK, WorkerInv, [Next]_vars
    PROVE  \A c \in Chunks : index[c] # None => index'[c] = index[c]
<1>1. CASE DedupIndex
  <2>1. index' = [index EXCEPT ![dchunk] = ddigest] /\ index[dchunk] = None
    BY <1>1 DEF DedupIndex, WorkerInv
  <2> QED BY <2>1 DEF TypeOK
<1>2. CASE ~DedupIndex
  <2>1. index' = index
    BY <1>2 DEF Next, vars, stores, BeginRead, ReaderStep, ReadHit, ReadMiss, Prefetch,
       ReadFallback, ReadStoreFails, ReadCache, ReadCacheFails, Offer, Mark, DedupStep, DedupTake,
       DedupCheck, DedupFetch, DedupFetchFails, DedupStore, DedupStoreFails, DedupIndexFails,
       DedupGc, SyncStep, SyncTake, SyncFetch, SyncStore, SyncFails, SyncGc, Collect, Restart
  <2> QED BY <2>1
<1> QED BY <1>1, <1>2

(* Every step keeps the readers in their requests. *)
LEMMA LocalsStep ==
    ASSUME TypeOK, RangeInv, FoundInv, WorkerInv, [Next]_vars
    PROVE  RangeInv' /\ FoundInv'
<1>1. ASSUME UNCHANGED <<pc, first, last, pos, found>>
      PROVE  RangeInv' /\ FoundInv'
  <2>1. RangeInv'
    BY <1>1 DEF RangeInv
  <2>2. \A t \in Readers : \A c \in found[t] : index[c] # None /\ c \in Chunks
    BY DEF FoundInv, TypeOK
  <2>3. None \notin Digests
    OBVIOUS
  <2>4. FoundInv'
    BY <1>1, <2>2, RecordsStay DEF FoundInv
  <2> QED BY <2>1, <2>4
<1>2. ASSUME NEW t \in Readers, NEW a \in Chunks, NEW b \in Chunks, a <= b, BeginRead(t, a, b)
      PROVE  RangeInv' /\ FoundInv'
  <2>1. /\ first' = [first EXCEPT ![t] = a]
        /\ last' = [last EXCEPT ![t] = b]
        /\ pos' = [pos EXCEPT ![t] = a]
        /\ index' = index
    BY <1>2 DEF BeginRead, stores
  <2>2. PICK S \in {{}, Lookup(a, b)} :
          /\ found' = [found EXCEPT ![t] = S]
          /\ pc' = [pc EXCEPT ![t] = IF a \in S THEN "store" ELSE "cache"]
    BY <1>2 DEF BeginRead, Goto
  <2>3. \A c \in S : index[c] # None
    <3>1. a \in Int /\ b \in Int
      BY ChunkFacts
    <3> QED BY <2>2, <3>1 DEF Lookup
  <2>4. RangeInv'
    BY <1>2, <2>1, <2>2, ChunkFacts DEF RangeInv, TypeOK
  <2>5. FoundInv'
    BY <2>1, <2>2, <2>3 DEF FoundInv, TypeOK
  <2> QED BY <2>4, <2>5
<1>3. CASE DedupStep
  BY <1>1, <1>3 DEF DedupStep, DedupTake, DedupCheck, DedupFetch, DedupFetchFails, DedupStore,
     DedupStoreFails, DedupIndex, DedupIndexFails, DedupGc, readerVars
<1>4. CASE SyncStep
  BY <1>1, <1>4 DEF SyncStep, SyncTake, SyncFetch, SyncStore, SyncFails, SyncGc, readerVars
<1>5. CASE Collect
  BY <1>1, <1>5 DEF Collect, readerVars
<1>6. CASE Restart
  BY <1>6 DEF Restart, RangeInv, FoundInv
<1>7. CASE UNCHANGED vars
  BY <1>1, <1>7 DEF vars, readerVars
<1> QED BY <1>2, <1>3, <1>4, <1>5, <1>6, <1>7, ReaderLocals DEF Next
-----------------------------------------------------------------------------
(* The workers and what is stored. *)

StoresInv == IndexIsTruthful /\ WorkerInv /\ HoleInv /\ KeptInv

(* Steps that leave the DedupWorker, IndexDB and the file's holes alone, take *)
(* from ChunkDB only what they enter as deleted, and put only the image's     *)
(* bytes or those of a short fetch into the file.                             *)
LEMMA StoresKept ==
    ASSUME TypeOK, StoresInv, UNCHANGED <<index, dpc, dchunk, ddigest>>,
           store \cup collected \subseteq store' \cup collected',
           cut \subseteq cut', ~Remote => cut' = cut,
           \A c \in Chunks : file[c] # None \/ index[c] # None => file'[c] # None \/ index[c] # None,
           \A c \in Chunks : file'[c] = None \/ Fits(c, file[c])'
    PROVE  StoresInv'
<1>1. IndexIsTruthful' /\ WorkerInv'
  BY DEF StoresInv, IndexIsTruthful, WorkerInv, Fits
<1>2. HoleInv' /\ KeptInv'
  BY DEF StoresInv, HoleInv, KeptInv
<1> QED BY <1>1, <1>2 DEF StoresInv

(* Reading a chunk through the cache makes no hole, and yields and leaves in *)
(* the file the image's bytes or those of a short fetch, but for a hole of a  *)
(* local image.                                                               *)
LEMMA CacheReadKeeps ==
    ASSUME TypeOK, HoleInv, NEW c \in Chunks, NEW d \in Digests, CacheRead(c, d)
    PROVE  /\ cut \subseteq cut' /\ (~Remote => cut' = cut)
           /\ \A e \in Chunks : file[e] # None => file'[e] # None
           /\ \A e \in Chunks : file'[e] = None \/ Fits(e, file[e])'
           /\ Remote \/ file[c] # None => Fits(c, d)'
<1>1. CASE file[c] # None \/ ~Remote
  <2>1. UNCHANGED <<file, cut>> /\ d = IF file[c] # None THEN file[c] ELSE Zero
    BY <1>1 DEF CacheRead, history
  <2> QED BY <1>1, <2>1 DEF HoleInv, Fits
<1>2. CASE file[c] = None /\ Remote
  <2>1. file' = [file EXCEPT ![c] = d] /\ cut \subseteq cut' /\ Fits(c, d)'
    BY <1>2 DEF CacheRead, Fits
  <2>2. \A e \in Chunks : file'[e] = IF e = c THEN d ELSE file[e]
    BY <2>1 DEF TypeOK
  <2> QED BY <1>2, <2>1, <2>2 DEF HoleInv, Fits
<1> QED BY <1>1, <1>2

(* The readers' steps. *)
LEMMA ReaderStores ==
    ASSUME TypeOK, StoresInv, NEW t \in Readers, ReaderStep(t)
    PROVE  StoresInv'
<1>1. UNCHANGED <<index, dpc, dchunk, ddigest>>
  BY DEF ReaderStep, ReadHit, ReadMiss, Prefetch, ReadFallback, ReadStoreFails, ReadCache,
         ReadCacheFails, Offer, Mark, stores, dedupVars
<1>2. store \subseteq store' /\ UNCHANGED collected
  BY DEF ReaderStep, ReadHit, ReadMiss, Prefetch, ReadFallback, ReadStoreFails, ReadCache,
         ReadCacheFails, Offer, Mark, stores, history, Fail, CacheRead
<1>3. /\ cut \subseteq cut' /\ (~Remote => cut' = cut)
      /\ \A c \in Chunks : file[c] # None => file'[c] # None
      /\ \A c \in Chunks : file'[c] = None \/ Fits(c, file[c])'
  <2>1. CASE ReadCache(t)
    <3>1. PICK d \in Digests : CacheRead(pos[t], d)
      BY <2>1 DEF ReadCache
    <3>2. pos[t] \in Chunks /\ HoleInv
      BY DEF TypeOK, StoresInv
    <3> QED BY <3>1, <3>2, CacheReadKeeps
  <2>2. CASE ~ReadCache(t)
    <3>1. UNCHANGED <<file, cut>>
      BY <2>2 DEF ReaderStep, ReadHit, ReadMiss, Prefetch, ReadFallback, ReadStoreFails,
         ReadCacheFails, Offer, Mark, stores, history, Fail
    <3> QED BY <3>1 DEF StoresInv, HoleInv, Fits
  <2> QED BY <2>1, <2>2
<1> QED BY <1>1, <1>2, <1>3, StoresKept

(* The DedupWorker's steps: it takes up a chunk only without a record, so a  *)
(* chunk whose bytes it reads is not a hole, and it writes the record only   *)
(* when ChunkDB has the bytes.                                               *)
LEMMA DedupStores ==
    ASSUME TypeOK, StoresInv, DedupStep
    PROVE  StoresInv'
<1> USE DEF StoresInv, history, Fail, Fits
<1>1. ASSUME UNCHANGED <<stores, collected, cut>>, dpc' \in {"idle", "check"}
      PROVE  StoresInv'
  BY <1>1 DEF stores, IndexIsTruthful, WorkerInv, HoleInv, KeptInv
<1>2. CASE DedupTake
  BY <1>1, <1>2 DEF DedupTake
<1>3. CASE DedupCheck
  <2>1. CASE index[dchunk] = None
    BY <1>3, <2>1 DEF DedupCheck, DedupGoto, stores, IndexIsTruthful, WorkerInv, HoleInv, KeptInv
  <2>2. CASE index[dchunk] # None
    BY <1>3, <2>2 DEF DedupCheck, DedupGoto, DedupEnd, stores, IndexIsTruthful, WorkerInv,
       HoleInv, KeptInv
  <2> QED BY <2>1, <2>2
<1>4. CASE DedupFetch
  <2>1. index[dchunk] = None /\ dchunk \in Chunks
    BY <1>4 DEF DedupFetch, WorkerInv, TypeOK
  <2>2. PICK d \in Digests : CacheRead(dchunk, d) /\ ddigest' = d
    BY <1>4 DEF DedupFetch
  <2>3. Remote \/ file[dchunk] # None
    BY <2>1 DEF HoleInv
  <2>4. /\ cut \subseteq cut' /\ (~Remote => cut' = cut)
        /\ \A c \in Chunks : file[c] # None => file'[c] # None
        /\ \A c \in Chunks : file'[c] = None \/ Fits(c, file[c])'
        /\ d = Content[dchunk] \/ <<dchunk, d>> \in cut'
    BY <2>1, <2>2, <2>3, CacheReadKeeps
  <2>5. dpc' = "store" /\ UNCHANGED <<store, index, dchunk, collected>>
    BY <1>4, <2>2 DEF DedupFetch, CacheRead
  <2>6. IndexIsTruthful' /\ WorkerInv'
    BY <2>1, <2>2, <2>4, <2>5 DEF IndexIsTruthful, WorkerInv
  <2>7. HoleInv' /\ KeptInv'
    BY <2>4, <2>5 DEF HoleInv, KeptInv
  <2> QED BY <2>6, <2>7
<1>5. CASE DedupFetchFails
  BY <1>1, <1>5 DEF DedupFetchFails, DedupEnd
<1>6. CASE DedupStore
  BY <1>6 DEF DedupStore, DedupGoto, IndexIsTruthful, WorkerInv, HoleInv, KeptInv
<1>7. CASE DedupStoreFails
  BY <1>1, <1>7 DEF DedupStoreFails, DedupEnd
<1>8. CASE DedupIndex
  <2>1. /\ index' = [index EXCEPT ![dchunk] = ddigest] /\ dchunk \in Chunks
        /\ dpc' = "gc" /\ UNCHANGED <<file, store, dchunk>>
        /\ Fits(dchunk, ddigest)
        /\ ddigest \in store \cup collected /\ UNCHANGED <<collected, cut>>
    BY <1>8 DEF DedupIndex, DedupGoto, WorkerInv, KeptInv, TypeOK, history
  <2>2. ddigest # None
    BY DEF TypeOK
  <2> QED BY <2>1, <2>2 DEF IndexIsTruthful, WorkerInv, HoleInv, KeptInv, TypeOK
<1>9. CASE DedupIndexFails
  BY <1>1, <1>9 DEF DedupIndexFails, DedupEnd
<1>10. CASE DedupGc
  <2>1. index[dchunk] # None /\ dpc' = "idle" /\ UNCHANGED <<store, index, collected, cut>>
    BY <1>10 DEF DedupGc, DedupEnd, WorkerInv
  <2>2. \A c \in Chunks : IF c # dchunk THEN file'[c] = file[c] ELSE file'[c] \in {file[c], None}
    BY <1>10 DEF DedupGc, CacheDrop, TypeOK
  <2> QED BY <2>1, <2>2 DEF IndexIsTruthful, WorkerInv, HoleInv, KeptInv
<1> QED BY <1>2, <1>3, <1>4, <1>5, <1>6, <1>7, <1>8, <1>9, <1>10 DEF DedupStep

(* The SyncWorker's steps: it punches only where there is a record. *)
LEMMA SyncStores ==
    ASSUME TypeOK, StoresInv, SyncStep
    PROVE  StoresInv'
<1>0. sync[1] \in Chunks
  BY DEF TypeOK
<1>1. UNCHANGED <<index, dpc, dchunk, ddigest, collected>> /\ store \subseteq store'
  BY DEF SyncStep, SyncTake, SyncFetch, SyncStore, SyncFails, SyncGc, stores, dedupVars, history,
         Fail, CacheRead
<1>2. /\ cut \subseteq cut' /\ (~Remote => cut' = cut)
      /\ \A c \in Chunks : file[c] # None \/ index[c] # None => file'[c] # None \/ index[c] # None
      /\ \A c \in Chunks : file'[c] = None \/ Fits(c, file[c])'
  <2>0. HoleInv
    BY DEF StoresInv
  <2>1. CASE SyncFetch
    <3>1. PICK d \in Digests : CacheRead(sync[1], d)
      BY <2>1 DEF SyncFetch
    <3> QED BY <1>0, <2>0, <3>1, CacheReadKeeps
  <2>2. CASE SyncGc
    <3>1. UNCHANGED cut
      BY <2>2 DEF SyncGc, history, Fail
    <3>2. \A c \in Chunks : file'[c] = file[c] \/ (file'[c] = None /\ index[c] # None)
      BY <2>2 DEF SyncGc, CacheDrop, TypeOK
    <3> QED BY <2>0, <3>1, <3>2 DEF HoleInv, Fits
  <2>3. CASE SyncTake \/ SyncStore \/ SyncFails
    BY <2>0, <2>3 DEF SyncTake, SyncStore, SyncFails, stores, history, Fail, HoleInv, Fits
  <2> QED BY <2>1, <2>2, <2>3 DEF SyncStep
<1> QED BY <1>1, <1>2, StoresKept

(* Every step keeps what is stored in order. *)
LEMMA StoresStep ==
    ASSUME TypeOK, StoresInv, [Next]_vars
    PROVE  StoresInv'
<1>1. ASSUME NEW t \in Readers, NEW a \in Chunks, NEW b \in Chunks, BeginRead(t, a, b)
      PROVE  StoresInv'
  <2>1. UNCHANGED <<file, cut>>
    BY <1>1 DEF BeginRead, stores, history, Fail
  <2>2. \A c \in Chunks : file'[c] = None \/ Fits(c, file[c])'
    BY <2>1 DEF StoresInv, HoleInv, Fits
  <2> QED BY <1>1, <2>1, <2>2, StoresKept DEF BeginRead, stores, dedupVars, history, Fail
<1>2. CASE Collect
  <2>1. \A c \in Chunks : file'[c] = None \/ Fits(c, file[c])'
    BY <1>2 DEF Collect, StoresInv, HoleInv, Fits
  <2> QED BY <1>2, <2>1, StoresKept DEF Collect, dedupVars
<1>3. CASE Restart
  BY <1>3 DEF Restart, DedupEnd, stores, StoresInv, IndexIsTruthful, WorkerInv, HoleInv, KeptInv, Fits
<1>4. CASE UNCHANGED vars
  <2>1. \A c \in Chunks : file'[c] = None \/ Fits(c, file[c])'
    BY <1>4 DEF vars, stores, history, StoresInv, HoleInv, Fits
  <2> QED BY <1>4, <2>1, StoresKept DEF vars, stores, dedupVars, history
<1> QED BY <1>1, <1>2, <1>3, <1>4, ReaderStores, DedupStores, SyncStores DEF Next
-----------------------------------------------------------------------------
(* What readers get. *)

(* With a backend, what a record names and what the cache yields is the       *)
(* image's bytes or those of a short fetch.                                  *)
LEMMA BytesFit ==
    ASSUME TypeOK, IndexIsTruthful, FoundInv, HoleInv, Remote, NEW t \in Readers,
           ReadHit(t) \/ ReadCache(t)
    PROVE  \E d \in Digests :
               /\ Copied(t, d)
               /\ d = Content[pos[t]] \/ <<pos[t], d>> \in cut'
               /\ cut' = cut \/ cut' = cut \cup {<<pos[t], d>>}
<1>0. pos[t] \in Chunks
  BY DEF TypeOK
<1>1. CASE ReadHit(t)
  <2>1. index[pos[t]] \in Digests /\ Fits(pos[t], index[pos[t]]) /\ UNCHANGED cut
    BY <1>0, <1>1 DEF ReadHit, FoundInv, IndexIsTruthful, TypeOK, history
  <2> QED BY <1>1, <2>1 DEF ReadHit, Fits
<1>2. CASE ReadCache(t)
  <2>1. PICK d \in Digests : CacheRead(pos[t], d) /\ Copied(t, d)
    BY <1>2 DEF ReadCache
  <2>2. d = Content[pos[t]] \/ <<pos[t], d>> \in cut'
    BY <1>0, <2>1, CacheReadKeeps DEF Fits
  <2>3. cut' = cut \/ cut' = cut \cup {<<pos[t], d>>}
    BY <2>1 DEF CacheRead, history
  <2> QED BY <2>1, <2>2, <2>3
<1> QED BY <1>1, <1>2

(* So no step makes a read with a backend return anything else. *)
LEMMA ReadsStep ==
    ASSUME TypeOK, IndexIsTruthful, FoundInv, HoleInv, RemoteReads, [Next]_vars
    PROVE  RemoteReads'
<1> SUFFICES ASSUME Remote, ReadReturnsImage
             PROVE  ReadReturnsImage'
  BY DEF RemoteReads
<1>1. ASSUME NEW t \in Readers, NEW r \in {"none", "image", "short", "error"},
             result' = [result EXCEPT ![t] = r]
      PROVE  ReadReturnsImage'
  BY <1>1 DEF ReadReturnsImage, TypeOK
<1>2. ASSUME NEW t \in Readers, ReadHit(t) \/ ReadCache(t)
      PROVE  ReadReturnsImage'
  <2>1. result[t] # "wrong" /\ result[t] \in Results
    BY DEF ReadReturnsImage, TypeOK
  <2>2. PICK d \in Digests : Copied(t, d) /\ (d = Content[pos[t]] \/ <<pos[t], d>> \in cut')
    BY <1>2, BytesFit
  <2>3. PICK r \in {"none", "image", "short", "error"} : result' = [result EXCEPT ![t] = r]
    BY <2>1, <2>2 DEF Copied
  <2> QED BY <1>1, <2>3
<1>3. ASSUME NEW t \in Readers, NEW a \in Chunks, NEW b \in Chunks, BeginRead(t, a, b)
      PROVE  ReadReturnsImage'
  BY <1>1, <1>3 DEF BeginRead
<1>4. ASSUME NEW t \in Readers, ReadCacheFails(t)
      PROVE  ReadReturnsImage'
  BY <1>1, <1>4 DEF ReadCacheFails
<1>5. ASSUME UNCHANGED result
      PROVE  ReadReturnsImage'
  BY <1>5 DEF ReadReturnsImage
<1>6. ASSUME NEW t \in Readers, ReaderStep(t)
      PROVE  ReadReturnsImage'
  BY <1>2, <1>4, <1>5, <1>6 DEF ReaderStep, ReadMiss, Prefetch, ReadFallback,
     ReadStoreFails, Offer, Mark
<1>7. CASE DedupStep
  BY <1>5, <1>7 DEF DedupStep, DedupTake, DedupCheck, DedupFetch, DedupFetchFails, DedupStore,
     DedupStoreFails, DedupIndex, DedupIndexFails, DedupGc, readerVars
<1>8. CASE SyncStep
  BY <1>5, <1>8 DEF SyncStep, SyncTake, SyncFetch, SyncStore, SyncFails, SyncGc, readerVars
<1>9. CASE Collect \/ UNCHANGED vars
  BY <1>5, <1>9 DEF Collect, vars, readerVars
<1>10. CASE Restart
  BY <1>10 DEF Restart, ReadReturnsImage
<1> QED BY <1>3, <1>6, <1>7, <1>8, <1>9, <1>10 DEF Next
-----------------------------------------------------------------------------
(* Each step is a step of the image store, or does not show. *)

(* The chunks of the fetches that came short. *)
Short == {p[1] : p \in cut}

(* A fetch adds its own chunk to them, or none. *)
LEMMA ShortGrows ==
    ASSUME NEW c, NEW d, cut' = cut \/ cut' = cut \cup {<<c, d>>}
    PROVE  /\ Short' = Short \/ Short' = Short \cup {c}
           /\ <<c, d>> \in cut' => c \in Short'
<1>1. <<c, d>>[1] = c
  OBVIOUS
<1>2. CASE cut' = cut
  BY <1>1, <1>2 DEF Short
<1>3. CASE cut' = cut \cup {<<c, d>>}
  BY <1>1, <1>3 DEF Short
<1> QED BY <1>2, <1>3

(* A step that moves no reader into or out of copying and sets no result. *)
LEMMA NotShown ==
    ASSUME TypeOK,
           NEW t \in Readers,
           UNCHANGED <<result, cut>>,
           \A u \in Readers \ {t} : UNCHANGED <<pc[u], pos[u], last[u]>>,
           \/ pc[t] \in Copying /\ pc'[t] \in Copying /\ UNCHANGED <<pos[t], last[t]>>
           \/ pc[t] \notin Copying /\ pc'[t] \notin Copying
    PROVE  UNCHANGED Image!vars
BY DEF Image!vars

(* Copying the chunk at pos out is serving that chunk. *)
LEMMA CopiedServes ==
    ASSUME TypeOK, RangeInv, ReadReturnsImage,
           NEW t \in Readers, pc[t] \in Copying,
           NEW d \in Digests, Copied(t, d), UNCHANGED <<first, last>>,
           d = Content[pos[t]] \/ <<pos[t], d>> \in cut',
           cut' = cut \/ cut' = cut \cup {<<pos[t], d>>}
    PROVE  Image!Serve(t)
<1> DEFINE rest == [u \in Readers |-> IF pc[u] \in Copying THEN pos[u] .. last[u] ELSE {}]
<1>1. /\ pos[t] \in Int /\ last[t] \in Int /\ pos[t] <= last[t]
      /\ rest[t] = pos[t] .. last[t]
  BY ChunkFacts DEF TypeOK, RangeInv, Copying
<1> DEFINE whole == d = Content[pos[t]]
<1>0. result' = [result EXCEPT ![t] =
          IF ~whole \/ @ = "short" THEN "short" ELSE IF pos[t] = last[t] THEN "image" ELSE @]
  <2>1. result[t] # "wrong"
    BY DEF ReadReturnsImage
  <2> QED BY <2>1 DEF Copied
<1>2. rest' = [rest EXCEPT ![t] = @ \ {pos[t]}]
  <2>1. CASE pos[t] = last[t]
    <3>1. /\ pc' = [pc EXCEPT ![t] = "offer"]
          /\ pos' = [pos EXCEPT ![t] = first[t]]
      BY <2>1 DEF Copied, Goto
    <3>2. pos[t] .. last[t] = {pos[t]}
      BY <1>1, <2>1
    <3>3. rest' = [u \in Readers |-> IF u = t THEN {} ELSE rest[u]]
      BY <3>1 DEF Copying, TypeOK
    <3>4. rest[t] \ {pos[t]} = {}
      BY <1>1, <3>2
    <3>5. rest' = [rest EXCEPT ![t] = rest[t] \ {pos[t]}]
      BY <3>3, <3>4
    <3> QED BY <2>1, <3>1, <3>5
  <2>2. CASE pos[t] # last[t]
    <3>1. pos' = [pos EXCEPT ![t] = pos[t] + 1]
      BY <2>2 DEF Copied
    <3>2. PICK p \in {"store", "cache"} : pc' = [pc EXCEPT ![t] = p]
      BY <2>2 DEF Copied, Goto
    <3>3. (pos[t] + 1) .. last[t] = (pos[t] .. last[t]) \ {pos[t]}
      BY <1>1
    <3>4. rest' = [rest EXCEPT ![t] = (pos[t] + 1) .. last[t]]
      BY <3>1, <3>2 DEF Copying, TypeOK
    <3> QED BY <1>1, <2>2, <3>1, <3>3, <3>4
  <2> QED BY <2>1, <2>2
<1>3. /\ pos[t] \in rest[t]
      /\ \A e \in rest[t] : pos[t] <= e
      /\ rest[t] = {pos[t]} <=> pos[t] = last[t]
  <2>1. pos[t] # last[t] => last[t] \in rest[t]
    BY <1>1
  <2> QED BY <1>1, <2>1
<1>4. Short' = Short \/ Short' = Short \cup {pos[t]}
  BY ShortGrows
<1>5. whole \/ pos[t] \in Short'
  BY ShortGrows
<1>6. whole \in BOOLEAN
  OBVIOUS
<1> HIDE DEF rest, whole
<1>7. result' = [result EXCEPT ![t] =
          IF ~whole \/ @ = "short" THEN "short" ELSE IF rest[t] = {pos[t]} THEN "image" ELSE @]
  BY <1>0, <1>3
<1> QED BY <1>2, <1>3, <1>4, <1>5, <1>6, <1>7 DEF Image!Serve, Image!BackendCuts, rest, Short

(* A reader's step serves a chunk, fails the read or does not show. *)
LEMMA ReaderShows ==
    ASSUME IInv, Remote, NEW t \in Readers, ReaderStep(t)
    PROVE  Image!Serve(t) \/ Image!Fail(t) \/ UNCHANGED Image!vars
<1>1. TypeOK /\ RangeInv /\ ReadReturnsImage
  BY DEF IInv, RemoteReads
<1>2. CASE ReadHit(t) \/ ReadCache(t)
  <2>1. pc[t] \in Copying /\ UNCHANGED <<first, last>>
    BY <1>2 DEF ReadHit, ReadCache, Copying
  <2>2. PICK d \in Digests :
          /\ Copied(t, d)
          /\ d = Content[pos[t]] \/ <<pos[t], d>> \in cut'
          /\ cut' = cut \/ cut' = cut \cup {<<pos[t], d>>}
    BY <1>2, BytesFit DEF IInv
  <2> QED BY <1>1, <2>1, <2>2, CopiedServes
<1>3. CASE ReadCacheFails(t)
  <2> DEFINE rest == [u \in Readers |-> IF pc[u] \in Copying THEN pos[u] .. last[u] ELSE {}]
  <2>1. rest[t] # {}
    <3>1. pc[t] = "cache" /\ pos[t] <= last[t]
      BY <1>1, <1>3 DEF ReadCacheFails, RangeInv
    <3>2. pos[t] \in Int /\ last[t] \in Int
      BY <1>1, ChunkFacts DEF TypeOK
    <3>3. pos[t] \in pos[t] .. last[t]
      BY <3>1, <3>2
    <3> QED BY <3>1, <3>3 DEF Copying
  <2>2. /\ pc' = [pc EXCEPT ![t] = "idle"]
        /\ \A u \in Readers \ {t} : UNCHANGED <<pos[u], last[u]>>
        /\ result' = [result EXCEPT ![t] = "error"]
        /\ UNCHANGED cut
    BY <1>1, <1>3 DEF ReadCacheFails, Return, Goto, TypeOK, Fail
  <2>3. rest' = [u \in Readers |-> IF u = t THEN {} ELSE rest[u]]
    BY <1>1, <2>2 DEF Copying, TypeOK
  <2>4. rest' = [rest EXCEPT ![t] = {}]
    BY <2>3
  <2> QED BY <2>1, <2>2, <2>4 DEF Image!Fail
<1>4. CASE ReadMiss(t) \/ Prefetch(t) \/ ReadFallback(t) \/ ReadStoreFails(t)
  <2>1. /\ pc[t] \in Copying
        /\ \E p \in Copying : pc' = [pc EXCEPT ![t] = p]
        /\ UNCHANGED <<result, pos, last, cut>>
    BY <1>4 DEF ReadMiss, Prefetch, ReadFallback, ReadStoreFails, Goto, Copying, history, Fail
  <2> QED BY <1>1, <2>1, NotShown DEF TypeOK
<1>5. CASE Offer(t) \/ Mark(t)
  <2>1. pc[t] \notin Copying /\ UNCHANGED <<result, cut>>
    BY <1>5 DEF Offer, Mark, Copying, history
  <2>2. /\ \E p \in {"idle", "offer", "mark"} : pc' = [pc EXCEPT ![t] = p]
        /\ \A u \in Readers \ {t} : UNCHANGED <<pos[u], last[u]>>
    BY <1>1, <1>5 DEF Offer, Mark, NextOffer, Return, Goto, TypeOK
  <2> QED BY <1>1, <2>1, <2>2, NotShown DEF TypeOK, Copying
<1> QED BY <1>2, <1>3, <1>4, <1>5 DEF ReaderStep

(* Every step of the mount. *)
LEMMA StepRefines ==
    ASSUME IInv, Remote, [Next]_vars
    PROVE  [Image!Next]_Image!vars
<1>1. TypeOK
  BY DEF IInv
<1>2. ASSUME NEW t \in Readers, NEW a \in Chunks, NEW b \in Chunks, a <= b, BeginRead(t, a, b)
      PROVE  Image!Begin(t)
  <2>1. PICK p \in Copying : pc' = [pc EXCEPT ![t] = p]
    BY <1>2 DEF BeginRead, Goto, Copying
  <2>2. /\ pc[t] = "idle"
        /\ last' = [last EXCEPT ![t] = b]
        /\ pos' = [pos EXCEPT ![t] = a]
        /\ result' = [result EXCEPT ![t] = "none"]
        /\ UNCHANGED cut
    BY <1>2 DEF BeginRead, history, Fail
  <2> DEFINE rest == [u \in Readers |-> IF pc[u] \in Copying THEN pos[u] .. last[u] ELSE {}]
  <2>3. rest[t] = {}
    BY <2>2 DEF Copying
  <2>4. rest' = [u \in Readers |-> IF u = t THEN a .. b ELSE rest[u]]
    BY <1>1, <2>1, <2>2 DEF Copying, TypeOK
  <2>5. rest' = [rest EXCEPT ![t] = a .. b]
    BY <2>4
  <2> QED BY <1>2, <2>2, <2>3, <2>5 DEF Image!Begin
<1>3. ASSUME NEW t \in Readers, ReaderStep(t)
      PROVE  [Image!Next]_Image!vars
  BY <1>3, ReaderShows DEF Image!Next
<1>4. CASE UNCHANGED <<readerVars, cut>>
  BY <1>4 DEF Image!vars, readerVars
<1>5. ASSUME NEW c \in Chunks, NEW d \in Digests, CacheRead(c, d), UNCHANGED readerVars
      PROVE  [Image!Next]_Image!vars
  <2>1. cut' = cut \/ cut' = cut \cup {<<c, d>>}
    BY <1>5 DEF CacheRead, history
  <2>2. CASE Short' = Short
    BY <1>5, <2>2 DEF Image!vars, readerVars, Short
  <2>3. CASE Short' = Short \cup {c}
    BY <1>5, <2>3 DEF Image!Next, Image!Fetch, Image!BackendCuts, readerVars, Short
  <2> QED BY <2>1, <2>2, <2>3, ShortGrows
<1>6. CASE DedupStep
  <2>1. CASE DedupFetch
    BY <1>1, <1>5, <2>1 DEF DedupFetch, TypeOK
  <2>2. CASE ~DedupFetch
    BY <1>4, <1>6, <2>2 DEF DedupStep, DedupTake, DedupCheck, DedupFetchFails, DedupStore,
       DedupStoreFails, DedupIndex, DedupIndexFails, DedupGc, history, Fail
  <2> QED BY <2>1, <2>2
<1>7. CASE SyncStep
  <2>1. CASE SyncFetch
    <3>1. sync[1] \in Chunks
      BY <1>1 DEF TypeOK
    <3> QED BY <1>5, <2>1, <3>1 DEF SyncFetch
  <2>2. CASE ~SyncFetch
    BY <1>4, <1>7, <2>2 DEF SyncStep, SyncTake, SyncStore, SyncFails, SyncGc, history, Fail
  <2> QED BY <2>1, <2>2
<1>8. CASE Collect \/ UNCHANGED vars
  BY <1>4, <1>8 DEF Collect, vars, history
<1>9. CASE Restart
  BY <1>9 DEF Restart, Image!Next, Image!Restart, Copying
<1> QED BY <1>2, <1>3, <1>6, <1>7, <1>8, <1>9 DEF Next, Image!Next
-----------------------------------------------------------------------------
(* The theorems. *)

(* IInv holds in every reachable state of the mount process, whatever fails,  *)
(* is collected or is restarted.                                              *)
THEOREM Invariance == Spec => []IInv
<1>1. Init => IInv
  <2> SUFFICES ASSUME Init PROVE IInv
    OBVIOUS
  <2>1. TypeOK
    BY ChunkFacts DEF Init, TypeOK
  <2>2. HoleInv
    BY DEF Init, HoleInv, Fits
  <2> QED BY <2>1, <2>2 DEF Init, IInv, RangeInv, IndexIsTruthful, FoundInv, WorkerInv, KeptInv,
             RemoteReads, ReadReturnsImage
<1>2. IInv /\ [Next]_vars => IInv'
  <2> SUFFICES ASSUME IInv, [Next]_vars PROVE IInv'
    OBVIOUS
  <2>1. TypeOK' /\ RangeInv' /\ FoundInv'
    BY TypeStep, LocalsStep DEF IInv
  <2>2. IndexIsTruthful' /\ WorkerInv' /\ HoleInv' /\ KeptInv'
    BY StoresStep DEF IInv, StoresInv
  <2>3. RemoteReads'
    BY ReadsStep DEF IInv
  <2> QED BY <2>1, <2>2, <2>3 DEF IInv
<1> QED BY <1>1, <1>2, PTL DEF Spec

(* The queues stay within their bounds and every chunk number in the image. *)
THEOREM TypeCorrect == Spec => []TypeOK
<1>1. IInv => TypeOK
  BY DEF IInv
<1> QED BY <1>1, Invariance, PTL

(* A record of IndexDB names the bytes the image has there: dedup never      *)
(* computes a checksum over a hole it punched, or over a short read, unless  *)
(* the cache itself has the chunk from a fetch that the backend cut short.   *)
THEOREM RecordsAreTruthful == Spec => []IndexIsTruthful
<1>1. IInv => IndexIsTruthful
  BY DEF IInv
<1> QED BY <1>1, Invariance, PTL

(* With a backend behind the cache every successful read returns the image,  *)
(* or for a chunk that the backend once cut short those bytes, whatever      *)
(* ChunkDB has lost and whatever has been dropped from the cache.            *)
THEOREM RemoteReadsAreSound == Remote => (Spec => []ReadReturnsImage)
<1> SUFFICES ASSUME Remote PROVE Spec => []ReadReturnsImage
  OBVIOUS
<1>1. IInv => ReadReturnsImage
  BY DEF IInv, RemoteReads
<1> QED BY <1>1, Invariance, PTL

(* With a backend behind the cache the mount implements the image store:     *)
(* every chunk of a read is handed out once, in order, with the image's      *)
(* bytes or what a short fetch of it once left, however the copies in ChunkDB, at peers and in the cache come and  *)
(* go, and a read that succeeds has handed out all of them.                  *)
THEOREM Refinement == Remote => (Spec => ImplementsImageStore)
<1> SUFFICES ASSUME Remote PROVE Spec => ImplementsImageStore
  OBVIOUS
<1>1. Init => Image!Init
  BY DEF Init, Image!Init, Copying
<1>2. IInv /\ [Next]_vars => [Image!Next]_Image!vars
  BY StepRefines
<1> QED BY <1>1, <1>2, Invariance, PTL DEF Spec, ImplementsImageStore, Image!Spec

(* A local image may have its file as the only copy.  Every chunk punched    *)
(* out of the file is in ChunkDB, or ChunkDB was made to delete it: failing  *)
(* transactions and restarts between storing, recording and dropping lose    *)
(* nothing.                                                                  *)
THEOREM LocalImageIsKept == ~Remote => (Spec => []NothingIsLost)
<1> SUFFICES ASSUME ~Remote PROVE Spec => []NothingIsLost
  OBVIOUS
<1>1. IInv => NothingIsLost
  <2> SUFFICES ASSUME IInv, NEW c \in Chunks, file[c] = None
               PROVE  Content[c] \in store \cup collected
    BY DEF NothingIsLost
  <2>1. index[c] # None /\ index[c] = Content[c]
    BY DEF IInv, HoleInv, IndexIsTruthful, Fits
  <2> QED BY <2>1 DEF IInv, KeptInv
<1> QED BY <1>1, Invariance, PTL
=============================================================================
