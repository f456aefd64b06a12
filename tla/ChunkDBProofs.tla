--------------------------- MODULE ChunkDBProofs ---------------------------
(***************************************************************************)
(* Proofs about ChunkDB, for any number of processes, chunks and callers   *)
(* and any capacity, watermarks and batch sizes: what is stored fits, the  *)
(* LRU index knows every access record, garbage collection can reach every *)
(* chunk, and a clean stop loses no access time.                           *)
(***************************************************************************)
EXTENDS ChunkDB, FiniteSetTheorems, TLAPS

USE ChunkDBAssumption
USE DEF WriterPcs, GcPcs, Times, Keys

(* Taking chunks out of the data table leaves it within the map's room. *)
LEMMA DeleteFits ==
    ASSUME TypeOK, NEW S
    PROVE  (data \ S) \in SUBSET Chunks /\ Cardinality(data \ S) <= Capacity
<1>1. IsFiniteSet(data)
  BY FS_Subset DEF TypeOK
<1>2. Cardinality(data \ S) <= Cardinality(data) /\ IsFiniteSet(data \ S)
  BY <1>1, FS_Subset
<1>3. Cardinality(data \ S) \in Nat /\ Cardinality(data) \in Nat
  BY <1>1, <1>2, FS_CardinalityType
<1> QED BY <1>2, <1>3 DEF TypeOK

(* Deleting keys keeps the tables' types, and every access record indexed. *)
LEMMA DeleteKeysStep ==
    ASSUME TypeOK, NEW K \in SUBSET Keys, DeleteKeys(K)
    PROVE  /\ data' \in SUBSET Chunks /\ Cardinality(data') <= Capacity
           /\ access' \in [Chunks -> 0 .. MaxTime]
           /\ index' \in SUBSET Keys
           /\ AccessIsIndexed => AccessIsIndexed'
           /\ \A c \in data' : c \in data /\ access'[c] = access[c]
<1>1. data' \in SUBSET Chunks /\ Cardinality(data') <= Capacity
  BY DeleteFits DEF DeleteKeys
<1>2. /\ access' \in [Chunks -> 0 .. MaxTime]
      /\ index' \in SUBSET Keys
  BY DEF DeleteKeys, TypeOK
<1>3. \A c \in Chunks : access'[c] # 0 => access'[c] = access[c] /\ c \notin ChunksOf(K)
  BY DEF DeleteKeys
<1>4. \A c \in Chunks : c \notin ChunksOf(K) => <<access[c], c>> \notin K
  BY DEF ChunksOf
<1>5. AccessIsIndexed => AccessIsIndexed'
  BY <1>3, <1>4 DEF AccessIsIndexed, DeleteKeys
<1>6. \A c \in data' : c \in data /\ access'[c] = access[c]
  BY <1>1 DEF DeleteKeys
<1> QED BY <1>1, <1>2, <1>5, <1>6

(* update_access keeps the tables' types and every record indexed, and     *)
(* leaves every chunk of the batch with a record.                          *)
LEMMA UpdateAccessStep ==
    ASSUME TypeOK, NEW B \in SUBSET Chunks, NEW t \in Times, UpdateAccess(B, t)
    PROVE  /\ access' \in [Chunks -> 0 .. MaxTime]
           /\ index' \in SUBSET Keys
           /\ AccessIsIndexed => AccessIsIndexed'
           /\ \A c \in B : access'[c] # 0
           /\ \A c \in Chunks : access[c] # 0 => access'[c] # 0
<1> DEFINE S == {c \in B : Restamped(c, t)}
<1>1. /\ access' = [c \in Chunks |-> IF c \in S THEN t ELSE access[c]]
      /\ index' = (index \ {<<access[c], c>> : c \in S}) \cup {<<t, c>> : c \in S}
  BY DEF UpdateAccess
<1>2. S \subseteq Chunks /\ \A c \in B : c \notin S => access[c] # 0
  BY DEF Restamped
<1> HIDE DEF S
<1>3. access' \in [Chunks -> 0 .. MaxTime] /\ index' \in SUBSET Keys
  BY <1>1, <1>2 DEF TypeOK
<1>4. ASSUME AccessIsIndexed PROVE AccessIsIndexed'
  <2> SUFFICES ASSUME NEW c \in Chunks, access'[c] # 0
               PROVE  <<access'[c], c>> \in index'
    BY DEF AccessIsIndexed
  <2>1. CASE c \in S
    BY <2>1, <1>1
  <2>2. CASE c \notin S
    <3>1. <<access[c], c>> \in index /\ access'[c] = access[c]
      BY <2>2, <1>1, <1>4 DEF AccessIsIndexed
    <3>2. <<access[c], c>> \notin {<<access[d], d>> : d \in S}
      BY <2>2
    <3> QED BY <1>1, <3>1, <3>2
  <2> QED BY <2>1, <2>2
<1>5. \A c \in Chunks : c \in B \/ access[c] # 0 => access'[c] # 0
  BY <1>1, <1>2
<1> QED BY <1>3, <1>4, <1>5
-----------------------------------------------------------------------------
(* Type correctness. *)

(* Callers only fill the queues. *)
LEMMA CallersType ==
    ASSUME TypeOK, NEW p \in Procs,
           \/ \E B \in Additions : SubmitAdd(p, B)
           \/ \E c \in Chunks : ReadChunk(p, c)
           \/ DropDB(p) \/ Open(p)
    PROVE  TypeOK'
<1>1. CASE \E B \in Additions : SubmitAdd(p, B)
  BY <1>1 DEF TypeOK, SubmitAdd, tables, writer, gcVars
<1>2. CASE \E c \in Chunks : ReadChunk(p, c)
  BY <1>2 DEF TypeOK, ReadChunk, tables, writer, gcVars
<1>3. CASE DropDB(p)
  BY <1>3 DEF TypeOK, DropDB, tables, writer, gcVars
<1>4. CASE Open(p)
  BY <1>4 DEF TypeOK, Open, tables
<1> QED BY <1>1, <1>2, <1>3, <1>4

(* The writer thread's steps: only a transaction touches the tables. *)
LEMMA WriterType ==
    ASSUME TypeOK, NEW p \in Procs, WriterStep(p)
    PROVE  TypeOK'
<1>1. CASE Drain(p)
  BY <1>1 DEF TypeOK, Drain, tables, gcVars
<1>2. CASE RegisterAdded(p)
  BY <1>2 DEF TypeOK, RegisterAdded, Register, tables, gcVars
<1>3. CASE EvictCommit(p)
  <2>1. wKeys[p] \in SUBSET Keys /\ DeleteKeys(wKeys[p])
    BY <1>3 DEF EvictCommit, TypeOK
  <2>2. /\ data' \in SUBSET Chunks /\ Cardinality(data') <= Capacity
        /\ access' \in [Chunks -> 0 .. MaxTime]
        /\ index' \in SUBSET Keys
    BY <2>1, DeleteKeysStep
  <2> QED BY <1>3, <2>2 DEF TypeOK, EvictCommit, queues, gcVars
<1>4. CASE EvictUnregister(p)
  BY <1>4 DEF TypeOK, EvictUnregister, Unregister, tables, queues, gcVars
<1>5. CASE ProcessDelete(p)
  <2>1. wMedium[p] \in SUBSET Keys /\ DeleteKeys(wMedium[p])
    BY <1>5 DEF ProcessDelete, TypeOK
  <2>2. /\ data' \in SUBSET Chunks /\ Cardinality(data') <= Capacity
        /\ access' \in [Chunks -> 0 .. MaxTime]
        /\ index' \in SUBSET Keys
    BY <2>1, DeleteKeysStep
  <2> QED BY <1>5, <2>2 DEF TypeOK, ProcessDelete, queues, gcVars
<1>6. CASE BeginAccess(p)
  BY <1>6 DEF TypeOK, BeginAccess, tables, queues, gcVars
<1>7. CASE CommitAccess(p)
  <2>1. PICK B \in SUBSET wPending[p] :
          /\ \/ UpdateAccess(B, wNow[p]) /\ UNCHANGED lost
             \/ p \in Failing /\ lost' = lost \cup B /\ UNCHANGED <<access, index>>
          /\ Yield(p, wPending[p] \ B)
    BY <1>7 DEF CommitAccess
  <2>2. B \in SUBSET Chunks /\ wNow[p] \in Times
    BY <2>1 DEF TypeOK
  <2>3. /\ access' \in [Chunks -> 0 .. MaxTime]
        /\ index' \in SUBSET Keys
        /\ lost' \in SUBSET Chunks
    BY <2>1, <2>2, UpdateAccessStep DEF TypeOK
  <2>4. /\ pending' \in [Procs -> SUBSET Chunks]
        /\ wPending' \in [Procs -> SUBSET Chunks]
    <3>1. wPending[p] \ B \in SUBSET Chunks /\ pending[p] \cup (wPending[p] \ B) \in SUBSET Chunks
      BY DEF TypeOK
    <3>2. CASE /\ wPending' = [wPending EXCEPT ![p] = {}]
               /\ pending' = [pending EXCEPT ![p] = @ \cup (wPending[p] \ B)]
      BY <3>1, <3>2 DEF TypeOK
    <3>3. CASE /\ wPending' = [wPending EXCEPT ![p] = wPending[p] \ B]
               /\ UNCHANGED pending
      BY <3>1, <3>3 DEF TypeOK
    <3> QED BY <2>1, <3>2, <3>3 DEF Yield
  <2> QED BY <1>7, <2>3, <2>4 DEF TypeOK, CommitAccess, gcVars
<1>8. CASE EndCycle(p)
  BY <1>8 DEF TypeOK, EndCycle, tables, queues, gcVars
<1>9. CASE DeleteFails(p)
  BY <1>9 DEF TypeOK, DeleteFails, tables, queues
<1>10. ASSUME NEW B \in Additions, CommitAdd(p, B)
       PROVE  TypeOK'
  <2>1. B \in SUBSET Chunks
    BY DEF Additions
  <2>2. data' \in SUBSET Chunks /\ Cardinality(data') <= Capacity
    BY <1>10, <2>1 DEF CommitAdd, HasRoom, TypeOK
  <2> QED BY <1>10, <2>1, <2>2 DEF TypeOK, CommitAdd, queues, gcVars
<1>11. ASSUME NEW B \in Additions, AddMapFull(p, B) \/ AddFails(p, B)
       PROVE  TypeOK'
  <2>1. PICK T \in SUBSET Keys :
          /\ wHigh' = wHigh \/ wHigh' = [wHigh EXCEPT ![p] = wHigh[p] \ {B}]
          /\ wKeys' = wKeys \/ wKeys' = [wKeys EXCEPT ![p] = T]
    <3>1. index \in SUBSET Keys /\ {} \in SUBSET Keys
      BY DEF TypeOK
    <3>2. CASE AddMapFull(p, B)
      BY <3>1, <3>2 DEF AddMapFull
    <3>3. CASE AddFails(p, B)
      BY <3>1, <3>3 DEF AddFails
    <3> QED BY <1>11, <3>2, <3>3
  <2>2. wHigh[p] \ {B} \in SUBSET Additions
    BY DEF TypeOK
  <2>3. wHigh' \in [Procs -> SUBSET Additions]
    BY <2>1, <2>2 DEF TypeOK
  <2>4. wKeys' \in [Procs -> SUBSET Keys]
    BY <2>1 DEF TypeOK
  <2>5. wpc' \in [Procs -> WriterPcs]
    BY <1>11 DEF TypeOK, AddMapFull, AddFails
  <2> QED BY <1>11, <2>3, <2>4, <2>5 DEF TypeOK, AddMapFull, AddFails, tables, queues, gcVars
<1> QED
  BY <1>1, <1>2, <1>3, <1>4, <1>5, <1>6, <1>7, <1>8, <1>9, <1>10, <1>11 DEF WriterStep

(* GcWorker's steps, the clock and a kill. *)
LEMMA GcType ==
    ASSUME TypeOK, NEW g \in GcProcs, GcStep(g)
    PROVE  TypeOK'
<1> g \in Procs
  OBVIOUS
<1>1. CASE GcStart(g)
  BY <1>1 DEF TypeOK, GcStart, tables, queues, writer
<1>2. CASE GcSubmit(g)
  <2>1. CASE gKeys[g] = {}
    <3>1. gpc' \in [GcProcs -> GcPcs]
      BY <1>2, <2>1 DEF TypeOK, GcSubmit, GcPcs
    <3> QED BY <1>2, <2>1, <3>1 DEF TypeOK, GcSubmit, tables, writer
  <2>2. CASE gKeys[g] # {}
    <3>1. PICK T \in SUBSET gKeys[g] :
            /\ medium' = [medium EXCEPT ![g] = T]
            /\ gKeys' = [gKeys EXCEPT ![g] = gKeys[g] \ T]
            /\ gDeleted' = [gDeleted EXCEPT ![g] = gDeleted[g] \cup T]
      BY <1>2, <2>2 DEF GcSubmit
    <3>2. /\ T \in SUBSET Keys /\ gKeys[g] \ T \in SUBSET Keys
          /\ gDeleted[g] \cup T \in SUBSET Keys
      BY DEF TypeOK
    <3>3. /\ medium' \in [Procs -> SUBSET Keys]
          /\ gKeys' \in [GcProcs -> SUBSET Keys]
          /\ gDeleted' \in [GcProcs -> SUBSET Keys]
      BY <3>1, <3>2 DEF TypeOK
    <3> QED BY <1>2, <2>2, <3>3 DEF TypeOK, GcSubmit, tables, writer
  <2> QED BY <2>1, <2>2
<1>3. CASE GcReply(g)
  BY <1>3 DEF TypeOK, GcReply, tables, queues, writer
<1>4. CASE GcUnregister(g)
  BY <1>4 DEF TypeOK, GcUnregister, Unregister, tables, queues, writer
<1>5. CASE GcUsage(g)
  <2>1. PICK T \in SUBSET index :
          /\ medium' = medium \/ medium' = [medium EXCEPT ![g] = T]
          /\ gDeleted' = gDeleted \/ gDeleted' = [gDeleted EXCEPT ![g] = T]
    BY <1>5 DEF GcUsage
  <2>2. T \in SUBSET Keys
    BY DEF TypeOK
  <2>3. medium' \in [Procs -> SUBSET Keys] /\ gDeleted' \in [GcProcs -> SUBSET Keys]
    BY <2>1, <2>2 DEF TypeOK
  <2> QED BY <1>5, <2>3 DEF TypeOK, GcUsage, tables, writer
<1> QED BY <1>1, <1>2, <1>3, <1>4, <1>5 DEF GcStep

LEMMA SystemType ==
    ASSUME TypeOK, Tick \/ (\E p \in Procs : Kill(p)) \/ UNCHANGED vars
    PROVE  TypeOK'
<1>1. CASE Tick
  BY <1>1 DEF TypeOK, Tick, tables, queues, writer, gcVars
<1>2. CASE \E p \in Procs : Kill(p)
  <2>1. PICK p \in Procs : Kill(p)
    BY <1>2
  <2>2. lost' \in SUBSET Chunks
    BY <2>1 DEF Kill, TypeOK
  <2>3. /\ gpc' \in [GcProcs -> GcPcs]
        /\ gKeys' \in [GcProcs -> SUBSET Keys]
        /\ gDeleted' \in [GcProcs -> SUBSET Keys]
    BY <2>1 DEF Kill, TypeOK
  <2>4. /\ data' \in SUBSET Chunks /\ Cardinality(data') <= Capacity
        /\ access' \in [Chunks -> 0 .. MaxTime]
        /\ index' \in SUBSET Keys
        /\ registered' \in SUBSET Chunks
        /\ now' \in Times
    BY <2>1 DEF Kill, TypeOK, tables
  <2>5. high' \in [Procs -> SUBSET Additions] /\ wHigh' \in [Procs -> SUBSET Additions]
    BY <2>1 DEF Kill, TypeOK
  <2>6. /\ medium' \in [Procs -> SUBSET Keys]
        /\ pending' \in [Procs -> SUBSET Chunks]
        /\ stop' \in [Procs -> BOOLEAN]
    BY <2>1 DEF Kill, TypeOK
  <2>7. /\ wpc' \in [Procs -> WriterPcs]
        /\ wMedium' \in [Procs -> SUBSET Keys]
        /\ wPending' \in [Procs -> SUBSET Chunks]
        /\ wChunks' \in [Procs -> SUBSET Chunks]
        /\ wKeys' \in [Procs -> SUBSET Keys]
        /\ wNow' \in [Procs -> Times]
        /\ wStop' \in [Procs -> BOOLEAN]
    BY <2>1 DEF Kill, TypeOK
  <2> QED BY <2>2, <2>3, <2>4, <2>5, <2>6, <2>7 DEF TypeOK
<1>3. CASE UNCHANGED vars
  BY <1>3 DEF TypeOK, vars, tables, queues, writer, gcVars
<1> QED BY <1>1, <1>2, <1>3

LEMMA NextType == TypeOK /\ [Next]_vars => TypeOK'
  BY CallersType, WriterType, GcType, SystemType DEF Next
-----------------------------------------------------------------------------
(* The order of the writer's rounds and of a clean stop. *)

(* Each step keeps what is drained and what stop means in order. *)
LEMMA NextOrder ==
    ASSUME TypeOK, DrainInv, StopInv, [Next]_vars
    PROVE  DrainInv' /\ StopInv'
<1> USE DEF DrainInv, StopInv, TypeOK
<1>1. ASSUME NEW p \in Procs, NEW B \in Additions, SubmitAdd(p, B)
      PROVE  DrainInv' /\ StopInv'
  BY <1>1 DEF SubmitAdd, Running, writer, gcVars
<1>2. ASSUME NEW p \in Procs, NEW c \in Chunks, ReadChunk(p, c)
      PROVE  DrainInv' /\ StopInv'
  BY <1>2 DEF ReadChunk, Running, writer, gcVars
<1>3. ASSUME NEW p \in Procs, DropDB(p)
      PROVE  DrainInv' /\ StopInv'
  BY <1>3 DEF DropDB, writer, gcVars
<1>4. ASSUME NEW p \in Procs, Open(p)
      PROVE  DrainInv' /\ StopInv'
  BY <1>4 DEF Open
<1>5. ASSUME NEW p \in Procs, Drain(p)
      PROVE  DrainInv' /\ StopInv'
  BY <1>5 DEF Drain, gcVars
<1>6. ASSUME NEW p \in Procs, RegisterAdded(p)
      PROVE  DrainInv' /\ StopInv'
  BY <1>6 DEF RegisterAdded, gcVars
<1>7. ASSUME NEW p \in Procs, EvictCommit(p) \/ EvictUnregister(p)
      PROVE  DrainInv' /\ StopInv'
  BY <1>7 DEF EvictCommit, EvictUnregister, queues, gcVars
<1>8. ASSUME NEW p \in Procs, ProcessDelete(p) \/ BeginAccess(p) \/ EndCycle(p)
      PROVE  DrainInv' /\ StopInv'
  <2>1. CASE ProcessDelete(p)
    BY <2>1 DEF ProcessDelete, queues, gcVars
  <2>2. CASE BeginAccess(p)
    BY <2>2 DEF BeginAccess, queues, gcVars
  <2>3. CASE EndCycle(p)
    <3>1. /\ wPending[p] = {} /\ wChunks[p] = {}
          /\ \A q \in Procs : q # p => wpc'[q] = wpc[q]
          /\ wpc'[p] = IF wStop[p] THEN "stopped" ELSE "idle"
          /\ UNCHANGED <<high, medium, pending, stop, wHigh, wMedium, wPending, wChunks, wStop, gpc>>
      BY <2>3 DEF EndCycle, queues, gcVars
    <3> QED BY <3>1
  <2> QED BY <1>8, <2>1, <2>2, <2>3
<1>9. ASSUME NEW p \in Procs, CommitAccess(p)
      PROVE  DrainInv' /\ StopInv'
  <2>1. PICK rest : Yield(p, rest)
    BY <1>9 DEF CommitAccess
  <2>2. /\ \A q \in Procs : wPending'[q] = wPending[q] \/ wpc[q] = "access"
        /\ stop[p] => pending' = pending
        /\ \A q \in Procs : q # p => pending'[q] = pending[q]
    BY <1>9, <2>1 DEF Yield, CommitAccess
  <2>3. UNCHANGED <<high, medium, stop, wpc, wHigh, wMedium, wChunks, wStop, gpc>>
    BY <1>9 DEF CommitAccess, gcVars
  <2> QED BY <2>2, <2>3
<1>10. ASSUME NEW p \in Procs, DeleteFails(p)
       PROVE  DrainInv' /\ StopInv'
  BY <1>10 DEF DeleteFails, queues
<1>11. ASSUME NEW p \in Procs, NEW B \in Additions,
              CommitAdd(p, B) \/ AddMapFull(p, B) \/ AddFails(p, B)
       PROVE  DrainInv' /\ StopInv'
  <2>1. CASE CommitAdd(p, B)
    BY <2>1 DEF CommitAdd, queues, gcVars
  <2>2. CASE AddFails(p, B)
    BY <2>2 DEF AddFails, queues, gcVars
  <2>3. CASE AddMapFull(p, B)
    <3>1. /\ ~stop[p]
          /\ \A q \in Procs : q # p => wpc'[q] = wpc[q] /\ wHigh'[q] = wHigh[q]
          /\ wpc[p] = "high" /\ wpc'[p] \in {"high", "evict"}
          /\ UNCHANGED <<high, medium, pending, stop, wMedium, wPending, wChunks, wStop, gpc>>
      BY <2>3 DEF AddMapFull, queues, gcVars
    <3> QED BY <3>1
  <2> QED BY <1>11, <2>1, <2>2, <2>3
<1>12. ASSUME NEW p \in Procs, Kill(p)
       PROVE  DrainInv' /\ StopInv'
  BY <1>12 DEF Kill
<1>13. ASSUME NEW g \in GcProcs, GcStep(g)
       PROVE  DrainInv' /\ StopInv'
  <2>1. CASE GcStart(g)
    BY <1>13, <2>1 DEF GcStart, Running, queues, writer
  <2>2. CASE GcSubmit(g) \/ GcUsage(g)
    <3>1. /\ g \in Procs /\ ~stop[g]
          /\ \A q \in Procs : q # g => medium'[q] = medium[q]
          /\ \A q \in GcProcs : q # g => gpc'[q] = gpc[q]
          /\ UNCHANGED <<high, pending, stop, wpc, wHigh, wMedium, wPending, wChunks, wStop>>
      BY <2>2 DEF GcSubmit, GcUsage, writer
    <3> QED BY <3>1
  <2>3. CASE GcReply(g) \/ GcUnregister(g)
    BY <1>13, <2>3 DEF GcReply, GcUnregister, queues, writer
  <2> QED BY <1>13, <2>1, <2>2, <2>3 DEF GcStep
<1>14. CASE Tick \/ UNCHANGED vars
  BY <1>14 DEF Tick, vars, queues, writer, gcVars
<1> QED
  BY <1>1, <1>2, <1>3, <1>4, <1>5, <1>6, <1>7, <1>8, <1>9, <1>10, <1>11, <1>12, <1>13, <1>14
     DEF Next, WriterStep
-----------------------------------------------------------------------------
(* The LRU index. *)

(* Only two transactions write the access tables: both keep every record   *)
(* indexed, and so does every other step.                                  *)
LEMMA NextIndexed ==
    ASSUME TypeOK, AccessIsIndexed, [Next]_vars
    PROVE  AccessIsIndexed'
<1>1. ASSUME NEW p \in Procs, EvictCommit(p) PROVE AccessIsIndexed'
  BY <1>1, DeleteKeysStep DEF EvictCommit, TypeOK
<1>2. ASSUME NEW p \in Procs, ProcessDelete(p) PROVE AccessIsIndexed'
  BY <1>2, DeleteKeysStep DEF ProcessDelete, TypeOK
<1>3. ASSUME NEW p \in Procs, CommitAccess(p) PROVE AccessIsIndexed'
  <2>1. PICK B \in SUBSET wPending[p] :
          UpdateAccess(B, wNow[p]) \/ UNCHANGED <<access, index>>
    BY <1>3 DEF CommitAccess
  <2>2. B \in SUBSET Chunks /\ wNow[p] \in Times
    BY DEF TypeOK
  <2> QED BY <2>1, <2>2, UpdateAccessStep DEF AccessIsIndexed
<1>4. ASSUME UNCHANGED <<access, index>> PROVE AccessIsIndexed'
  BY <1>4 DEF AccessIsIndexed
<1>5. ASSUME NEW p \in Procs, WriterStep(p) PROVE AccessIsIndexed'
  <2>1. \/ EvictCommit(p) \/ ProcessDelete(p) \/ CommitAccess(p)
        \/ UNCHANGED <<access, index>>
    BY <1>5 DEF WriterStep, Drain, RegisterAdded, EvictUnregister, BeginAccess, EndCycle,
                CommitAdd, AddMapFull, AddFails, DeleteFails, tables
  <2> QED BY <2>1, <1>1, <1>2, <1>3, <1>4
<1>6. ASSUME NEW g \in GcProcs, GcStep(g) PROVE AccessIsIndexed'
  BY <1>6, <1>4 DEF GcStep, GcStart, GcSubmit, GcReply, GcUnregister, GcUsage, tables
<1>7. ASSUME \/ \E p \in Procs : \/ \E B \in Additions : SubmitAdd(p, B)
                                 \/ \E c \in Chunks : ReadChunk(p, c)
                                 \/ DropDB(p) \/ Open(p) \/ Kill(p)
             \/ Tick \/ UNCHANGED vars
      PROVE  AccessIsIndexed'
  BY <1>7, <1>4 DEF SubmitAdd, ReadChunk, DropDB, Open, Kill, Tick, vars, tables
<1> QED BY <1>5, <1>6, <1>7 DEF Next
-----------------------------------------------------------------------------
(* Garbage collection reaches every chunk. *)

\* What of the bookkeeping is on its way in process p's queues.
Queued(p) == pending[p] \cup wPending[p] \cup wChunks[p]

(* A step keeps Collectable when every stored chunk was stored before and  *)
(* keeps its record, its place in a queue or its entry in lost.            *)
LEMMA KeepsCollectable ==
    ASSUME Collectable,
           \A c \in data' :
              \/ access'[c] # 0
              \/ \E q \in Procs : c \in Queued(q)'
              \/ c \in lost'
              \/ /\ c \in data
                 /\ access[c] # 0 => access'[c] # 0
                 /\ c \in lost => c \in lost'
                 /\ \A q \in Procs : c \in Queued(q) => c \in Queued(q)' \/ c \in lost' \/ access'[c] # 0
    PROVE  Collectable'
  BY DEF Collectable, Queued

(* Transactions that remove chunks. *)
LEMMA DeletionsCollectable ==
    ASSUME TypeOK, Collectable, NEW K \in SUBSET Keys, DeleteKeys(K),
           UNCHANGED <<lost, pending, wPending, wChunks>>
    PROVE  Collectable'
  BY DeleteKeysStep, KeepsCollectable DEF Queued

(* commit_access_batch, with or without yielding. *)
LEMMA CommitAccessCollectable ==
    ASSUME TypeOK, Collectable, NEW p \in Procs, CommitAccess(p)
    PROVE  Collectable'
<1>1. PICK B \in SUBSET wPending[p] :
        /\ \/ UpdateAccess(B, wNow[p]) /\ UNCHANGED lost
           \/ p \in Failing /\ lost' = lost \cup B /\ UNCHANGED <<access, index>>
        /\ Yield(p, wPending[p] \ B)
  BY DEF CommitAccess
<1>2. data' = data /\ wChunks' = wChunks /\ data \subseteq Chunks
  BY DEF CommitAccess, TypeOK
<1>3. B \in SUBSET Chunks /\ wNow[p] \in Times
  BY DEF TypeOK
<1>4. \A c \in Chunks : access[c] # 0 => access'[c] # 0
  BY <1>1, <1>3, UpdateAccessStep
<1>5. \A c \in B : access'[c] # 0 \/ c \in lost'
  BY <1>1, <1>3, UpdateAccessStep
<1>6. lost \subseteq lost'
  BY <1>1
<1>7. \A q \in Procs : q # p => wPending'[q] = wPending[q] /\ pending'[q] = pending[q]
  BY <1>1 DEF Yield, TypeOK
<1>8. \A c \in pending[p] \cup wPending[p] : c \in B \/ c \in pending'[p] \cup wPending'[p]
  BY <1>1 DEF Yield, TypeOK
<1>9. \A c \in Chunks, q \in Procs :
        c \in Queued(q) => c \in Queued(q)' \/ c \in lost' \/ access'[c] # 0
  BY <1>2, <1>5, <1>7, <1>8 DEF Queued
<1> QED BY <1>2, <1>4, <1>6, <1>9, KeepsCollectable

(* Every step. *)
LEMMA NextCollectable ==
    ASSUME TypeOK, Collectable, DrainInv, StopInv, [Next]_vars
    PROVE  Collectable'
<1>1. ASSUME UNCHANGED <<data, access, lost>>,
             \A q \in Procs : Queued(q) \subseteq Queued(q)'
      PROVE  Collectable'
  BY <1>1, KeepsCollectable
<1>2. ASSUME NEW p \in Procs, Drain(p) PROVE Collectable'
  <2>1. wPending[p] = {}
    BY <1>2 DEF Drain, DrainInv
  <2>2. \A q \in Procs : Queued(q) \subseteq Queued(q)'
    BY <1>2, <2>1 DEF Drain, Queued, TypeOK
  <2> QED BY <1>1, <1>2, <2>2 DEF Drain, tables
<1>3. ASSUME NEW p \in Procs, RegisterAdded(p) PROVE Collectable'
  <2>1. \A q \in Procs : Queued(q) \subseteq Queued(q)'
    BY <1>3 DEF RegisterAdded, Queued, TypeOK
  <2> QED BY <1>1, <1>3, <2>1 DEF RegisterAdded, tables
<1>4. ASSUME NEW p \in Procs, EvictCommit(p) PROVE Collectable'
  <2>1. wKeys[p] \in SUBSET Keys
    BY DEF TypeOK
  <2> QED BY <1>4, <2>1, DeletionsCollectable DEF EvictCommit, queues
<1>5. ASSUME NEW p \in Procs, ProcessDelete(p) PROVE Collectable'
  <2>1. wMedium[p] \in SUBSET Keys
    BY DEF TypeOK
  <2> QED BY <1>5, <2>1, DeletionsCollectable DEF ProcessDelete, queues
<1>6. ASSUME NEW p \in Procs, NEW B \in Additions, CommitAdd(p, B) PROVE Collectable'
  <2>1. wChunks[p] = {}
    BY <1>6 DEF CommitAdd, DrainInv
  <2>2. /\ data' = data \cup B
        /\ \A q \in Procs : Queued(q) \subseteq Queued(q)'
        /\ B \subseteq Queued(p)'
    BY <1>6, <2>1 DEF CommitAdd, Queued, TypeOK, queues
  <2> QED BY <1>6, <2>2, KeepsCollectable DEF CommitAdd
<1>7. ASSUME NEW p \in Procs, NEW c \in Chunks, ReadChunk(p, c) PROVE Collectable'
  <2>1. \A q \in Procs : Queued(q) \subseteq Queued(q)'
    BY <1>7 DEF ReadChunk, Queued, TypeOK, writer
  <2> QED BY <1>1, <1>7, <2>1 DEF ReadChunk, tables
<1>8. ASSUME NEW p \in Procs, Open(p) PROVE Collectable'
  <2>1. pending[p] = {}
    BY <1>8 DEF Open, StopInv
  <2>2. \A q \in Procs : Queued(q) \subseteq Queued(q)'
    BY <1>8, <2>1 DEF Open, Queued, TypeOK
  <2> QED BY <1>1, <1>8, <2>2 DEF Open, tables
<1>9. ASSUME NEW p \in Procs, Kill(p) PROVE Collectable'
  <2>1. /\ lost' = lost \cup Queued(p)
        /\ UNCHANGED <<data, access>>
    BY <1>9 DEF Kill, Queued, tables
  <2>2. \A q \in Procs : q # p => Queued(q)' = Queued(q)
    BY <1>9 DEF Kill, Queued, TypeOK
  <2> QED BY <2>1, <2>2, KeepsCollectable
<1>10. ASSUME UNCHANGED <<data, access, lost, pending, wPending, wChunks>> PROVE Collectable'
  BY <1>10, <1>1 DEF Queued
<1>11. ASSUME NEW p \in Procs, WriterStep(p) PROVE Collectable'
  <2>1. ASSUME \/ EvictUnregister(p) \/ BeginAccess(p) \/ EndCycle(p) \/ DeleteFails(p)
               \/ \E B \in Additions : AddMapFull(p, B) \/ AddFails(p, B)
        PROVE  Collectable'
    BY <2>1, <1>10 DEF EvictUnregister, BeginAccess, EndCycle, DeleteFails, AddMapFull, AddFails,
                       tables, queues
  <2> QED BY <1>11, <2>1, <1>2, <1>3, <1>4, <1>5, <1>6, CommitAccessCollectable DEF WriterStep
<1>12. ASSUME NEW g \in GcProcs, GcStep(g) PROVE Collectable'
  BY <1>12, <1>10 DEF GcStep, GcStart, GcSubmit, GcReply, GcUnregister, GcUsage, tables, queues,
                      writer
<1>13. ASSUME \/ \E p \in Procs : (\E B \in Additions : SubmitAdd(p, B)) \/ DropDB(p)
              \/ Tick \/ UNCHANGED vars
       PROVE  Collectable'
  BY <1>13, <1>10 DEF SubmitAdd, DropDB, Tick, vars, tables, queues, writer
<1> QED BY <1>7, <1>8, <1>9, <1>11, <1>12, <1>13 DEF Next
-----------------------------------------------------------------------------
(* One process, with no collector and a chunk index that answers. *)

\* Nobody but process p has the database open, and it is not killed.
Alone(p) == Procs = {p} /\ GcProcs = {} /\ Faulty = {}

(* The writer's own steps: nothing is evicted between the commit of an     *)
(* addition and its registration, nor registered between an eviction and   *)
(* its unregistration.                                                     *)
LEMMA SoleWriterStep ==
    ASSUME NEW p, Alone(p), TypeOK, SoleWriterInv(p), WriterStep(p)
    PROVE  SoleWriterInv(p)'
<1> p \in Procs /\ p \notin Faulty /\ p \notin GcProcs
  BY DEF Alone
<1> USE DEF SoleWriterInv
<1>1. CASE Drain(p)
  BY <1>1 DEF Drain, TypeOK, tables
<1>2. CASE RegisterAdded(p)
  <2>1. registered' = registered \cup wChunks[p] /\ wpc'[p] = "high"
    BY <1>2 DEF RegisterAdded, Register, TypeOK
  <2> QED BY <1>2, <2>1 DEF RegisterAdded, tables
<1>3. CASE EvictCommit(p)
  <2>1. wpc'[p] = "unregister" /\ data' = data \ ChunksOf(wKeys[p])
    BY <1>3 DEF EvictCommit, DeleteKeys, TypeOK
  <2>2. UNCHANGED <<registered, wKeys, medium, wMedium>>
    BY <1>3 DEF EvictCommit, queues
  <2>3. ChunksOf(wKeys[p])' = ChunksOf(wKeys[p])
    BY <2>2 DEF ChunksOf
  <2> QED BY <1>3, <2>1, <2>2, <2>3 DEF EvictCommit
<1>4. CASE EvictUnregister(p)
  <2>1. registered' = registered \ ChunksOf(wKeys[p]) /\ wpc'[p] = "high"
    BY <1>4 DEF EvictUnregister, Unregister, TypeOK
  <2> QED BY <1>4, <2>1 DEF EvictUnregister, tables, queues
<1>5. CASE ProcessDelete(p) \/ DeleteFails(p)
  BY <1>5 DEF ProcessDelete, DeleteFails
<1>6. CASE BeginAccess(p)
  BY <1>6 DEF BeginAccess, TypeOK, tables, queues
<1>7. CASE CommitAccess(p)
  BY <1>7 DEF CommitAccess, TypeOK
<1>8. CASE EndCycle(p)
  <2>1. wpc[p] = "access" /\ wpc'[p] \in {"stopped", "idle"}
    BY <1>8 DEF EndCycle, TypeOK
  <2> QED BY <1>8, <2>1 DEF EndCycle, tables, queues
<1>9. ASSUME NEW B \in Additions, CommitAdd(p, B)
      PROVE  SoleWriterInv(p)'
  BY <1>9 DEF CommitAdd, TypeOK, queues
<1>10. ASSUME NEW B \in Additions, AddMapFull(p, B) \/ AddFails(p, B)
       PROVE  SoleWriterInv(p)'
  <2>1. wpc[p] \in {"high", "evict"} /\ wpc'[p] \in {"high", "evict"}
    BY <1>10 DEF AddMapFull, AddFails, TypeOK
  <2>2. UNCHANGED <<data, registered, medium, wMedium>>
    BY <1>10 DEF AddMapFull, AddFails, tables, queues
  <2> QED BY <2>1, <2>2
<1> QED
  BY <1>1, <1>2, <1>3, <1>4, <1>5, <1>6, <1>7, <1>8, <1>9, <1>10 DEF WriterStep

(* Every step of the process, its callers and the clock. *)
LEMMA NextSoleWriter ==
    ASSUME NEW p, Alone(p), TypeOK, SoleWriterInv(p), [Next]_vars
    PROVE  SoleWriterInv(p)'
<1> p \in Procs /\ (\A q \in Procs : q = p) /\ Faulty = {} /\ GcProcs = {}
  BY DEF Alone
<1>1. CASE WriterStep(p)
  BY <1>1, SoleWriterStep
<1>2. ASSUME UNCHANGED <<data, registered, medium, wpc, wMedium, wChunks, wKeys>>
      PROVE  SoleWriterInv(p)'
  BY <1>2 DEF SoleWriterInv, ChunksOf
<1>3. CASE \/ (\E B \in Additions : SubmitAdd(p, B)) \/ (\E c \in Chunks : ReadChunk(p, c))
           \/ DropDB(p) \/ Tick \/ UNCHANGED vars
  BY <1>2, <1>3 DEF SubmitAdd, ReadChunk, DropDB, Tick, vars, tables, queues, writer
<1>4. CASE Open(p)
  BY <1>4 DEF Open, SoleWriterInv, TypeOK, tables
<1> QED BY <1>1, <1>3, <1>4 DEF Next, Kill
-----------------------------------------------------------------------------
(* The theorems. *)

(* Initially the tables and the queues are empty. *)
LEMMA InitIInv == Init => IInv
<1> SUFFICES ASSUME Init PROVE IInv
  OBVIOUS
<1>1. TypeOK
  <2>1. Cardinality({}) = 0
    BY FS_EmptySet
  <2> QED BY <2>1 DEF Init, TypeOK
<1> QED BY <1>1 DEF Init, IInv, AccessIsIndexed, Collectable, DrainInv, StopInv

(* The inductive invariant holds in every reachable state. *)
THEOREM Invariance == Spec => []IInv
<1>1. IInv /\ [Next]_vars => IInv'
  BY NextType, NextIndexed, NextOrder, NextCollectable DEF IInv
<1> QED BY <1>1, InitIInv, PTL DEF Spec

(* Type correctness: whatever the processes do, what the data table holds  *)
(* fits the LMDB map, because an addition that would not is refused.       *)
THEOREM TypeCorrect == Spec => []TypeOK
<1>1. IInv => TypeOK BY DEF IInv
<1> QED BY <1>1, Invariance, PTL

(* Every access record has its key in the LRU index, however the updates   *)
(* and deletions of the processes interleave.                              *)
THEOREM RecordsAreIndexed == Spec => []AccessIsIndexed
<1>1. IInv => AccessIsIndexed BY DEF IInv
<1> QED BY <1>1, Invariance, PTL

(* Every stored chunk can be reached by garbage collection, or will be     *)
(* once a queue is worked off; the exceptions are in lost.                 *)
THEOREM ChunksAreCollectable == Spec => []Collectable
<1>1. IInv => Collectable BY DEF IInv
<1> QED BY <1>1, Invariance, PTL

(* A ChunkDB that is dropped has written every access time queued before.  *)
THEOREM StopsAreClean == Spec => []CleanStopLosesNothing
<1>1. IInv => CleanStopLosesNothing BY DEF IInv, StopInv, CleanStopLosesNothing
<1> QED BY <1>1, Invariance, PTL

(* A process that has the database to itself, whose transactions may fail  *)
(* but whose chunk index answers, lists only chunks that it stores, except *)
(* those it has just evicted and is about to unregister.  With a second    *)
(* process this is false: it may evict between the other's commit and the  *)
(* registration.                                                           *)
THEOREM SoleWriterRegisters ==
    ASSUME NEW p, Alone(p)
    PROVE  Spec => []RegisteredIsStored
<1>1. Init => SoleWriterInv(p)
  BY DEF Init, SoleWriterInv, Alone
<1>2. TypeOK /\ SoleWriterInv(p) /\ [Next]_vars => SoleWriterInv(p)'
  BY NextSoleWriter
<1>3. SoleWriterInv(p) => RegisteredIsStored
  BY DEF SoleWriterInv, RegisteredIsStored, Alone
<1> QED BY <1>1, <1>2, <1>3, TypeCorrect, PTL DEF Spec
=============================================================================
