-------------------------- MODULE ChunkIndexProofs --------------------------
(***************************************************************************)
(* Two promises of the chunk index for any number of chunks, nodes and     *)
(* tasks and any lifetime: entries that are refreshed do not lapse, and    *)
(* deleted chunks do not stay listed.                                      *)
(***************************************************************************)
EXTENDS ChunkIndex, NaturalsInduction, WellFoundedInduction, TLAPS

(* Refreshing: a turn of the loop is in its refresh.                       *)
Refreshing == pc[Loop] \in {"batch", "register"} /\ ~repairing

(* A chunk the refresh has still to come to.                               *)
Waiting(c) == c \in rest \/ (pc[Loop] = "register" /\ c \in todo[Loop])

(* Control tasks alone unregister, only a repair looks owners up, and the  *)
(* loop's timers fire in time.                                             *)
LoopInv ==
    /\ \A t \in Tasks : pc[t] = "unregister" => t \in Control
    /\ pc[Loop] \in {"lookup", "found"} => repairing
    /\ pc[Loop] = "jitter" => elapsed <= RefreshInterval
    /\ Refreshing => elapsed <= Spread

(* No time passes between a script and its tracking.                       *)
SampleInv ==
    \A t \in Tasks : pc[t] = "register" => \A c \in done[t] : owners[c][Self] <= 0

(* Whole intervals, before the one that runs, in which an entry may have   *)
(* been left alone.                                                        *)
Lag == IF missed = 0 THEN 0 ELSE RefreshInterval

(* How old the entry of a chunk may be.                                    *)
AgeBound(c) ==
    /\ pc[Loop] = "jitter" => owners[c][Self] <= elapsed
    /\ Refreshing /\ ~Waiting(c) => owners[c][Self] <= elapsed
    /\ Refreshing /\ missed <= 1 => owners[c][Self] <= Lag + RefreshInterval + elapsed
    /\ ~Refreshing /\ missed <= 1 => owners[c][Self] <= Lag + elapsed

AgeInv ==
    /\ renewed \subseteq tracker
    /\ pc[Loop] = "jitter" => missed = 1
    /\ \A c \in renewed : AgeBound(c)

(* A chunk that is neither stored nor excused is forgotten, or one task    *)
(* that unregisters it has it in hand and nobody else.                     *)
Forgotten(c) ==
    /\ owners[c][Self] = Absent /\ c \notin tracker
    /\ \A t \in Tasks : c \notin InHand(t)

Removed(c, t) ==
    /\ pc[t] = "unregister"
    /\ c \in todo[t] \cup done[t]
    /\ c \in done[t] => owners[c][Self] = Absent
    /\ \A u \in Tasks \ {t} : c \notin InHand(u)

Held(c) == Forgotten(c) \/ \E t \in Control : Removed(c, t)

HeldInv == \A c \in Chunks \ (stored \cup loose) : Held(c)
-----------------------------------------------------------------------------
(* The operators                                                           *)

(* Every set of natural numbers has a least one.                           *)
LEMMA LeastNumber ==
    ASSUME NEW T, T \subseteq Nat, T # {}
    PROVE  \E x \in T : \A y \in T : x <= y
<1>1. IsWellFoundedOn(OpToRel(<, Nat), Nat)
  BY NatLessThanWellFounded, Zenon
<1>2. PICK x \in T : \A y \in T : <<y, x>> \notin OpToRel(<, Nat)
  BY <1>1, WFMin, Zenon
<1>3. OpToRel(<, Nat) = {p \in Nat \X Nat : p[1] < p[2]}
  BY Zenon DEF OpToRel
<1>4. \A y \in T : ~(y < x)
  <2> TAKE y \in T
  <2>1. <<y, x>> \notin {p \in Nat \X Nat : p[1] < p[2]}
    BY <1>2, <1>3, Zenon
  <2> QED BY <2>1
<1> QED BY <1>4

(* The last chunk of a batch is one of it.                                 *)
LEMMA MaxIsMember ==
    ASSUME NEW n \in Nat, NEW S \in SUBSET (1 .. n), S # {}
    PROVE  Max(S) \in S
<1> DEFINE T == {n - x : x \in S}
<1>1. PICK m \in T : \A k \in T : m <= k
  <2>1. T \subseteq Nat
    OBVIOUS
  <2>2. T # {}
    OBVIOUS
  <2> QED BY <2>1, <2>2, LeastNumber
<1>2. PICK x \in S : m = n - x
  BY <1>1
<1>3. \A y \in S : x >= y
  <2> TAKE y \in S
  <2>1. n - y \in T
    OBVIOUS
  <2>2. m <= n - y
    BY <2>1, <1>1
  <2> QED BY <2>2, <1>2
<1> QED BY <1>3 DEF Max

(* What the interval and the spread are chosen for.                        *)
LEMMA Intervals ==
    /\ RefreshInterval \in Nat /\ RefreshInterval >= 1
    /\ Spread \in Nat /\ Spread <= RefreshInterval
    /\ TTL > 2 => 2 * RefreshInterval + Spread <= TTL
<1>1. TTL \in Nat
  BY IndexAssumption
<1>2. RefreshInterval \in Nat /\ RefreshInterval >= 1
  BY <1>1 DEF RefreshInterval
<1>3. Spread \in Nat /\ Spread <= RefreshInterval
  BY <1>2 DEF Spread
<1>4. CASE TTL >= 3
  BY <1>1, <1>2, <1>3, <1>4 DEF RefreshInterval
<1>5. CASE TTL < 3
  <2>1. RefreshInterval = 1
    BY <1>1, <1>5 DEF RefreshInterval
  <2> QED BY <1>1, <1>3, <1>5, <2>1
<1> QED BY <1>1, <1>2, <1>3, <1>4, <1>5

(* Where a task goes on.                                                   *)
LEMMA AfterPlaces ==
    ASSUME NEW t \in Tasks
    PROVE  /\ After(t) \in {"walk", "sleep", "batch", "repair", "idle"}
           /\ t \in Control => After(t) = "idle"
           /\ t = Loop /\ repairing => After(t) = "sleep"
           /\ t = Loop /\ ~repairing /\ rest # {} => After(t) = "batch"
           /\ t = Loop /\ ~repairing /\ rest = {} => After(t) = "repair"
           /\ t = Sync => After(t) = "walk"
BY IndexAssumption DEF After, Tasks

(* The register script of node n leaves this node's entry, removes it, or, *)
(* when it is this node's own, writes it anew.                             *)
LEMMA ScriptEffect ==
    ASSUME owners \in [Chunks -> [Nodes -> Absent .. Cap]],
           NEW c \in Chunks, NEW n \in Nodes, NEW S,
           owners' = [owners EXCEPT ![c] = Only(Written(owners[c], n), S)]
    PROVE  /\ owners' \in [Chunks -> [Nodes -> Absent .. Cap]]
           /\ \A d \in Chunks : d # c => owners'[d] = owners[d]
           /\ n # Self => owners'[c][Self] \in {owners[c][Self], Absent}
           /\ n = Self => owners'[c][Self] \in {0, Absent}
           /\ n = Self /\ Self \notin S => owners'[c][Self] = Absent
<1> DEFINE entries == Written(owners[c], n)
<1>1. TTL \in Nat /\ Absent = -1 /\ Cap = TTL + 1 /\ Self \in Nodes
  BY IndexAssumption DEF Absent, Cap, Nodes
<1>2. entries \in [Nodes -> Absent .. Cap]
  BY <1>1 DEF Written
<1>3. /\ n # Self => entries[Self] \in {owners[c][Self], Absent}
      /\ n = Self => entries[Self] = 0
  BY <1>1 DEF Written
<1> HIDE DEF entries
<1>4. Only(entries, S) \in [Nodes -> Absent .. Cap]
  BY <1>1, <1>2 DEF Only
<1>5. /\ Only(entries, S)[Self] \in {entries[Self], Absent}
      /\ Self \notin S => Only(entries, S)[Self] = Absent
  BY <1>1 DEF Only
<1>6. owners' = [owners EXCEPT ![c] = Only(entries, S)]
  BY DEF entries
<1> QED BY <1>3, <1>4, <1>5, <1>6
-----------------------------------------------------------------------------
(* Types                                                                   *)

Places == {"idle", "register", "unregister", "lookup", "found",
           "walk", "jitter", "sleep", "batch", "repair"}

(* Calls put chunks in a task's hand.                                      *)
LEMMA CallType ==
    ASSUME TypeOK, NEW t \in Tasks, NEW where \in Places, NEW S \in SUBSET Chunks,
           Call(t, where, S)
    PROVE  /\ pc' \in [Tasks -> Places]
           /\ todo' \in [Tasks -> SUBSET Chunks]
           /\ done' \in [Tasks -> SUBSET Chunks]
BY DEF TypeOK, Call, Places

(* Control, Sync and Loop are tasks.                                       *)
LEMMA TaskNames ==
    /\ Loop \in Tasks /\ Sync \in Tasks /\ Control \subseteq Tasks
    /\ Sync # Loop /\ Sync \notin Control /\ Loop \notin Control
    /\ \A t \in Tasks : t \in Control \/ t = Sync \/ t = Loop
BY IndexAssumption DEF Tasks

(* What the process starts with.                                           *)
LEMMA InitType == Init => TypeOK
<1> SUFFICES ASSUME Init PROVE TypeOK
  OBVIOUS
<1>1. TTL \in Nat /\ Absent = -1 /\ Cap = TTL + 1 /\ MaxFailures \in Nat /\ NumChunks \in Nat
  BY IndexAssumption DEF Absent, Cap
<1>2. owners \in [Chunks -> [Nodes -> Absent .. Cap]]
  BY <1>1 DEF Init
<1>3. pc \in [Tasks -> {"idle", "register", "unregister", "lookup", "found",
                        "walk", "jitter", "sleep", "batch", "repair"}]
  BY DEF Init
<1>4. /\ todo \in [Tasks -> SUBSET Chunks] /\ done \in [Tasks -> SUBSET Chunks]
      /\ cursor \in [{Sync, Loop} -> 0 .. NumChunks]
      /\ failures \in 0 .. MaxFailures
  BY <1>1 DEF Init
<1>5. elapsed \in 0 .. RefreshInterval
  BY Intervals DEF Init
<1>6. loose \subseteq Chunks /\ missed \in 0 .. 2 /\ stored \subseteq Chunks
  BY DEF Init
<1> QED BY <1>2, <1>3, <1>4, <1>5, <1>6 DEF Init, TypeOK

(* A batch of a walk is of stored chunks, and the walk's cursor stays      *)
(* among the chunks.                                                       *)
LEMMA BatchType ==
    ASSUME TypeOK, NEW from, NEW size
    PROVE  /\ NextBatch(from, size) \subseteq stored
           /\ NextBatch(from, size) # {} => Max(NextBatch(from, size)) \in 0 .. NumChunks
<1> DEFINE batch == NextBatch(from, size)
<1>1. batch \subseteq stored /\ batch \in SUBSET (1 .. NumChunks)
  BY DEF NextBatch, TypeOK, Chunks
<1> HIDE DEF batch
<1>2. NumChunks \in Nat
  BY IndexAssumption
<1>3. batch # {} => Max(batch) \in batch
  BY <1>1, <1>2, MaxIsMember
<1>4. ASSUME batch # {}
      PROVE  Max(batch) \in 0 .. NumChunks
  <2>1. Max(batch) \in 1 .. NumChunks
    BY <1>1, <1>3, <1>4, Zenon
  <2> QED BY <1>2, <2>1
<1> QED BY <1>1, <1>4 DEF batch

(* Calls of ChunkDB.                                                       *)
LEMMA CallerType ==
    ASSUME TypeOK, NEW t \in Control, NEW S \in SUBSET Chunks, Store(t, S) \/ Delete(t, S)
    PROVE  TypeOK'
<1>1. t \in Tasks
  BY TaskNames
<1>2. \E where \in Places : Call(t, where, S)
  BY DEF Store, Delete, Places
<1>3. /\ pc' \in [Tasks -> Places]
      /\ todo' \in [Tasks -> SUBSET Chunks] /\ done' \in [Tasks -> SUBSET Chunks]
  BY <1>1, <1>2, CallType
<1>4. stored' \subseteq Chunks /\ loose' \subseteq Chunks
  BY DEF Store, Delete, TypeOK, Loosened
<1>5. UNCHANGED <<owners, tracker, conn, turn, failures, renewed, missed>>
  BY DEF Store, Delete
<1> QED BY <1>3, <1>4, <1>5 DEF TypeOK, turn, Places

(* Steps of a call.                                                        *)
LEMMA TaskType ==
    ASSUME TypeOK, NEW t \in Tasks, TaskStep(t)
    PROVE  TypeOK'
<1>1. CASE Track(t)
  <2>1. /\ pc' \in [Tasks -> Places]
        /\ todo' \in [Tasks -> SUBSET Chunks] /\ done' \in [Tasks -> SUBSET Chunks]
    BY <1>1, AfterPlaces, CallType DEF Track, Places
  <2>2. tracker' \subseteq Chunks /\ renewed' \subseteq Chunks /\ missed' \in 0 .. 2
    BY <1>1 DEF Track, TypeOK
  <2> QED BY <1>1, <2>1, <2>2 DEF Track, TypeOK, Places, turn
<1>2. CASE Untrack(t)
  <2>1. /\ pc' \in [Tasks -> Places]
        /\ todo' \in [Tasks -> SUBSET Chunks] /\ done' \in [Tasks -> SUBSET Chunks]
    BY <1>2, AfterPlaces, CallType DEF Untrack, Places
  <2>2. tracker' \subseteq Chunks /\ renewed' \subseteq Chunks
    BY <1>2 DEF Untrack, TypeOK
  <2> QED BY <1>2, <2>1, <2>2 DEF Untrack, TypeOK, Places, turn
<1>3. CASE LookupOwners(t)
  <2>1. /\ pc' \in [Tasks -> Places]
        /\ todo' \in [Tasks -> SUBSET Chunks] /\ done' \in [Tasks -> SUBSET Chunks]
    BY <1>3 DEF LookupOwners, Places, TypeOK
  <2> QED BY <1>3, <2>1 DEF LookupOwners, RedisConn, TypeOK, Places, turn, history
<1>4. CASE TrackFound(t)
  <2>1. todo[t] \in SUBSET Chunks /\ done[t] \in SUBSET Chunks
    BY DEF TypeOK
  <2>2. \E where \in Places, S \in SUBSET Chunks : Call(t, where, S)
    BY <1>4, <2>1, AfterPlaces DEF TrackFound, Places
  <2>3. /\ pc' \in [Tasks -> Places]
        /\ todo' \in [Tasks -> SUBSET Chunks] /\ done' \in [Tasks -> SUBSET Chunks]
    BY <2>2, CallType
  <2> QED BY <1>4, <2>1, <2>3 DEF TrackFound, TypeOK, Places, turn, history
<1>5. ASSUME NEW c \in Chunks, RunScript(t, c)
      PROVE  TypeOK'
  <2>1. Self \in Nodes
    BY DEF Nodes
  <2>2. PICK S : owners' = [owners EXCEPT ![c] = Only(Written(owners[c], Self), S)]
                 /\ done' = [done EXCEPT ![t] = IF Self \in S THEN @ \cup {c} ELSE @]
    BY <1>5 DEF RunScript
  <2>3. owners' \in [Chunks -> [Nodes -> Absent .. Cap]]
    BY <2>1, <2>2, ScriptEffect DEF TypeOK
  <2>4. todo' \in [Tasks -> SUBSET Chunks] /\ done' \in [Tasks -> SUBSET Chunks]
    BY <1>5, <2>2 DEF RunScript, TypeOK
  <2> QED BY <1>5, <2>3, <2>4 DEF RunScript, RedisConn, TypeOK, turn, history
<1>6. ASSUME NEW c \in Chunks, RemoveEntry(t, c)
      PROVE  TypeOK'
  <2>1. TTL \in Nat /\ Absent = -1 /\ Cap = TTL + 1 /\ Self \in Nodes
    BY IndexAssumption DEF Absent, Cap, Nodes
  <2>2. owners' \in [Chunks -> [Nodes -> Absent .. Cap]]
    BY <1>6, <2>1 DEF RemoveEntry, TypeOK
  <2>3. todo' \in [Tasks -> SUBSET Chunks] /\ done' \in [Tasks -> SUBSET Chunks]
    BY <1>6 DEF RemoveEntry, TypeOK
  <2> QED BY <1>6, <2>2, <2>3 DEF RemoveEntry, RedisConn, TypeOK, turn, history
<1> QED BY <1>1, <1>2, <1>3, <1>4, <1>5, <1>6 DEF TaskStep

(* The walk of sync and the loop's own steps.                              *)
LEMMA WalkType ==
    ASSUME TypeOK, SyncWalk \/ Repair
    PROVE  TypeOK'
<1>1. CASE SyncWalk
  <2> DEFINE batch == NextBatch(cursor[Sync], SyncBatch)
  <2>1. batch \subseteq Chunks /\ (batch # {} => Max(batch) \in 0 .. NumChunks)
    BY BatchType DEF TypeOK
  <2> HIDE DEF batch
  <2>2. \/ batch = {} /\ Call(Sync, "idle", {}) /\ UNCHANGED cursor
        \/ batch # {} /\ Call(Sync, "lookup", batch) /\ cursor' = [cursor EXCEPT ![Sync] = Max(batch)]
    BY <1>1 DEF SyncWalk, batch
  <2>3. /\ pc' \in [Tasks -> Places]
        /\ todo' \in [Tasks -> SUBSET Chunks] /\ done' \in [Tasks -> SUBSET Chunks]
    BY <2>1, <2>2, TaskNames, CallType DEF Places
  <2>4. cursor' \in [{Sync, Loop} -> 0 .. NumChunks]
    BY <2>1, <2>2 DEF TypeOK
  <2>5. loose' \subseteq Chunks
    BY <1>1, <2>1 DEF SyncWalk, Loosened, TypeOK, batch
  <2> QED BY <1>1, <2>3, <2>4, <2>5 DEF SyncWalk, TypeOK, Places
<1>2. CASE Repair
  <2> DEFINE batch == NextBatch(cursor[Loop], RepairBatch)
             candidates == batch \ tracker
  <2>1. batch \subseteq Chunks /\ (batch # {} => Max(batch) \in 0 .. NumChunks)
    BY BatchType DEF TypeOK
  <2>2. candidates \in SUBSET Chunks
    BY <2>1
  <2> HIDE DEF batch
  <2>3. cursor' = [cursor EXCEPT ![Loop] = IF batch = {} THEN 0 ELSE Max(batch)]
    BY <1>2 DEF Repair, batch
  <2>4. cursor' \in [{Sync, Loop} -> 0 .. NumChunks]
    <3>1. 0 \in 0 .. NumChunks
      BY IndexAssumption
    <3> QED BY <2>1, <2>3, <3>1 DEF TypeOK
  <2>5. loose' \subseteq Chunks
    BY <1>2, <2>2 DEF Repair, Loosened, TypeOK, batch
  <2>6. Call(Loop, IF candidates = {} THEN "sleep" ELSE "lookup", candidates)
    BY <1>2 DEF Repair, batch
  <2> HIDE DEF candidates
  <2>7. /\ pc' \in [Tasks -> Places]
        /\ todo' \in [Tasks -> SUBSET Chunks] /\ done' \in [Tasks -> SUBSET Chunks]
    BY <2>2, <2>6, TaskNames, CallType DEF Places
  <2> QED BY <1>2, <2>4, <2>5, <2>7 DEF Repair, TypeOK, Places
<1> QED BY <1>1, <1>2

LEMMA LoopType ==
    ASSUME TypeOK, JitterEnds \/ Refresh \/ \E B \in SUBSET rest : RefreshBatch(B)
    PROVE  TypeOK'
<1>1. RefreshInterval \in Nat /\ Loop \in Tasks
  BY Intervals, TaskNames
<1>2. CASE JitterEnds
  <2>1. /\ pc' \in [Tasks -> Places]
        /\ todo' \in [Tasks -> SUBSET Chunks] /\ done' \in [Tasks -> SUBSET Chunks]
    BY <1>1, <1>2, CallType DEF JitterEnds, Places
  <2> QED BY <1>1, <1>2, <2>1 DEF JitterEnds, TypeOK, Places, history
<1>3. CASE Refresh
  <2>1. /\ pc' \in [Tasks -> Places]
        /\ todo' \in [Tasks -> SUBSET Chunks] /\ done' \in [Tasks -> SUBSET Chunks]
    BY <1>1, <1>3, CallType DEF Refresh, Places
  <2>2. loose' \subseteq Chunks /\ rest' \subseteq Chunks
    BY <1>3 DEF Refresh, Loosened, TypeOK
  <2>3. missed' \in 0 .. 2
    <3>1. missed' \in {0, missed} /\ missed \in 0 .. 2
      BY <1>3, Zenon DEF Refresh, TypeOK
    <3> QED BY <3>1
  <2>4. elapsed' \in 0 .. RefreshInterval
    BY <1>1, <1>3 DEF Refresh
  <2> QED BY <1>1, <1>3, <2>1, <2>2, <2>3, <2>4 DEF Refresh, TypeOK, Places
<1>4. ASSUME NEW B \in SUBSET rest, RefreshBatch(B)
      PROVE  TypeOK'
  <2>1. B \in SUBSET Chunks
    BY DEF TypeOK
  <2>2. /\ pc' \in [Tasks -> Places]
        /\ todo' \in [Tasks -> SUBSET Chunks] /\ done' \in [Tasks -> SUBSET Chunks]
    BY <1>1, <1>4, <2>1, CallType DEF RefreshBatch, Places
  <2> QED BY <1>4, <2>2 DEF RefreshBatch, TypeOK, Places, history
<1> QED BY <1>2, <1>3, <1>4

(* Other nodes, failures and time.                                         *)
LEMMA WorldType ==
    ASSUME TypeOK,
           \/ \E n \in Others, c \in Chunks : OtherRegisters(n, c)
           \/ \E c \in Chunks : ExpireKey(c)
           \/ \E t \in Tasks : Fail(t)
           \/ DropConnection \/ Tick
    PROVE  TypeOK'
<1>0. TTL \in Nat /\ Absent = -1 /\ Cap = TTL + 1 /\ MaxFailures \in Nat
  BY IndexAssumption DEF Absent, Cap
<1>1. ASSUME NEW n \in Others, NEW c \in Chunks, OtherRegisters(n, c)
      PROVE  TypeOK'
  <2>1. n \in Nodes
    BY DEF Nodes
  <2>2. PICK S : owners' = [owners EXCEPT ![c] = Only(Written(owners[c], n), S)]
    BY <1>1 DEF OtherRegisters
  <2>3. owners' \in [Chunks -> [Nodes -> Absent .. Cap]]
    BY <2>1, <2>2, ScriptEffect DEF TypeOK
  <2> QED BY <1>1, <2>3 DEF OtherRegisters, TypeOK, tasks, turn, history
<1>2. ASSUME NEW c \in Chunks, ExpireKey(c)
      PROVE  TypeOK'
  <2>1. owners' \in [Chunks -> [Nodes -> Absent .. Cap]]
    BY <1>0, <1>2 DEF ExpireKey, TypeOK
  <2> QED BY <1>2, <2>1 DEF ExpireKey, TypeOK, tasks, turn, history
<1>3. ASSUME NEW t \in Tasks, Fail(t)
      PROVE  TypeOK'
  <2>1. \E where \in Places : Call(t, where, {})
    BY <1>3 DEF Fail, Places
  <2>2. /\ pc' \in [Tasks -> Places]
        /\ todo' \in [Tasks -> SUBSET Chunks] /\ done' \in [Tasks -> SUBSET Chunks]
    BY <2>1, CallType
  <2>3. loose' \subseteq Chunks /\ rest' \subseteq Chunks
    BY <1>3 DEF Fail, InHand, TypeOK
  <2>4. missed' \in 0 .. 2
    BY <1>3 DEF Fail, TypeOK
  <2>5. failures' \in 0 .. MaxFailures
    BY <1>0, <1>3 DEF Fail, TypeOK
  <2> QED BY <1>3, <2>2, <2>3, <2>4, <2>5 DEF Fail, TypeOK, Places
<1>4. CASE DropConnection
  BY <1>4 DEF DropConnection, TypeOK, tasks, turn, history
<1>5. CASE Tick
  <2>1. owners' \in [Chunks -> [Nodes -> Absent .. Cap]]
    BY <1>0, <1>5 DEF Tick, TypeOK
  <2>2. elapsed' \in 0 .. RefreshInterval
    <3>1. elapsed < RefreshInterval
      BY <1>5, Intervals DEF Tick, LoopInTime, TypeOK
    <3> QED BY <1>5, <3>1, Intervals DEF Tick, TypeOK
  <2> QED BY <1>5, <2>1, <2>2 DEF Tick, TypeOK, tasks, history
<1> QED BY <1>1, <1>2, <1>3, <1>4, <1>5

(* Every step, by the part of the system that takes it.                    *)
LEMMA StepCases ==
    ASSUME TypeOK, Next
    PROVE  \/ \E t \in Control, S \in SUBSET Chunks :
                 (S \cap stored = {} /\ Store(t, S)) \/ (S \subseteq stored /\ Delete(t, S))
           \/ \E t \in Tasks : TaskStep(t)
           \/ SyncWalk \/ Repair
           \/ JitterEnds \/ Refresh \/ \E B \in SUBSET rest : RefreshBatch(B)
           \/ \E n \in Others, c \in Chunks : OtherRegisters(n, c)
           \/ \E c \in Chunks : ExpireKey(c)
           \/ \E t \in Tasks : Fail(t)
           \/ DropConnection \/ Tick
<1>1. ASSUME NEW t \in Control, NEW S \in (SUBSET (Chunks \ stored)) \ {{}}, Store(t, S)
      PROVE  S \in SUBSET Chunks /\ S \cap stored = {}
  OBVIOUS
<1>2. ASSUME NEW t \in Control, NEW S \in (SUBSET stored) \ {{}}, Delete(t, S)
      PROVE  S \in SUBSET Chunks /\ S \subseteq stored
  BY DEF TypeOK
<1>3. ASSUME NEW t \in Control, TaskStep(t)
      PROVE  t \in Tasks
  BY TaskNames
<1> QED BY <1>1, <1>2, <1>3, TaskNames, Zenon DEF Next, LoopStep

(* The model's variables keep their types: the age of an entry stays       *)
(* between Absent and Cap, and the walks' cursors among the chunks.        *)
THEOREM TypeCorrect == Spec => []TypeOK
<1>1. TypeOK /\ [Next]_vars => TypeOK'
  <2> SUFFICES ASSUME TypeOK, [Next]_vars PROVE TypeOK'
    OBVIOUS
  <2>1. CASE Next
    BY <2>1, StepCases, CallerType, TaskType, WalkType, LoopType, WorldType, Zenon
  <2>2. CASE UNCHANGED vars
    BY <2>2 DEF TypeOK, vars, tasks, turn, history
  <2> QED BY <2>1, <2>2
<1> QED BY <1>1, InitType, PTL DEF Spec
-----------------------------------------------------------------------------
(* The loop and its timers                                                 *)

(* What LoopInv says of the loop depends on its place, on repairing and on *)
(* the time.                                                               *)
LoopState == <<pc[Loop], repairing, elapsed>>

LEMMA LoopFrame ==
    ASSUME LoopInv, LoopState' = LoopState,
           \A t \in Tasks : pc'[t] = "unregister" => pc[t] = "unregister" \/ t \in Control
    PROVE  LoopInv'
<1>1. pc'[Loop] = pc[Loop] /\ repairing' = repairing /\ elapsed' = elapsed
  BY DEF LoopState
<1>2. RefreshInterval' = RefreshInterval /\ Spread' = Spread
  BY DEF RefreshInterval, Spread
<1> QED BY <1>1, <1>2 DEF LoopInv, Refreshing

(* Steps of the tasks.                                                     *)
LEMMA TaskLoopInv ==
    ASSUME TypeOK, LoopInv, NEW t \in Tasks, TaskStep(t)
    PROVE  LoopInv'
<1>0. UNCHANGED <<repairing, elapsed>>
  BY DEF TaskStep, Track, Untrack, LookupOwners, TrackFound, RunScript, RemoveEntry, turn
<1>1. ASSUME UNCHANGED pc
      PROVE  LoopInv'
  <2>1. LoopState' = LoopState
    BY <1>0, <1>1 DEF LoopState
  <2> QED BY <1>1, <2>1, LoopFrame
<1>2. ASSUME NEW where, pc' = [pc EXCEPT ![t] = where], where # "unregister",
             t = Loop => /\ where \in {"sleep", "repair", "batch", "register", "found"}
                         /\ where \in {"batch", "register"} => Refreshing \/ repairing
                         /\ where = "found" => repairing
      PROVE  LoopInv'
  <2>1. pc'[t] = where /\ \A u \in Tasks : u # t => pc'[u] = pc[u]
    BY <1>2 DEF TypeOK
  <2>2. CASE t # Loop
    <3>1. LoopState' = LoopState
      BY <1>0, <2>1, <2>2, TaskNames DEF LoopState
    <3> QED BY <1>2, <2>1, <3>1, LoopFrame
  <2>3. CASE t = Loop
    <3>1. Refreshing' => Refreshing
      BY <1>0, <1>2, <2>1, <2>3 DEF Refreshing
    <3>2. \A u \in Tasks : pc'[u] = "unregister" => u \in Control
      BY <1>2, <2>1 DEF LoopInv
    <3>3. pc'[Loop] \in {"lookup", "found"} => repairing'
      BY <1>0, <1>2, <2>1, <2>3
    <3>4. pc'[Loop] # "jitter"
      BY <1>2, <2>1, <2>3
    <3>5. Spread' = Spread
      BY DEF Spread, RefreshInterval
    <3> QED BY <1>0, <3>1, <3>2, <3>3, <3>4, <3>5 DEF LoopInv
  <2> QED BY <2>2, <2>3
<1>3. CASE Track(t)
  BY <1>2, <1>3, AfterPlaces DEF Track, Call, Refreshing
<1>4. CASE Untrack(t)
  BY <1>2, <1>4, AfterPlaces, TaskNames DEF Untrack, Call, LoopInv
<1>5. CASE LookupOwners(t)
  BY <1>2, <1>5 DEF LookupOwners, LoopInv
<1>6. CASE TrackFound(t)
  <2>1. t = Loop => repairing
    BY <1>6 DEF TrackFound, LoopInv
  <2> QED BY <1>2, <1>6, <2>1, AfterPlaces DEF TrackFound, Call
<1>7. ASSUME NEW c \in Chunks, RunScript(t, c) \/ RemoveEntry(t, c)
      PROVE  LoopInv'
  BY <1>1, <1>7 DEF RunScript, RemoveEntry
<1> QED BY <1>3, <1>4, <1>5, <1>6, <1>7 DEF TaskStep

(* A step keeps the loop in time.                                          *)
LEMMA LoopInvStep ==
    ASSUME TypeOK, LoopInv, Next
    PROVE  LoopInv'
<1>0. /\ RefreshInterval' = RefreshInterval /\ Spread' = Spread
      /\ RefreshInterval \in Nat /\ RefreshInterval >= 1
      /\ Spread \in Nat /\ Spread <= RefreshInterval
  BY Intervals DEF RefreshInterval, Spread
<1>1. ASSUME NEW t \in Control, NEW S \in SUBSET Chunks, Store(t, S) \/ Delete(t, S)
      PROVE  LoopInv'
  <2>1. LoopState' = LoopState
    BY <1>1, TaskNames DEF Store, Delete, Call, turn, LoopState, TypeOK
  <2>2. \A u \in Tasks : u # t => pc'[u] = pc[u]
    BY <1>1 DEF Store, Delete, Call, TypeOK
  <2> QED BY <2>1, <2>2, LoopFrame
<1>2. CASE SyncWalk
  <2>1. LoopState' = LoopState
    BY <1>2, TaskNames DEF SyncWalk, Call, LoopState, TypeOK
  <2>2. \A u \in Tasks : pc'[u] = "unregister" => pc[u] = "unregister"
    BY <1>2, TaskNames DEF SyncWalk, Call, TypeOK
  <2> QED BY <2>1, <2>2, LoopFrame
<1>3. CASE Repair
  <2>1. /\ pc'[Loop] \in {"sleep", "lookup"} /\ repairing' = TRUE
        /\ \A u \in Tasks : u # Loop => pc'[u] = pc[u]
    BY <1>3, TaskNames DEF Repair, Call, TypeOK
  <2> QED BY <2>1 DEF LoopInv, Refreshing
<1>4. CASE JitterEnds
  <2>1. /\ pc'[Loop] = "sleep"
        /\ \A u \in Tasks : u # Loop => pc'[u] = pc[u]
    BY <1>4, TaskNames DEF JitterEnds, Call, TypeOK
  <2> QED BY <2>1 DEF LoopInv, Refreshing
<1>5. CASE Refresh
  <2>1. /\ pc'[Loop] \in {"repair", "batch"} /\ elapsed' = 0
        /\ \A u \in Tasks : u # Loop => pc'[u] = pc[u]
    BY <1>5, TaskNames DEF Refresh, Call, TypeOK
  <2> QED BY <1>0, <2>1 DEF LoopInv, Refreshing
<1>6. ASSUME NEW B \in SUBSET rest, RefreshBatch(B)
      PROVE  LoopInv'
  <2>1. /\ pc[Loop] = "batch" /\ pc'[Loop] = "register" /\ UNCHANGED <<repairing, elapsed>>
        /\ \A u \in Tasks : u # Loop => pc'[u] = pc[u]
    BY <1>6, TaskNames DEF RefreshBatch, Call, TypeOK
  <2> QED BY <1>0, <2>1 DEF LoopInv, Refreshing
<1>7. ASSUME NEW t \in Tasks, Fail(t)
      PROVE  LoopInv'
  <2>1. /\ pc'[t] \in {"sleep", "repair", "idle"} /\ UNCHANGED <<repairing, elapsed>>
        /\ \A u \in Tasks : u # t => pc'[u] = pc[u]
    BY <1>7 DEF Fail, Call, TypeOK
  <2>2. CASE t = Loop
    BY <2>1, <2>2 DEF LoopInv, Refreshing
  <2>3. CASE t # Loop
    <3>1. LoopState' = LoopState
      BY <2>1, <2>3, TaskNames DEF LoopState
    <3> QED BY <2>1, <3>1, LoopFrame
  <2> QED BY <2>2, <2>3
<1>8. ASSUME \/ \E n \in Others, c \in Chunks : OtherRegisters(n, c)
             \/ \E c \in Chunks : ExpireKey(c)
             \/ DropConnection
      PROVE  LoopInv'
  <2>1. UNCHANGED <<pc, repairing, elapsed>>
    BY <1>8 DEF OtherRegisters, ExpireKey, DropConnection, tasks, turn
  <2> QED BY <2>1, LoopFrame DEF LoopState
<1>9. CASE Tick
  <2>1. UNCHANGED <<pc, repairing>> /\ elapsed' = elapsed + 1 /\ elapsed \in Nat
    BY <1>0, <1>9 DEF Tick, tasks, TypeOK
  <2>2. pc[Loop] = "jitter" => elapsed < RefreshInterval
    BY <1>9 DEF Tick, LoopInTime
  <2>3. Refreshing => elapsed < Spread
    BY <1>9 DEF Tick, LoopInTime, Refreshing
  <2>4. Refreshing' = Refreshing
    BY <2>1 DEF Refreshing
  <2> QED BY <1>0, <2>1, <2>2, <2>3, <2>4 DEF LoopInv
<1> QED
  BY <1>1, <1>2, <1>3, <1>4, <1>5, <1>6, <1>7, <1>8, <1>9, StepCases, TaskLoopInv, Zenon
-----------------------------------------------------------------------------
(* The ages of this node's entries                                         *)

(* A step other than Tick leaves an entry as old as it is, renews it or    *)
(* removes it.                                                             *)
LEMMA AgesFall ==
    ASSUME TypeOK, Next, ~Tick, NEW c \in Chunks
    PROVE  owners'[c][Self] <= owners[c][Self] \/ owners'[c][Self] <= 0
<1>0. /\ Absent = -1 /\ Self \in Nodes /\ Self \notin Others
      /\ owners[c][Self] \in Int
  BY IndexAssumption DEF Absent, Nodes, TypeOK
<1>1. ASSUME NEW n \in Nodes, NEW d \in Chunks, NEW S,
             owners' = [owners EXCEPT ![d] = Only(Written(owners[d], n), S)]
      PROVE  owners'[c][Self] <= owners[c][Self] \/ owners'[c][Self] <= 0
  <2>1. /\ d # c => owners'[c] = owners[c]
        /\ n # Self => owners'[d][Self] \in {owners[d][Self], Absent}
        /\ n = Self => owners'[d][Self] \in {0, Absent}
    BY <1>1, ScriptEffect DEF TypeOK
  <2> QED BY <1>0, <2>1
<1>2. CASE \E n \in Others, d \in Chunks : OtherRegisters(n, d)
  BY <1>1, <1>2 DEF OtherRegisters, Nodes
<1>3. ASSUME NEW d \in Chunks, ExpireKey(d)
      PROVE  owners'[c][Self] <= owners[c][Self] \/ owners'[c][Self] <= 0
  BY <1>0, <1>3 DEF ExpireKey, TypeOK
<1>4. ASSUME NEW t \in Tasks, TaskStep(t)
      PROVE  owners'[c][Self] <= owners[c][Self] \/ owners'[c][Self] <= 0
  <2>1. ASSUME NEW d \in Chunks, RunScript(t, d)
        PROVE  owners'[c][Self] <= owners[c][Self] \/ owners'[c][Self] <= 0
    BY <1>0, <1>1, <2>1 DEF RunScript
  <2>2. ASSUME NEW d \in Chunks, RemoveEntry(t, d)
        PROVE  owners'[c][Self] <= owners[c][Self] \/ owners'[c][Self] <= 0
    BY <1>0, <2>2 DEF RemoveEntry, TypeOK
  <2>3. CASE Track(t) \/ Untrack(t) \/ LookupOwners(t) \/ TrackFound(t)
    BY <1>0, <2>3 DEF Track, Untrack, LookupOwners, TrackFound
  <2> QED BY <1>4, <2>1, <2>2, <2>3 DEF TaskStep
<1>5. ASSUME UNCHANGED owners
      PROVE  owners'[c][Self] <= owners[c][Self] \/ owners'[c][Self] <= 0
  BY <1>0, <1>5
<1>6. ASSUME \/ \E t \in Control, S \in SUBSET Chunks : Store(t, S) \/ Delete(t, S)
             \/ SyncWalk \/ Repair
             \/ JitterEnds \/ Refresh \/ \E B \in SUBSET rest : RefreshBatch(B)
             \/ \E t \in Tasks : Fail(t)
             \/ DropConnection
      PROVE  UNCHANGED owners
  BY <1>6 DEF Store, Delete, SyncWalk, Repair, JitterEnds, Refresh, RefreshBatch, Fail,
              DropConnection
<1> QED BY <1>2, <1>3, <1>4, <1>5, <1>6, StepCases, Zenon

(* What a call keeps of SampleInv: it starts with nothing done.            *)
LEMMA SampleFrame ==
    ASSUME TypeOK, TypeOK', SampleInv,
           \A c \in Chunks : owners'[c][Self] <= owners[c][Self] \/ owners'[c][Self] <= 0,
           \A u \in Tasks : \/ done'[u] = {}
                            \/ pc'[u] = pc[u] /\ done'[u] = done[u]
                            \/ pc'[u] # "register"
    PROVE  SampleInv'
<1>1. ASSUME NEW u \in Tasks, pc'[u] = "register", NEW c \in done'[u]
      PROVE  owners'[c][Self] <= 0
  <2>1. pc[u] = "register" /\ c \in done[u]
    BY <1>1
  <2>2. c \in Chunks /\ owners[c][Self] <= 0
    BY <2>1 DEF SampleInv, TypeOK
  <2>3. owners[c][Self] \in Int /\ owners'[c][Self] \in Int
    BY <2>2 DEF TypeOK, Nodes, Absent, Cap
  <2> QED BY <2>2, <2>3
<1> QED BY <1>1 DEF SampleInv

(* Entries that were written and are not yet tracked are of this unit of   *)
(* time.                                                                   *)
LEMMA SampleInvStep ==
    ASSUME TypeOK, TypeOK', SampleInv, Next
    PROVE  SampleInv'
<1>1. CASE Tick
  <2>1. /\ UNCHANGED <<pc, done>>
        /\ \A t \in Tasks : pc[t] = "register" => done[t] = {}
    BY <1>1 DEF Tick, tasks
  <2> QED BY <2>1 DEF SampleInv
<1>2. ASSUME ~Tick,
             \A u \in Tasks : \/ done'[u] = {}
                              \/ pc'[u] = pc[u] /\ done'[u] = done[u]
                              \/ pc'[u] # "register"
      PROVE  SampleInv'
  BY <1>2, AgesFall, SampleFrame
<1>3. ASSUME ~Tick, NEW t \in Tasks, NEW where, NEW S, Call(t, where, S)
      PROVE  SampleInv'
  <2>1. \A u \in Tasks : done'[u] = {} \/ (pc'[u] = pc[u] /\ done'[u] = done[u])
    BY <1>3 DEF Call, TypeOK
  <2> QED BY <1>2, <1>3, <2>1
<1>4. ASSUME ~Tick, UNCHANGED <<pc, done>>
      PROVE  SampleInv'
  BY <1>2, <1>4
<1>5. ASSUME ~Tick, NEW t \in Tasks, TaskStep(t)
      PROVE  SampleInv'
  <2>1. CASE Track(t) \/ Untrack(t) \/ TrackFound(t)
    BY <1>3, <1>5, <2>1 DEF Track, Untrack, TrackFound
  <2>2. CASE LookupOwners(t)
    <3>1. \A u \in Tasks : (pc'[u] = pc[u] /\ done'[u] = done[u]) \/ pc'[u] # "register"
      BY <2>2 DEF LookupOwners, TypeOK
    <3> QED BY <1>2, <1>5, <3>1
  <2>3. ASSUME NEW c \in Chunks, RemoveEntry(t, c)
        PROVE  SampleInv'
    <3>1. \A u \in Tasks : (pc'[u] = pc[u] /\ done'[u] = done[u]) \/ pc'[u] # "register"
      BY <2>3 DEF RemoveEntry, TypeOK
    <3> QED BY <1>2, <1>5, <3>1
  <2>4. ASSUME NEW c \in Chunks, RunScript(t, c)
        PROVE  SampleInv'
    <3>1. Self \in Nodes
      BY DEF Nodes
    <3>2. PICK S : /\ owners' = [owners EXCEPT ![c] = Only(Written(owners[c], Self), S)]
                   /\ done' = [done EXCEPT ![t] = IF Self \in S THEN @ \cup {c} ELSE @]
      BY <2>4 DEF RunScript
    <3>3. /\ owners'[c][Self] \in {0, Absent}
          /\ \A d \in Chunks : d # c => owners'[d] = owners[d]
      BY <3>1, <3>2, ScriptEffect DEF TypeOK
    <3>4. owners'[c][Self] <= 0
      BY <3>3 DEF Absent
    <3>5. pc' = pc /\ \A u \in Tasks : done'[u] \subseteq done[u] \cup {c}
      BY <2>4, <3>2 DEF RunScript, TypeOK
    <3>6. ASSUME NEW u \in Tasks, pc'[u] = "register", NEW d \in done'[u], d # c
          PROVE  owners'[d][Self] <= 0
      <4>1. d \in Chunks /\ owners[d][Self] <= 0
        BY <3>5, <3>6 DEF SampleInv, TypeOK
      <4> QED BY <3>3, <3>6, <4>1
    <3> QED BY <3>4, <3>6 DEF SampleInv
  <2> QED BY <1>5, <2>1, <2>2, <2>3, <2>4 DEF TaskStep
<1>6. ASSUME ~Tick, NEW t \in Control, NEW S, Store(t, S) \/ Delete(t, S)
      PROVE  SampleInv'
  BY <1>3, <1>6, TaskNames DEF Store, Delete
<1>7. ASSUME ~Tick, SyncWalk \/ Repair \/ JitterEnds \/ Refresh
      PROVE  SampleInv'
  <2>1. \E t \in Tasks : \E where, S : Call(t, where, S)
    BY <1>7, TaskNames DEF SyncWalk, Repair, JitterEnds, Refresh
  <2> QED BY <1>3, <1>7, <2>1
<1>8. ASSUME ~Tick, NEW B, RefreshBatch(B)
      PROVE  SampleInv'
  BY <1>3, <1>8, TaskNames DEF RefreshBatch
<1>9. ASSUME ~Tick, NEW t \in Tasks, Fail(t)
      PROVE  SampleInv'
  BY <1>3, <1>9 DEF Fail
<1>10. ASSUME ~Tick,
              \/ \E n \in Others, c \in Chunks : OtherRegisters(n, c)
              \/ \E c \in Chunks : ExpireKey(c)
              \/ DropConnection
       PROVE  SampleInv'
  BY <1>4, <1>10 DEF OtherRegisters, ExpireKey, DropConnection, tasks
<1> QED
  BY <1>1, <1>5, <1>6, <1>7, <1>8, <1>9, <1>10, StepCases, Zenon

(* The numbers AgeBound compares.                                          *)
LEMMA AgeTypes ==
    ASSUME TypeOK, NEW c \in Chunks
    PROVE  /\ owners[c][Self] \in Int
           /\ elapsed \in Nat
           /\ missed \in {0, 1, 2}
           /\ Lag \in Nat
           /\ RefreshInterval \in Nat
BY Intervals, IndexAssumption DEF TypeOK, Nodes, Absent, Cap, Lag

(* An entry that has just been written is young enough everywhere.         *)
LEMMA AgeNew ==
    ASSUME TypeOK', NEW c \in Chunks, owners'[c][Self] <= 0
    PROVE  AgeBound(c)'
<1>1. /\ owners'[c][Self] \in Int /\ elapsed' \in Nat /\ missed' \in {0, 1, 2}
      /\ RefreshInterval' \in Nat /\ Lag' \in Nat
  <2>1. RefreshInterval' = RefreshInterval
    BY DEF RefreshInterval
  <2>2. owners'[c][Self] \in Int /\ elapsed' \in Nat /\ missed' \in {0, 1, 2}
    BY <2>1, Intervals, IndexAssumption DEF TypeOK, Nodes, Absent, Cap
  <2> QED BY <2>1, <2>2, Intervals DEF Lag
<1> QED BY <1>1 DEF AgeBound

(* A step that leaves the loop where it is keeps the bound of an entry.    *)
LEMMA AgeKept ==
    ASSUME TypeOK, TypeOK', NEW c \in Chunks, AgeBound(c),
           LoopState' = LoopState, missed' = missed,
           owners'[c][Self] <= owners[c][Self] \/ owners'[c][Self] <= 0,
           Waiting(c) => Waiting(c)'
    PROVE  AgeBound(c)'
<1>1. CASE owners'[c][Self] <= 0
  BY <1>1, AgeNew
<1>2. CASE owners'[c][Self] <= owners[c][Self]
  <2>1. /\ pc'[Loop] = pc[Loop] /\ repairing' = repairing /\ elapsed' = elapsed
        /\ RefreshInterval' = RefreshInterval
    BY DEF LoopState, RefreshInterval
  <2>2. Refreshing' = Refreshing /\ Lag' = Lag
    BY <2>1 DEF Refreshing, Lag
  <2>3. owners'[c][Self] \in Int
    BY DEF TypeOK, Nodes, Absent, Cap
  <2> QED BY <1>2, <2>1, <2>2, <2>3, AgeTypes DEF AgeBound
<1> QED BY <1>1, <1>2

(* Steps of the tasks.                                                     *)
LEMMA TaskAgeInv ==
    ASSUME TypeOK, TypeOK', LoopInv, SampleInv, AgeInv, Next, ~Tick, NEW t \in Tasks, TaskStep(t)
    PROVE  AgeInv'
<1>0. /\ \A c \in Chunks : owners'[c][Self] <= owners[c][Self] \/ owners'[c][Self] <= 0
      /\ UNCHANGED <<rest, repairing, elapsed>>
      /\ renewed \subseteq Chunks
      /\ RefreshInterval' = RefreshInterval
  BY AgesFall DEF TaskStep, Track, Untrack, LookupOwners, TrackFound, RunScript, RemoveEntry, turn,
                  TypeOK, RefreshInterval
<1>1. CASE Track(t)
  <2>1. /\ owners' = owners /\ todo[t] = {} /\ pc[t] = "register"
        /\ pc'[t] = After(t) /\ \A u \in Tasks : u # t => pc'[u] = pc[u] /\ todo'[u] = todo[u]
        /\ tracker' = tracker \cup done[t] /\ renewed' = renewed \cup done[t]
        /\ missed' = IF t = Loop /\ ~repairing /\ rest = {} THEN 0 ELSE missed
    BY <1>1 DEF Track, Call, TypeOK
  <2>2. renewed' \subseteq tracker'
    BY <2>1 DEF AgeInv
  <2>3. pc'[Loop] = "jitter" => missed' = 1
    BY <2>1, AfterPlaces, TaskNames DEF AgeInv
  <2>4. ASSUME NEW c \in done[t]
        PROVE  AgeBound(c)'
    <3>1. c \in Chunks /\ owners'[c][Self] <= 0
      BY <2>1 DEF SampleInv, TypeOK
    <3> QED BY <3>1, AgeNew
  <2>5. ASSUME NEW c \in renewed
        PROVE  AgeBound(c)'
    <3>1. c \in Chunks /\ AgeBound(c)
      BY <1>0 DEF AgeInv
    <3>2. CASE t # Loop
      <4>1. LoopState' = LoopState /\ missed' = missed /\ Waiting(c)' = Waiting(c)
        BY <1>0, <2>1, <3>2, TaskNames DEF LoopState, Waiting
      <4> QED BY <1>0, <3>1, <4>1, AgeKept
    <3>3. CASE t = Loop /\ repairing
      <4>1. ~Refreshing /\ ~Refreshing' /\ pc'[Loop] # "jitter" /\ missed' = missed
        BY <1>0, <2>1, <3>3, AfterPlaces DEF Refreshing
      <4> QED BY <1>0, <2>1, <3>1, <4>1, AgeTypes DEF AgeBound, Lag
    <3>4. CASE t = Loop /\ ~repairing /\ rest # {}
      <4>1. Refreshing /\ Refreshing' /\ pc'[Loop] = "batch" /\ missed' = missed
        BY <1>0, <2>1, <3>4, AfterPlaces DEF Refreshing
      <4>2. Waiting(c) => Waiting(c)'
        BY <1>0, <2>1, <3>4 DEF Waiting
      <4> QED BY <1>0, <2>1, <3>1, <4>1, <4>2, AgeTypes DEF AgeBound, Lag
    <3>5. CASE t = Loop /\ ~repairing /\ rest = {}
      <4>1. Refreshing /\ pc'[Loop] = "repair" /\ ~Refreshing' /\ missed' = 0 /\ ~Waiting(c)
        BY <1>0, <2>1, <3>5, AfterPlaces DEF Refreshing, Waiting
      <4>2. owners'[c][Self] <= elapsed' /\ Lag' = 0 /\ elapsed' \in Nat
        BY <1>0, <2>1, <3>1, <4>1, AgeTypes DEF AgeBound, Lag
      <4> QED BY <4>1, <4>2 DEF AgeBound
    <3> QED BY <3>2, <3>3, <3>4, <3>5
  <2> QED BY <2>1, <2>2, <2>3, <2>4, <2>5 DEF AgeInv
<1>2. ASSUME renewed' \subseteq renewed, renewed' \subseteq tracker', missed' = missed,
             LoopState' = LoopState, todo'[Loop] = todo[Loop]
      PROVE  AgeInv'
  <2>1. pc'[Loop] = pc[Loop]
    BY <1>2 DEF LoopState
  <2>2. ASSUME NEW c \in renewed'
        PROVE  AgeBound(c)'
    <3>1. c \in Chunks /\ AgeBound(c)
      BY <1>0, <1>2, <2>2 DEF AgeInv
    <3>2. Waiting(c)' = Waiting(c)
      BY <1>0, <1>2, <2>1 DEF Waiting
    <3> QED BY <1>0, <1>2, <3>1, <3>2, AgeKept
  <2> QED BY <1>2, <2>1, <2>2 DEF AgeInv
<1>3. CASE Untrack(t)
  <2>1. t # Loop
    BY <1>3, TaskNames DEF Untrack, LoopInv
  <2>2. pc'[Loop] = pc[Loop] /\ todo'[Loop] = todo[Loop]
    BY <1>3, <2>1, TaskNames DEF Untrack, Call, TypeOK
  <2>3. LoopState' = LoopState
    BY <1>0, <2>2 DEF LoopState
  <2>4. renewed' \subseteq renewed /\ renewed' \subseteq tracker' /\ missed' = missed
    BY <1>3 DEF Untrack, AgeInv
  <2> QED BY <1>2, <2>2, <2>3, <2>4
<1>4. CASE LookupOwners(t) \/ TrackFound(t)
  <2>1. /\ owners' = owners /\ renewed' = renewed /\ missed' = missed /\ tracker \subseteq tracker'
        /\ \A u \in Tasks : u # t => pc'[u] = pc[u] /\ todo'[u] = todo[u]
    BY <1>4 DEF LookupOwners, TrackFound, Call, TypeOK, history
  <2>2. renewed' \subseteq tracker'
    BY <2>1 DEF AgeInv
  <2>3. CASE t # Loop
    <3>1. LoopState' = LoopState /\ todo'[Loop] = todo[Loop]
      BY <1>0, <2>1, <2>3, TaskNames DEF LoopState
    <3> QED BY <1>2, <2>1, <2>2, <3>1
  <2>4. CASE t = Loop
    <3>1. repairing /\ pc'[Loop] # "jitter"
      BY <1>4, <2>4, AfterPlaces DEF LookupOwners, TrackFound, Call, LoopInv, TypeOK
    <3>2. ~Refreshing /\ ~Refreshing'
      BY <1>0, <3>1 DEF Refreshing
    <3>3. ASSUME NEW c \in renewed
          PROVE  AgeBound(c)'
      <4>1. c \in Chunks /\ AgeBound(c)
        BY <1>0 DEF AgeInv
      <4> QED BY <1>0, <2>1, <3>1, <3>2, <4>1, AgeTypes DEF AgeBound, Lag
    <3> QED BY <2>1, <2>2, <3>1, <3>3 DEF AgeInv
  <2> QED BY <2>3, <2>4
<1>5. ASSUME NEW d \in Chunks, RunScript(t, d) \/ RemoveEntry(t, d)
      PROVE  AgeInv'
  <2>1. /\ pc' = pc /\ renewed' = renewed /\ missed' = missed /\ tracker' = tracker
        /\ \A u \in Tasks : todo[u] \subseteq todo'[u] \cup {d}
    BY <1>5 DEF RunScript, RemoveEntry, TypeOK, history
  <2>2. LoopState' = LoopState
    BY <1>0, <2>1 DEF LoopState
  <2>3. owners'[d][Self] <= 0
    <3>1. CASE RunScript(t, d)
      <4>1. PICK S : owners' = [owners EXCEPT ![d] = Only(Written(owners[d], Self), S)]
        BY <3>1 DEF RunScript
      <4>2. owners'[d][Self] \in {0, Absent}
        BY <4>1, ScriptEffect DEF TypeOK, Nodes
      <4> QED BY <4>2 DEF Absent
    <3>2. CASE RemoveEntry(t, d)
      BY <3>2 DEF RemoveEntry, TypeOK, Nodes, Absent
    <3> QED BY <1>5, <3>1, <3>2
  <2>4. ASSUME NEW c \in renewed
        PROVE  AgeBound(c)'
    <3>1. c \in Chunks /\ AgeBound(c)
      BY <1>0 DEF AgeInv
    <3>2. CASE c = d
      BY <2>3, <3>2, AgeNew
    <3>3. CASE c # d
      <4>1. Waiting(c) => Waiting(c)'
        BY <1>0, <2>1, <3>3, TaskNames DEF Waiting
      <4> QED BY <1>0, <2>1, <2>2, <3>1, <4>1, AgeKept
    <3> QED BY <3>2, <3>3
  <2> QED BY <2>1, <2>4 DEF AgeInv
<1> QED BY <1>1, <1>3, <1>4, <1>5 DEF TaskStep

(* The loop's own steps.                                                   *)
LEMMA LoopAgeInv ==
    ASSUME TypeOK, TypeOK', LoopInv, AgeInv,
           Repair \/ JitterEnds \/ Refresh \/ \E B \in SUBSET rest : RefreshBatch(B)
    PROVE  AgeInv'
<1>0. /\ RefreshInterval' = RefreshInterval /\ renewed \subseteq Chunks
      /\ owners' = owners /\ renewed' = renewed /\ tracker' = tracker
  BY DEF RefreshInterval, TypeOK, Repair, JitterEnds, Refresh, RefreshBatch, history
<1>1. ASSUME NEW c \in renewed
      PROVE  /\ c \in Chunks /\ c \in tracker /\ AgeBound(c)
             /\ owners[c][Self] \in Int /\ elapsed \in Nat /\ missed \in {0, 1, 2}
             /\ RefreshInterval \in Nat
  BY <1>0, AgeTypes DEF AgeInv
<1>2. CASE Repair
  <2>1. pc[Loop] = "repair" /\ pc'[Loop] \in {"sleep", "lookup"} /\ UNCHANGED <<elapsed, missed>>
    BY <1>2, TaskNames DEF Repair, Call, TypeOK
  <2>2. ASSUME NEW c \in renewed
        PROVE  AgeBound(c)'
    BY <1>0, <1>1, <2>1 DEF AgeBound, Lag, Refreshing
  <2> QED BY <1>0, <2>1, <2>2 DEF AgeInv
<1>3. CASE JitterEnds
  <2>1. pc[Loop] = "jitter" /\ pc'[Loop] = "sleep" /\ elapsed' = 0 /\ missed' = missed
    BY <1>3, TaskNames DEF JitterEnds, Call, TypeOK, history
  <2>2. missed = 1 /\ elapsed <= RefreshInterval
    BY <2>1 DEF AgeInv, LoopInv
  <2>3. ASSUME NEW c \in renewed
        PROVE  AgeBound(c)'
    <3>1. owners'[c][Self] <= RefreshInterval
      BY <1>0, <1>1, <2>1, <2>2 DEF AgeBound
    <3> QED BY <1>0, <1>1, <2>1, <2>2, <3>1 DEF AgeBound, Lag, Refreshing
  <2> QED BY <1>0, <2>1, <2>3 DEF AgeInv
<1>4. CASE Refresh
  <2>1. /\ pc[Loop] = "sleep" /\ elapsed = RefreshInterval
        /\ elapsed' = 0 /\ rest' = tracker /\ ~repairing'
        /\ pc'[Loop] = (IF tracker = {} THEN "repair" ELSE "batch")
        /\ tracker # {} => missed' = missed
    BY <1>4, TaskNames DEF Refresh, Call, TypeOK
  <2>2. ASSUME NEW c \in renewed
        PROVE  AgeBound(c)'
    <3>1. Waiting(c)' /\ pc'[Loop] = "batch" /\ missed' = missed /\ Refreshing'
      BY <1>0, <1>1, <2>1 DEF Waiting, Refreshing
    <3>2. missed <= 1 => owners[c][Self] <= Lag + RefreshInterval
      BY <1>1, <2>1 DEF AgeBound, Refreshing
    <3> QED BY <1>0, <1>1, <2>1, <3>1, <3>2 DEF AgeBound, Lag
  <2> QED BY <1>0, <2>1, <2>2 DEF AgeInv
<1>5. ASSUME NEW B \in SUBSET rest, RefreshBatch(B)
      PROVE  AgeInv'
  <2>1. /\ pc[Loop] = "batch" /\ pc'[Loop] = "register" /\ todo'[Loop] = B /\ rest' = rest \ B
        /\ UNCHANGED <<repairing, elapsed, missed>>
    BY <1>5, TaskNames DEF RefreshBatch, Call, TypeOK, history
  <2>2. ASSUME NEW c \in renewed
        PROVE  AgeBound(c)'
    <3>1. Refreshing' = Refreshing /\ (Waiting(c) => Waiting(c)')
      BY <2>1 DEF Refreshing, Waiting
    <3> QED BY <1>0, <1>1, <2>1, <3>1 DEF AgeBound, Lag
  <2> QED BY <1>0, <2>1, <2>2 DEF AgeInv
<1> QED BY <1>2, <1>3, <1>4, <1>5

(* A failed refresh leaves its entries to the next one.                    *)
LEMMA FailAgeInv ==
    ASSUME TypeOK, TypeOK', LoopInv, AgeInv, NEW t \in Tasks, Fail(t)
    PROVE  AgeInv'
<1>0. /\ RefreshInterval' = RefreshInterval /\ renewed \subseteq Chunks
      /\ owners' = owners /\ renewed' = renewed /\ tracker' = tracker
      /\ UNCHANGED <<repairing, elapsed>>
      /\ pc'[t] \in {"sleep", "repair", "idle"}
      /\ \A u \in Tasks : u # t => pc'[u] = pc[u] /\ todo'[u] = todo[u]
      /\ t # Loop => rest' = rest
      /\ missed' = IF t = Loop /\ ~repairing /\ pc[t] = "register"
                     THEN IF missed = 0 THEN 1 ELSE 2
                     ELSE missed
      /\ pc[t] # "batch"
  BY DEF RefreshInterval, TypeOK, Fail, Call
<1>1. ASSUME NEW c \in renewed
      PROVE  /\ c \in Chunks /\ AgeBound(c)
             /\ owners[c][Self] \in Int /\ elapsed \in Nat /\ missed \in {0, 1, 2}
             /\ RefreshInterval \in Nat
  BY <1>0, AgeTypes DEF AgeInv
<1>2. CASE t # Loop
  <2>1. LoopState' = LoopState /\ missed' = missed /\ todo'[Loop] = todo[Loop]
    BY <1>0, <1>2, TaskNames DEF LoopState
  <2>2. ASSUME NEW c \in renewed
        PROVE  AgeBound(c)'
    <3>1. Waiting(c) => Waiting(c)'
      BY <1>0, <1>2, <2>1, TaskNames DEF Waiting
    <3>2. owners'[c][Self] <= owners[c][Self]
      BY <1>0, <1>1
    <3> QED BY <1>1, <2>1, <3>1, <3>2, AgeKept
  <2> QED BY <1>0, <1>2, <2>2, TaskNames DEF AgeInv
<1>3. CASE t = Loop
  <2>1. ~Refreshing' /\ pc'[Loop] # "jitter"
    BY <1>0, <1>3 DEF Refreshing
  <2>2. ASSUME NEW c \in renewed
        PROVE  AgeBound(c)'
    <3>1. CASE Refreshing
      <4>1. missed' <= 1 => missed = 0 /\ missed' = 1
        BY <1>0, <1>1, <1>3, <3>1 DEF Refreshing
      <4>2. missed = 0 => owners[c][Self] <= RefreshInterval + elapsed
        BY <1>1, <3>1 DEF AgeBound, Lag
      <4> QED BY <1>0, <1>1, <2>1, <4>1, <4>2 DEF AgeBound, Lag
    <3>2. CASE ~Refreshing
      <4>1. missed' = missed
        BY <1>0, <1>3, <3>2 DEF Refreshing
      <4> QED BY <1>0, <1>1, <2>1, <3>2, <4>1 DEF AgeBound, Lag
    <3> QED BY <3>1, <3>2
  <2> QED BY <1>0, <2>1, <2>2 DEF AgeInv
<1> QED BY <1>2, <1>3

(* A step keeps the entries young enough.                                  *)
LEMMA AgeInvStep ==
    ASSUME TypeOK, TypeOK', LoopInv, SampleInv, AgeInv, Next
    PROVE  AgeInv'
<1>1. CASE Tick
  <2>1. /\ UNCHANGED <<pc, todo, rest, repairing, missed, renewed, tracker>>
        /\ elapsed' = elapsed + 1 /\ RefreshInterval' = RefreshInterval
    BY <1>1 DEF Tick, tasks, history, RefreshInterval
  <2>2. ASSUME NEW c \in renewed
        PROVE  AgeBound(c)'
    <3>1. c \in Chunks /\ AgeBound(c)
      BY DEF AgeInv, TypeOK
    <3>2. owners'[c][Self] \in {owners[c][Self], owners[c][Self] + 1}
      BY <1>1, <3>1 DEF Tick, TypeOK, Nodes
    <3>3. Refreshing' = Refreshing /\ Waiting(c)' = Waiting(c) /\ Lag' = Lag
      BY <2>1 DEF Refreshing, Waiting, Lag
    <3> QED BY <2>1, <3>1, <3>2, <3>3, AgeTypes DEF AgeBound
  <2> QED BY <2>1, <2>2 DEF AgeInv
<1>2. ASSUME ~Tick, LoopState' = LoopState, UNCHANGED <<renewed, tracker, missed, rest>>,
             todo'[Loop] = todo[Loop]
      PROVE  AgeInv'
  <2>1. ASSUME NEW c \in renewed
        PROVE  AgeBound(c)'
    <3>1. c \in Chunks /\ AgeBound(c)
      BY DEF AgeInv, TypeOK
    <3>2. Waiting(c)' = Waiting(c)
      BY <1>2 DEF Waiting, LoopState
    <3> QED BY <1>2, <3>1, <3>2, AgesFall, AgeKept
  <2> QED BY <1>2, <2>1 DEF AgeInv, LoopState
<1>3. ASSUME ~Tick, NEW t \in Control, NEW S, Store(t, S) \/ Delete(t, S)
      PROVE  AgeInv'
  <2>1. /\ LoopState' = LoopState /\ UNCHANGED <<renewed, tracker, missed, rest>>
        /\ todo'[Loop] = todo[Loop]
    BY <1>3, TaskNames DEF Store, Delete, Call, TypeOK, turn, LoopState
  <2> QED BY <1>2, <1>3, <2>1
<1>4. ASSUME ~Tick, SyncWalk
      PROVE  AgeInv'
  <2>1. /\ LoopState' = LoopState /\ UNCHANGED <<renewed, tracker, missed, rest>>
        /\ todo'[Loop] = todo[Loop]
    BY <1>4, TaskNames DEF SyncWalk, Call, TypeOK, LoopState
  <2> QED BY <1>2, <1>4, <2>1
<1>5. ASSUME ~Tick,
             \/ \E n \in Others, c \in Chunks : OtherRegisters(n, c)
             \/ \E c \in Chunks : ExpireKey(c)
             \/ DropConnection
      PROVE  AgeInv'
  <2>1. UNCHANGED <<pc, todo, repairing, elapsed, renewed, tracker, missed, rest>>
    BY <1>5 DEF OtherRegisters, ExpireKey, DropConnection, tasks, turn, history
  <2> QED BY <1>2, <1>5, <2>1 DEF LoopState
<1> QED
  BY <1>1, <1>3, <1>4, <1>5, StepCases, TaskAgeInv, LoopAgeInv, FailAgeInv, Zenon

(* What AgeInv is for: two intervals and the spread fit into the lifetime. *)
LEMMA AgesSuffice == TypeOK /\ LoopInv /\ AgeInv => TrackedNeverLapses
<1> SUFFICES ASSUME TypeOK, LoopInv, AgeInv, TTL > 2, missed <= 1, NEW c \in renewed
             PROVE  owners[c][Self] <= TTL
  BY DEF TrackedNeverLapses
<1>1. c \in Chunks /\ AgeBound(c)
  BY DEF AgeInv, TypeOK
<1>2. TTL \in Nat /\ elapsed <= RefreshInterval
  BY IndexAssumption, Intervals DEF TypeOK
<1>3. Lag <= RefreshInterval /\ (Refreshing => elapsed <= Spread)
  BY Intervals DEF Lag, LoopInv
<1> QED BY <1>1, <1>2, <1>3, Intervals, AgeTypes DEF AgeBound

TimeInv == TypeOK /\ LoopInv /\ SampleInv /\ AgeInv

(* The inductive invariant behind the lifetimes.                           *)
LEMMA TimeInvAlways == Spec => []TimeInv
<1>1. Init => TimeInv
  <2> SUFFICES ASSUME Init PROVE TimeInv
    OBVIOUS
  <2>1. pc = [t \in Tasks |-> CASE t = Loop -> "jitter" [] t = Sync -> "walk" [] OTHER -> "idle"]
    BY DEF Init
  <2>2. pc[Loop] = "jitter" /\ \A t \in Tasks : pc[t] \notin {"unregister", "register"}
    BY <2>1, TaskNames
  <2>3. LoopInv
    BY <2>2, Intervals DEF Init, LoopInv, Refreshing
  <2>4. SampleInv
    BY <2>2 DEF SampleInv
  <2>5. AgeInv
    BY DEF Init, AgeInv
  <2> QED BY <2>3, <2>4, <2>5, InitType DEF TimeInv
<1>2. TimeInv /\ TypeOK' /\ [Next]_vars => TimeInv'
  <2> SUFFICES ASSUME TimeInv, TypeOK', [Next]_vars PROVE TimeInv'
    OBVIOUS
  <2>1. CASE Next
    BY <2>1, LoopInvStep, SampleInvStep, AgeInvStep DEF TimeInv
  <2>2. CASE UNCHANGED vars
    <3>1. /\ UNCHANGED <<owners, tracker, pc, todo, done, rest, repairing, elapsed, renewed, missed>>
          /\ RefreshInterval' = RefreshInterval /\ Spread' = Spread
      BY <2>2 DEF vars, tasks, turn, history, RefreshInterval, Spread
    <3>2. LoopInv' /\ SampleInv'
      BY <3>1 DEF TimeInv, LoopInv, SampleInv, Refreshing
    <3>3. AgeInv'
      BY <3>1 DEF TimeInv, AgeInv, AgeBound, Refreshing, Waiting, Lag
    <3> QED BY <3>2, <3>3 DEF TimeInv
  <2> QED BY <2>1, <2>2
<1> QED BY <1>1, <1>2, TypeCorrect, PTL DEF Spec

(* An entry that the process has written and keeps track of does not lapse *)
(* as long as fewer than two refreshes in a row have failed, the jitter of *)
(* run_refresh_loop counting as one: for every lifetime above two seconds, *)
(* whatever else fails, however the batches of a refresh are ordered and   *)
(* whenever other tasks register and unregister.                           *)
THEOREM EntriesOutliveTheInterval == Spec => []TrackedNeverLapses
<1>1. TimeInv => TrackedNeverLapses
  BY AgesSuffice DEF TimeInv
<1> QED BY <1>1, TimeInvAlways, PTL
-----------------------------------------------------------------------------
(* Deleted chunks                                                          *)

(* A chunk stays forgotten while nobody takes it in hand.                  *)
LEMMA StaysForgotten ==
    ASSUME NEW c \in Chunks, Forgotten(c),
           owners'[c][Self] = Absent, c \notin tracker',
           \A t \in Tasks : c \in InHand(t)' => c \in InHand(t)
    PROVE  Forgotten(c)'
BY DEF Forgotten, Absent

(* A chunk stays with the task that unregisters it.                        *)
LEMMA StaysRemoved ==
    ASSUME TypeOK, NEW c \in Chunks, NEW t \in Control, Removed(c, t),
           pc'[t] = pc[t], todo'[t] = todo[t], done'[t] = done[t],
           owners[c][Self] = Absent => owners'[c][Self] = Absent,
           \A u \in Tasks \ {t} : c \in InHand(u)' => c \in InHand(u)
    PROVE  Removed(c, t)'
BY DEF Removed, Absent

(* A step keeps what is held of a chunk, when it adds no hand, keeps the   *)
(* entry away and leaves alone whoever unregisters the chunk.              *)
LEMMA HeldKept ==
    ASSUME TypeOK, NEW c \in Chunks, Held(c),
           c \in tracker' => c \in tracker \/ \E t \in Tasks : c \in done[t] /\ pc[t] # "unregister",
           owners[c][Self] = Absent => owners'[c][Self] = Absent,
           \A t \in Tasks : c \in InHand(t)' => c \in InHand(t),
           \A t \in Control : pc[t] = "unregister" =>
               pc'[t] = pc[t] /\ todo'[t] = todo[t] /\ done'[t] = done[t]
    PROVE  Held(c)'
<1>1. CASE Forgotten(c)
  <2>1. c \notin tracker'
    BY <1>1 DEF Forgotten, InHand
  <2>2. owners'[c][Self] = Absent
    BY <1>1 DEF Forgotten
  <2>3. Forgotten(c)'
    BY <1>1, <2>1, <2>2, StaysForgotten
  <2> QED BY <2>3 DEF Held
<1>2. ASSUME NEW t \in Control, Removed(c, t)
      PROVE  Held(c)'
  <2>1. pc'[t] = pc[t] /\ todo'[t] = todo[t] /\ done'[t] = done[t]
    BY <1>2 DEF Removed
  <2>2. Removed(c, t)'
    BY <1>2, <2>1, StaysRemoved
  <2> QED BY <2>2 DEF Held
<1> QED BY <1>1, <1>2 DEF Held

(* A held chunk is in nobody's hand who does not unregister it.            *)
LEMMA HeldHands ==
    ASSUME NEW c \in Chunks, Held(c), NEW u \in Tasks, c \in InHand(u)
    PROVE  u \in Control /\ pc[u] = "unregister"
BY DEF Held, Forgotten, Removed

(* Steps of the tasks.                                                     *)
LEMMA TaskHeld ==
    ASSUME TypeOK, LoopInv, NEW t \in Tasks, TaskStep(t), NEW c \in Chunks, Held(c)
    PROVE  Held(c)'
<1>0. rest' = rest
  BY DEF TaskStep, Track, Untrack, LookupOwners, TrackFound, RunScript, RemoveEntry, turn
<1>1. ASSUME NEW u \in Tasks, todo'[u] \cup done'[u] \subseteq todo[u] \cup done[u]
      PROVE  c \in InHand(u)' => c \in InHand(u)
  BY <1>0, <1>1 DEF InHand
<1>2. CASE Track(t) \/ TrackFound(t) \/ LookupOwners(t)
  <2>1. /\ owners' = owners /\ pc[t] # "unregister"
        /\ tracker' \subseteq tracker \cup done[t]
        /\ \A u \in Tasks : todo'[u] \cup done'[u] \subseteq todo[u] \cup done[u]
        /\ \A u \in Tasks : u # t => pc'[u] = pc[u] /\ todo'[u] = todo[u] /\ done'[u] = done[u]
    BY <1>2 DEF Track, TrackFound, LookupOwners, Call, TypeOK
  <2>2. \A u \in Control : pc[u] = "unregister" =>
            pc'[u] = pc[u] /\ todo'[u] = todo[u] /\ done'[u] = done[u]
    BY <2>1, TaskNames
  <2>3. \A u \in Tasks : c \in InHand(u)' => c \in InHand(u)
    BY <1>1, <2>1
  <2> QED BY <2>1, <2>2, <2>3, HeldKept
<1>3. CASE Untrack(t)
  <2>1. /\ pc[t] = "unregister" /\ todo[t] = {} /\ t \in Control /\ owners' = owners
        /\ tracker' = tracker \ done[t]
        /\ todo'[t] = {} /\ done'[t] = {}
        /\ \A u \in Tasks : u # t => pc'[u] = pc[u] /\ todo'[u] = todo[u] /\ done'[u] = done[u]
    BY <1>3 DEF Untrack, Call, TypeOK, LoopInv
  <2>2. \A u \in Tasks : c \in InHand(u)' => c \in InHand(u)
    BY <1>1, <2>1
  <2>3. CASE Forgotten(c)
    BY <2>1, <2>2, <2>3, StaysForgotten DEF Forgotten, Held
  <2>4. ASSUME NEW u \in Control, u # t, Removed(c, u)
        PROVE  Held(c)'
    <3>1. Removed(c, u)'
      BY <2>1, <2>2, <2>4, TaskNames, StaysRemoved
    <3> QED BY <3>1 DEF Held
  <2>5. CASE Removed(c, t)
    <3>1. c \in done[t] /\ owners'[c][Self] = Absent
      BY <2>1, <2>5 DEF Removed
    <3>2. ASSUME NEW u \in Tasks
          PROVE  c \notin InHand(u)'
      <4>1. CASE u = t
        BY <2>1, <4>1, TaskNames DEF InHand
      <4>2. CASE u # t
        BY <2>2, <2>5, <4>2 DEF Removed
      <4> QED BY <4>1, <4>2
    <3> QED BY <2>1, <3>1, <3>2 DEF Forgotten, Held, Absent
  <2> QED BY <2>3, <2>4, <2>5 DEF Held
<1>4. ASSUME NEW d \in Chunks, RunScript(t, d)
      PROVE  Held(c)'
  <2>1. Self \in Nodes
    BY DEF Nodes
  <2>2. PICK S : /\ owners' = [owners EXCEPT ![d] = Only(Written(owners[d], Self), S)]
                 /\ done' = [done EXCEPT ![t] = IF Self \in S THEN @ \cup {d} ELSE @]
    BY <1>4 DEF RunScript
  <2>3. /\ pc[t] = "register" /\ pc' = pc /\ tracker' = tracker /\ d \in todo[t]
        /\ todo' = [todo EXCEPT ![t] = @ \ {d}]
    BY <1>4 DEF RunScript
  <2>4. d # c
    <3>1. d = c => c \in InHand(t)
      BY <2>3 DEF InHand
    <3> QED BY <2>3, <3>1, HeldHands
  <2>5. owners'[c] = owners[c]
    BY <2>1, <2>2, <2>4, ScriptEffect DEF TypeOK
  <2>6. /\ \A u \in Tasks : u # t => todo'[u] = todo[u] /\ done'[u] = done[u]
        /\ todo'[t] \cup done'[t] \subseteq todo[t] \cup done[t]
    BY <2>2, <2>3 DEF TypeOK
  <2>7. \A u \in Tasks : c \in InHand(u)' => c \in InHand(u)
    BY <1>1, <2>6
  <2>8. \A u \in Control : pc[u] = "unregister" =>
            pc'[u] = pc[u] /\ todo'[u] = todo[u] /\ done'[u] = done[u]
    BY <2>3, <2>6, TaskNames
  <2> QED BY <2>3, <2>5, <2>7, <2>8, HeldKept
<1>5. ASSUME NEW d \in Chunks, RemoveEntry(t, d)
      PROVE  Held(c)'
  <2>1. /\ pc[t] = "unregister" /\ pc' = pc /\ tracker' = tracker /\ d \in todo[t]
        /\ todo'[t] = todo[t] \ {d} /\ done'[t] = done[t] \cup {d}
        /\ \A u \in Tasks : u # t => todo'[u] = todo[u] /\ done'[u] = done[u]
        /\ owners'[d][Self] = Absent
        /\ c # d => owners'[c] = owners[c]
    BY <1>5 DEF RemoveEntry, TypeOK, Nodes
  <2>2. \A u \in Tasks : c \in InHand(u)' => c \in InHand(u)
    BY <1>1, <2>1
  <2>3. owners[c][Self] = Absent => owners'[c][Self] = Absent
    BY <2>1
  <2>4. CASE Forgotten(c)
    BY <2>1, <2>2, <2>3, <2>4, StaysForgotten DEF Forgotten, Held
  <2>5. ASSUME NEW u \in Control, u # t, Removed(c, u)
        PROVE  Held(c)'
    <3>1. Removed(c, u)'
      BY <2>1, <2>2, <2>3, <2>5, TaskNames, StaysRemoved
    <3> QED BY <3>1 DEF Held
  <2>6. ASSUME t \in Control, Removed(c, t)
        PROVE  Held(c)'
    <3>1. c \in todo'[t] \cup done'[t] /\ (c \in done'[t] => owners'[c][Self] = Absent)
      BY <2>1, <2>6 DEF Removed
    <3>2. Removed(c, t)'
      BY <2>1, <2>2, <2>6, <3>1 DEF Removed, Absent
    <3> QED BY <2>6, <3>2 DEF Held
  <2> QED BY <2>4, <2>5, <2>6 DEF Held
<1> QED BY <1>2, <1>3, <1>4, <1>5 DEF TaskStep

(* The steps that take chunks in hand: calls of ChunkDB, walks and the     *)
(* refresh.                                                                *)
LEMMA TakeHeld ==
    ASSUME TypeOK, HeldInv,
           \/ \E t \in Control, S \in SUBSET Chunks :
                (S \cap stored = {} /\ Store(t, S)) \/ (S \subseteq stored /\ Delete(t, S))
           \/ SyncWalk \/ Repair \/ Refresh
    PROVE  HeldInv'
<1>1. ASSUME NEW t \in Tasks, NEW where, NEW S, Call(t, where, S), pc[t] # "unregister",
             NEW c \in Chunks, Held(c), c \notin S,
             UNCHANGED <<owners, tracker>>, c \in rest' => c \in rest
      PROVE  Held(c)'
  <2>1. /\ todo'[t] = S /\ done'[t] = {}
        /\ \A u \in Tasks : u # t => pc'[u] = pc[u] /\ todo'[u] = todo[u] /\ done'[u] = done[u]
    BY <1>1 DEF Call, TypeOK
  <2>2. \A u \in Tasks : c \in InHand(u)' => c \in InHand(u)
    BY <1>1, <2>1 DEF InHand
  <2>3. \A u \in Control : pc[u] = "unregister" =>
            pc'[u] = pc[u] /\ todo'[u] = todo[u] /\ done'[u] = done[u]
    BY <1>1, <2>1, TaskNames
  <2> QED BY <1>1, <2>2, <2>3, HeldKept
<1>2. ASSUME NEW t \in Control, NEW S \in SUBSET Chunks, S \cap stored = {}, Store(t, S)
      PROVE  HeldInv'
  <2>1. /\ t \in Tasks /\ pc[t] = "idle" /\ Call(t, "register", S)
        /\ stored' = stored \cup S /\ loose \subseteq loose'
        /\ UNCHANGED <<owners, tracker, rest>>
    BY <1>2, TaskNames DEF Store, Loosened, turn
  <2>2. ASSUME NEW c \in Chunks \ (stored' \cup loose')
        PROVE  Held(c)'
    <3>1. Held(c) /\ c \notin S
      BY <2>1 DEF HeldInv
    <3> QED BY <1>1, <2>1, <3>1
  <2> QED BY <2>2 DEF HeldInv
<1>3. ASSUME NEW t \in Control, NEW S \in SUBSET Chunks, S \subseteq stored, Delete(t, S)
      PROVE  HeldInv'
  <2>1. /\ t \in Tasks /\ pc[t] = "idle" /\ Call(t, "unregister", S)
        /\ stored' = stored \ S
        /\ loose' = (loose \ S) \cup {c \in S : Overlaps(t, c)}
        /\ UNCHANGED <<owners, tracker, rest>>
    BY <1>3, TaskNames DEF Delete, turn
  <2>2. ASSUME NEW c \in Chunks \ (stored' \cup loose'), c \notin S
        PROVE  Held(c)'
    <3>1. Held(c)
      BY <2>1, <2>2 DEF HeldInv
    <3> QED BY <1>1, <2>1, <2>2, <3>1
  <2>3. ASSUME NEW c \in Chunks \ (stored' \cup loose'), c \in S
        PROVE  Held(c)'
    <3>1. \A u \in Tasks \ {t} : c \notin InHand(u)
      BY <2>1, <2>3 DEF Overlaps
    <3>2. /\ pc'[t] = "unregister" /\ todo'[t] = S /\ done'[t] = {}
          /\ \A u \in Tasks : u # t => todo'[u] = todo[u] /\ done'[u] = done[u]
      BY <2>1 DEF Call, TypeOK
    <3>3. \A u \in Tasks \ {t} : c \notin InHand(u)'
      BY <2>1, <3>1, <3>2 DEF InHand
    <3>4. Removed(c, t)'
      BY <2>3, <3>2, <3>3 DEF Removed
    <3> QED BY <3>4 DEF Held
  <2> QED BY <2>2, <2>3 DEF HeldInv
<1>4. CASE SyncWalk
  <2> DEFINE batch == NextBatch(cursor[Sync], SyncBatch)
  <2>1. batch \subseteq stored
    BY BatchType
  <2>2. /\ pc[Sync] = "walk" /\ loose \subseteq loose' /\ Sync \in Tasks
        /\ UNCHANGED <<owners, tracker, stored, rest>>
        /\ \E where, S : Call(Sync, where, S) /\ S \subseteq batch
    BY <1>4, TaskNames DEF SyncWalk, Loosened
  <2> HIDE DEF batch
  <2>3. ASSUME NEW c \in Chunks \ (stored' \cup loose')
        PROVE  Held(c)'
    <3>1. Held(c) /\ c \notin batch
      BY <2>1, <2>2 DEF HeldInv
    <3> QED BY <1>1, <2>2, <3>1
  <2> QED BY <2>3 DEF HeldInv
<1>5. CASE Repair
  <2> DEFINE batch == NextBatch(cursor[Loop], RepairBatch)
  <2>1. batch \subseteq stored
    BY BatchType
  <2>2. /\ pc[Loop] = "repair" /\ loose \subseteq loose' /\ Loop \in Tasks
        /\ UNCHANGED <<owners, tracker, stored, rest>>
        /\ \E where, S : Call(Loop, where, S) /\ S \subseteq batch
    BY <1>5, TaskNames DEF Repair, Loosened
  <2> HIDE DEF batch
  <2>3. ASSUME NEW c \in Chunks \ (stored' \cup loose')
        PROVE  Held(c)'
    <3>1. Held(c) /\ c \notin batch
      BY <2>1, <2>2 DEF HeldInv
    <3> QED BY <1>1, <2>2, <3>1
  <2> QED BY <2>3 DEF HeldInv
<1>6. CASE Refresh
  <2>1. /\ pc[Loop] = "sleep" /\ Loop \in Tasks
        /\ loose' = loose \cup {c \in tracker : OverlapsRemoval(Loop, c)}
        /\ UNCHANGED <<owners, tracker, stored>> /\ rest' = tracker
        /\ \E where : Call(Loop, where, {})
    BY <1>6, TaskNames DEF Refresh, Loosened
  <2>2. ASSUME NEW c \in Chunks \ (stored' \cup loose')
        PROVE  Held(c)'
    <3>1. Held(c)
      BY <2>1 DEF HeldInv
    <3>2. c \notin tracker
      <4>1. CASE Forgotten(c)
        BY <4>1 DEF Forgotten
      <4>2. ASSUME NEW t \in Control, Removed(c, t), c \in tracker
            PROVE  FALSE
        <5>1. t \in Tasks \ {Loop} /\ pc[t] = "unregister" /\ c \in InHand(t)
          BY <4>2, TaskNames DEF Removed, InHand
        <5> QED BY <2>1, <4>2, <5>1 DEF OverlapsRemoval
      <4> QED BY <3>1, <4>1, <4>2 DEF Held
    <3> QED BY <1>1, <2>1, <3>1, <3>2
  <2> QED BY <2>2 DEF HeldInv
<1> QED BY <1>2, <1>3, <1>4, <1>5, <1>6

(* A step leaves no deleted chunk behind.                                  *)
LEMMA HeldInvStep ==
    ASSUME TypeOK, LoopInv, HeldInv, Next
    PROVE  HeldInv'
<1>1. ASSUME stored \subseteq stored', loose \subseteq loose',
             \A c \in Chunks : Held(c) => Held(c)'
      PROVE  HeldInv'
  BY <1>1 DEF HeldInv
<1>2. ASSUME NEW t \in Tasks, TaskStep(t)
      PROVE  HeldInv'
  <2>1. UNCHANGED <<stored, loose>>
    BY <1>2 DEF TaskStep, Track, Untrack, LookupOwners, TrackFound, RunScript, RemoveEntry, history
  <2> QED BY <1>1, <1>2, <2>1, TaskHeld
<1>3. ASSUME UNCHANGED <<stored, loose, tracker, tasks, rest>>,
             \A c \in Chunks : owners[c][Self] = Absent => owners'[c][Self] = Absent
      PROVE  HeldInv'
  <2>1. UNCHANGED <<pc, todo, done>>
    BY <1>3 DEF tasks
  <2>2. ASSUME NEW c \in Chunks, Held(c)
        PROVE  Held(c)'
    <3>1. \A u \in Tasks : c \in InHand(u)' => c \in InHand(u)
      BY <1>3, <2>1 DEF InHand
    <3> QED BY <1>3, <2>1, <2>2, <3>1, HeldKept
  <2> QED BY <1>1, <1>3, <2>2
<1>4. CASE \E n \in Others, c \in Chunks : OtherRegisters(n, c)
  <2>1. PICK n \in Others, d \in Chunks : OtherRegisters(n, d)
    BY <1>4
  <2>2. PICK S : owners' = [owners EXCEPT ![d] = Only(Written(owners[d], n), S)]
    BY <2>1 DEF OtherRegisters
  <2>3. n \in Nodes /\ n # Self
    BY IndexAssumption DEF Nodes
  <2>4. /\ \A c \in Chunks : c # d => owners'[c] = owners[c]
        /\ owners'[d][Self] \in {owners[d][Self], Absent}
    BY <2>2, <2>3, ScriptEffect DEF TypeOK
  <2> QED BY <1>3, <2>1, <2>4 DEF OtherRegisters, turn, history
<1>5. CASE \E c \in Chunks : ExpireKey(c)
  <2>1. PICK d \in Chunks : ExpireKey(d)
    BY <1>5
  <2>2. \A c \in Chunks : owners[c][Self] = Absent => owners'[c][Self] = Absent
    BY <2>1 DEF ExpireKey, TypeOK, Nodes
  <2> QED BY <1>3, <2>1, <2>2 DEF ExpireKey, turn, history
<1>6. CASE DropConnection
  BY <1>3, <1>6 DEF DropConnection, turn, history
<1>7. CASE Tick
  <2>1. \A c \in Chunks : owners[c][Self] = Absent => owners'[c][Self] = Absent
    BY <1>7 DEF Tick, TypeOK, Nodes, Absent
  <2> QED BY <1>3, <1>7, <2>1 DEF Tick, history
<1>8. ASSUME JitterEnds \/ \E B \in SUBSET rest : RefreshBatch(B)
      PROVE  HeldInv'
  <2>1. /\ Loop \in Tasks /\ Loop \notin Control /\ UNCHANGED <<owners, tracker, stored, loose>>
        /\ rest' \cup todo'[Loop] \subseteq rest /\ done'[Loop] = {}
        /\ \A u \in Tasks : u # Loop => pc'[u] = pc[u] /\ todo'[u] = todo[u] /\ done'[u] = done[u]
    BY <1>8, TaskNames DEF JitterEnds, RefreshBatch, Call, TypeOK, history
  <2>2. ASSUME NEW c \in Chunks, Held(c)
        PROVE  Held(c)'
    <3>1. \A u \in Tasks : c \in InHand(u)' => c \in InHand(u)
      BY <2>1 DEF InHand
    <3>2. \A u \in Control : pc'[u] = pc[u] /\ todo'[u] = todo[u] /\ done'[u] = done[u]
      BY <2>1, TaskNames
    <3> QED BY <2>1, <2>2, <3>1, <3>2, HeldKept
  <2> QED BY <1>1, <2>1, <2>2
<1>9. ASSUME NEW t \in Tasks, Fail(t)
      PROVE  HeldInv'
  <2>1. /\ UNCHANGED <<owners, tracker, stored>> /\ rest' \subseteq rest
        /\ loose' = IF pc[t] = "unregister" THEN loose \cup InHand(t) ELSE loose
        /\ todo'[t] = {} /\ done'[t] = {}
        /\ \A u \in Tasks : u # t => pc'[u] = pc[u] /\ todo'[u] = todo[u] /\ done'[u] = done[u]
    BY <1>9 DEF Fail, Call, TypeOK
  <2>2. ASSUME NEW c \in Chunks \ (stored' \cup loose')
        PROVE  Held(c)'
    <3>1. Held(c)
      BY <2>1 DEF HeldInv
    <3>2. \A u \in Tasks : c \in InHand(u)' => c \in InHand(u)
      BY <2>1 DEF InHand
    <3>3. CASE Forgotten(c)
      BY <2>1, <3>2, <3>3, StaysForgotten DEF Forgotten, Held
    <3>4. ASSUME NEW u \in Control, Removed(c, u)
          PROVE  Held(c)'
      <4>1. u # t
        <5>1. c \in InHand(u) /\ pc[u] = "unregister"
          BY <3>4 DEF Removed, InHand
        <5> QED BY <2>1, <5>1
      <4>2. Removed(c, u)'
        BY <2>1, <3>2, <3>4, <4>1, TaskNames, StaysRemoved
      <4> QED BY <4>2 DEF Held
    <3> QED BY <3>1, <3>3, <3>4 DEF Held
  <2> QED BY <2>2 DEF HeldInv
<1> QED
  BY <1>2, <1>4, <1>5, <1>6, <1>7, <1>8, <1>9, StepCases, TakeHeld, Zenon

(* A chunk that ChunkDB has deleted is neither listed under this node nor  *)
(* tracked once its unregistration is through, unless that failed or met a *)
(* registration, refresh or repair of the same chunk: for any number of    *)
(* calls under way at once.                                                *)
THEOREM DeletionsAreThorough == Spec => []DeletedIsUnlisted
<1>1. Init => HeldInv
  BY DEF Init, HeldInv, Held, Forgotten, InHand
<1>2. TypeOK /\ LoopInv /\ HeldInv /\ [Next]_vars => HeldInv'
  <2> SUFFICES ASSUME TypeOK, LoopInv, HeldInv, [Next]_vars PROVE HeldInv'
    OBVIOUS
  <2>1. CASE Next
    BY <2>1, HeldInvStep
  <2>2. CASE UNCHANGED vars
    BY <2>2 DEF vars, tasks, turn, history, HeldInv, Held, Forgotten, Removed, InHand, Absent
  <2> QED BY <2>1, <2>2
<1>3. HeldInv => DeletedIsUnlisted
  <2> SUFFICES ASSUME HeldInv, NEW c \in Chunks \ (stored \cup loose),
                      \A t \in Tasks : c \notin InHand(t)
               PROVE  owners[c][Self] = Absent /\ c \notin tracker
    BY DEF DeletedIsUnlisted
  <2>1. ~\E t \in Control : Removed(c, t)
    BY TaskNames DEF Removed, InHand
  <2>2. Held(c)
    BY DEF HeldInv
  <2> QED BY <2>1, <2>2 DEF Held, Forgotten
<1>4. TimeInv => TypeOK /\ LoopInv
  BY DEF TimeInv
<1> QED BY <1>1, <1>2, <1>3, <1>4, TimeInvAlways, PTL DEF Spec
=============================================================================
