----------------------------- MODULE ChunkIndex -----------------------------
(***************************************************************************)
(* The chunk index: which nodes have a chunk, kept in Redis with a         *)
(* lifetime, from src/backend/peer.rs: the register script, IndexTracker,  *)
(* RedisChunkIndex, IndexMaintainer and the control requests.              *)
(*                                                                         *)
(* One node is modelled in full and the others by their registrations.     *)
(* Calls come from tasks: control tasks serve ChunkDB's register and       *)
(* unregister calls, Sync walks ChunkDB once when the server starts, Loop  *)
(* refreshes what the tracker holds and then repairs one batch.  Commands  *)
(* to Redis for different keys are separate steps, whatever pipeline they  *)
(* share.                                                                  *)
(*                                                                         *)
(* Time is relative: an entry is kept with its age.  A registration is     *)
(* tracked in the unit of time in which register_many sampled the clock.   *)
(* Chunks are numbers in the order in which ChunkDB walks its keys.        *)
(***************************************************************************)
EXTENDS Integers, FiniteSets, FiniteSetsExt

CONSTANTS
    NumChunks,     \* chunks, numbered from 1
    Self,          \* the node modelled in full
    Others,        \* other nodes
    Control,       \* tasks that serve register and unregister calls
    Sync,          \* the task of IndexMaintainer::sync
    Loop,          \* the task of run_refresh_loop
    TTL,           \* --chunk-index-ttl
    MaxOwners,     \* MAX_CHUNK_OWNERS
    RegisterBatch, \* REDIS_REGISTER_BATCH_SIZE
    SyncBatch,     \* INDEX_SYNC_BATCH_SIZE
    RepairBatch,   \* INDEX_REPAIR_BATCH_SIZE
    MaxFailures    \* bound: calls that fail

Chunks == 1 .. NumChunks
Nodes == Others \cup {Self}
Tasks == Control \cup {Sync, Loop}
Absent == -1                  \* no entry
Cap == TTL + 1                \* ages beyond the TTL are not told apart

ASSUME IndexAssumption ==
    /\ NumChunks \in Nat
    /\ IsFiniteSet(Others) /\ Self \notin Others
    /\ Sync \notin Control /\ Loop \notin Control /\ Sync # Loop
    /\ TTL \in Nat /\ MaxOwners \in Nat \ {0}
    /\ RegisterBatch \in Nat \ {0} /\ SyncBatch \in Nat \ {0} /\ RepairBatch \in Nat \ {0}
    /\ MaxFailures \in Nat

VARIABLES
    owners,     \* Redis: chunk -> node -> age of its entry, or Absent
    tracker,    \* IndexTracker: chunks the node means to keep registered
    stored,     \* ChunkDB of the node
    conn,       \* the cached connection to Redis
    pc,         \* task -> where it is
    todo,       \* task -> chunks it has still to send a command for
    done,       \* task -> chunks whose command has been answered and that count
    rest,       \* chunks of the refresh that are in later batches
    cursor,     \* Sync and Loop -> last chunk their walk has seen, 0 at the start
    repairing,  \* the loop's turn has come to its repair
    elapsed,    \* seconds since the loop's interval began
    failures,   \* failed calls so far
    renewed,    \* history: chunks whose entry this process has written itself
    loose,      \* history: chunks whose unregistration failed or met a registration
    missed      \* history: refreshes in a row that have failed, up to 2; the jitter
                \* before the first turn counts as one

tasks == <<pc, todo, done>>
turn == <<rest, cursor, repairing, elapsed>>
history == <<renewed, loose, missed>>
vars == <<owners, tracker, stored, conn, tasks, turn, failures, history>>

(* Mutant: an entry is refreshed when its lifetime ends.                     *)
RefreshIntervalWhole == TTL

(* refresh_interval: a third of the lifetime, at least a second.             *)
RefreshInterval == IF TTL \div 3 > 1 THEN TTL \div 3 ELSE 1

(* refresh_batch_spacing: the batches of a refresh are spread over nine      *)
(* tenths of the interval.  Time is that of the scores in Redis, whole       *)
(* seconds of the clock: a fraction of a second may be a whole one in them,  *)
(* so the spread and the jitter are rounded up.                              *)
Spread == (9 * RefreshInterval + 9) \div 10

TypeOK ==
    /\ owners \in [Chunks -> [Nodes -> Absent .. Cap]]
    /\ tracker \subseteq Chunks
    /\ stored \subseteq Chunks
    /\ conn \in {"none", "up", "down"}
    /\ pc \in [Tasks -> {"idle", "register", "unregister", "lookup", "found",
                         "walk", "jitter", "sleep", "batch", "repair"}]
    /\ todo \in [Tasks -> SUBSET Chunks]
    /\ done \in [Tasks -> SUBSET Chunks]
    /\ rest \subseteq Chunks
    /\ cursor \in [{Sync, Loop} -> 0 .. NumChunks]
    /\ repairing \in BOOLEAN
    /\ elapsed \in 0 .. RefreshInterval
    /\ failures \in 0 .. MaxFailures
    /\ renewed \subseteq Chunks
    /\ loose \subseteq Chunks
    /\ missed \in 0 .. 2

(* run_inner starts the walk of sync and the refresh loop.  ChunkDB and Redis *)
(* are as the former process has left them: what is listed and no longer     *)
(* stored is what a failure or a kill has kept from being unregistered.      *)
Init ==
    /\ owners \in [Chunks -> {[n \in Nodes |-> IF n = Self THEN a ELSE Absent] : a \in {Absent, 0, TTL}}]
    /\ tracker = {}
    /\ stored \in SUBSET Chunks
    /\ conn = "none"
    /\ pc = [t \in Tasks |-> CASE t = Loop -> "jitter" [] t = Sync -> "walk" [] OTHER -> "idle"]
    /\ todo = [t \in Tasks |-> {}] /\ done = [t \in Tasks |-> {}]
    /\ rest = {} /\ repairing = FALSE /\ elapsed = 0
    /\ cursor = [t \in {Sync, Loop} |-> 0]
    /\ failures = 0
    /\ renewed = {}
    /\ loose = {c \in Chunks \ stored : owners[c][Self] # Absent}
    /\ missed = 1
----------------------------------------------------------------------------
(* Redis                                                                     *)

Present(entries) == {n \in Nodes : entries[n] # Absent}

(* lookup_owner_values: the nodes whose entry is not older than the TTL.     *)
LiveOwners(c) == {n \in Nodes : owners[c][n] \in 0 .. TTL}

(* The register script's first half, run for node n: entries as old as the   *)
(* TTL go and n's is written.                                                *)
Written(entries, n) ==
    [m \in Nodes |-> IF m = n THEN 0 ELSE IF entries[m] < TTL THEN entries[m] ELSE Absent]

(* Its second half: of more than MaxOwners the highest scores stay.  Equal   *)
(* scores are in the order of the addresses, which is left open.             *)
Retained(entries) ==
    {S \in SUBSET Present(entries) :
       /\ Cardinality(S) <= MaxOwners
       /\ S # Present(entries) => Cardinality(S) = MaxOwners
       /\ \A k \in S, d \in Present(entries) \ S : entries[k] <= entries[d]}

Only(entries, S) == [m \in Nodes |-> IF m \in S THEN entries[m] ELSE Absent]

(* Another node registers a chunk.                                           *)
OtherRegisters(n, c) ==
    LET entries == Written(owners[c], n)
    IN /\ \E S \in Retained(entries) : owners' = [owners EXCEPT ![c] = Only(entries, S)]
       /\ UNCHANGED <<tracker, stored, conn, tasks, turn, failures, history>>

(* EXPIRE: a key goes when nobody has registered the chunk for the TTL.      *)
ExpireKey(c) ==
    /\ Present(owners[c]) # {}
    /\ \A n \in Present(owners[c]) : owners[c][n] >= TTL
    /\ owners' = [owners EXCEPT ![c] = [n \in Nodes |-> Absent]]
    /\ UNCHANGED <<tracker, stored, conn, tasks, turn, failures, history>>
----------------------------------------------------------------------------
(* Tasks and their calls                                                     *)

(* Chunks a task has in hand: it has read them from the tracker, ChunkDB or  *)
(* its caller and may still send commands for them.                          *)
InHand(t) == todo[t] \cup done[t] \cup (IF t = Loop THEN rest ELSE {})

Overlaps(t, c) == \E u \in Tasks \ {t} : c \in InHand(u)
OverlapsRemoval(t, c) == \E u \in Tasks \ {t} : pc[u] = "unregister" /\ c \in InHand(u)

(* The history of chunks that a registration takes in hand while they are    *)
(* being unregistered.                                                       *)
Loosened(t, S) == loose \cup {c \in S : OverlapsRemoval(t, c)}

Call(t, where, S) ==
    /\ pc' = [pc EXCEPT ![t] = where]
    /\ todo' = [todo EXCEPT ![t] = S]
    /\ done' = [done EXCEPT ![t] = {}]

(* Where a task goes on when its call has returned.                          *)
After(t) ==
    CASE t = Sync -> "walk"
      [] t = Loop /\ repairing -> "sleep"
      [] t = Loop /\ ~repairing /\ rest # {} -> "batch"
      [] t = Loop /\ ~repairing /\ rest = {} -> "repair"
      [] OTHER -> "idle"

(* redis_conn: the cached connection, or a new one.                          *)
RedisConn == conn # "down" /\ conn' = "up"

(* ChunkDB stores chunks; ControlRequest, ControlBatchRequest or             *)
(* SyncChunkIndexControl passes the call on to register_many.                *)
Store(t, S) ==
    /\ pc[t] = "idle"
    /\ stored' = stored \cup S
    /\ Call(t, "register", S)
    /\ loose' = Loosened(t, S)
    /\ UNCHANGED <<owners, tracker, conn, turn, failures, renewed, missed>>

(* ChunkDB deletes chunks, and the call goes on to unregister_many.          *)
Delete(t, S) ==
    /\ pc[t] = "idle"
    /\ stored' = stored \ S
    /\ Call(t, "unregister", S)
    /\ loose' = (loose \ S) \cup {c \in S : Overlaps(t, c)}
    /\ UNCHANGED <<owners, tracker, conn, turn, failures, renewed, missed>>

(* register_many: one invocation of the script.  A chunk whose entry was     *)
(* evicted at once does not count.                                           *)
RunScript(t, c) ==
    LET entries == Written(owners[c], Self)
    IN /\ pc[t] = "register"
       /\ RedisConn
       /\ c \in todo[t]
       /\ todo' = [todo EXCEPT ![t] = @ \ {c}]
       /\ \E S \in Retained(entries) :
            /\ owners' = [owners EXCEPT ![c] = Only(entries, S)]
            /\ done' = [done EXCEPT ![t] = IF Self \in S THEN @ \cup {c} ELSE @]
       /\ UNCHANGED <<tracker, stored, pc, turn, failures, history>>

(* The end of register_many: insert_many of what was retained.               *)
Track(t) ==
    /\ pc[t] = "register"
    /\ todo[t] = {}
    /\ tracker' = tracker \cup done[t]
    /\ renewed' = renewed \cup done[t]
    /\ missed' = IF t = Loop /\ ~repairing /\ rest = {} THEN 0 ELSE missed
    /\ Call(t, After(t), {})
    /\ UNCHANGED <<owners, stored, conn, turn, failures, loose>>

(* unregister_many: one ZREM.                                                *)
RemoveEntry(t, c) ==
    /\ pc[t] = "unregister"
    /\ RedisConn
    /\ c \in todo[t]
    /\ todo' = [todo EXCEPT ![t] = @ \ {c}]
    /\ done' = [done EXCEPT ![t] = @ \cup {c}]
    /\ owners' = [owners EXCEPT ![c][Self] = Absent]
    /\ UNCHANGED <<tracker, stored, pc, turn, failures, history>>

(* Mutant: the tracker keeps what was unregistered.                          *)
UntrackNot(t) ==
    /\ pc[t] = "unregister"
    /\ todo[t] = {}
    /\ Call(t, After(t), {})
    /\ UNCHANGED <<owners, tracker, stored, conn, turn, failures, history>>

(* Its end: remove_many.                                                     *)
Untrack(t) ==
    /\ pc[t] = "unregister"
    /\ todo[t] = {}
    /\ tracker' = tracker \ done[t]
    /\ renewed' = renewed \ done[t]
    /\ Call(t, After(t), {})
    /\ UNCHANGED <<owners, stored, conn, turn, failures, loose, missed>>
----------------------------------------------------------------------------
(* Sync and repair                                                           *)

(* next_chunk_batch: the next stored chunks behind a cursor.                 *)
NextBatch(from, size) ==
    {c \in stored : c > from /\ Cardinality({d \in stored : from < d /\ d < c}) < size}

(* sync_chunks: look the owners up; chunks that list this node are found,    *)
(* those that have room for an owner are to be registered.                   *)
LookupOwners(t) ==
    /\ pc[t] = "lookup"
    /\ RedisConn
    /\ pc' = [pc EXCEPT ![t] = "found"]
    /\ done' = [done EXCEPT ![t] = {c \in todo[t] : Self \in LiveOwners(c)}]
    /\ todo' = [todo EXCEPT ![t] =
                  {c \in @ : Self \notin LiveOwners(c) /\ Cardinality(LiveOwners(c)) < MaxOwners}]
    /\ UNCHANGED <<owners, tracker, stored, turn, failures, history>>

TrackFound(t) ==
    /\ pc[t] = "found"
    /\ tracker' = tracker \cup done[t]
    /\ IF todo[t] = {} THEN Call(t, After(t), {}) ELSE Call(t, "register", todo[t])
    /\ UNCHANGED <<owners, stored, conn, turn, failures, history>>

(* IndexMaintainer::sync: the next batch, until there is none.               *)
SyncWalk ==
    LET batch == NextBatch(cursor[Sync], SyncBatch)
    IN /\ pc[Sync] = "walk"
       /\ \/ batch = {} /\ Call(Sync, "idle", {}) /\ UNCHANGED cursor
          \/ batch # {} /\ Call(Sync, "lookup", batch) /\ cursor' = [cursor EXCEPT ![Sync] = Max(batch)]
       /\ loose' = Loosened(Sync, batch)
       /\ UNCHANGED <<owners, tracker, stored, conn, rest, repairing, elapsed, failures, renewed, missed>>

(* IndexMaintainer::repair: the next batch; a walk that has come to its end  *)
(* starts again with the next turn.  repair_missing_chunks leaves tracked    *)
(* chunks out.                                                               *)
Repair ==
    LET batch == NextBatch(cursor[Loop], RepairBatch)
        candidates == batch \ tracker
    IN /\ pc[Loop] = "repair"
       /\ cursor' = [cursor EXCEPT ![Loop] = IF batch = {} THEN 0 ELSE Max(batch)]
       /\ Call(Loop, IF candidates = {} THEN "sleep" ELSE "lookup", candidates)
       /\ repairing' = TRUE
       /\ loose' = Loosened(Loop, candidates)
       /\ UNCHANGED <<owners, tracker, stored, conn, rest, elapsed, failures, renewed, missed>>
----------------------------------------------------------------------------
(* run_refresh_loop                                                          *)

JitterEnds ==
    /\ pc[Loop] = "jitter"
    /\ Call(Loop, "sleep", {})
    /\ elapsed' = 0
    /\ UNCHANGED <<owners, tracker, stored, conn, rest, cursor, repairing, failures, history>>

(* A tick of the loop: refresh_registrations takes a snapshot of the tracker.*)
Refresh ==
    /\ pc[Loop] = "sleep"
    /\ elapsed = RefreshInterval
    /\ elapsed' = 0
    /\ rest' = tracker
    /\ repairing' = FALSE
    /\ Call(Loop, IF tracker = {} THEN "repair" ELSE "batch", {})
    /\ loose' = Loosened(Loop, tracker)
    /\ missed' = IF tracker = {} THEN 0 ELSE missed
    /\ UNCHANGED <<owners, tracker, stored, conn, cursor, failures, renewed>>

(* Its next batch, in the order of a hash set.                               *)
RefreshBatch(B) ==
    /\ pc[Loop] = "batch"
    /\ B \subseteq rest
    /\ Cardinality(B) = Min({RegisterBatch, Cardinality(rest)})
    /\ Call(Loop, "register", B)
    /\ rest' = rest \ B
    /\ UNCHANGED <<owners, tracker, stored, conn, cursor, repairing, elapsed, failures, history>>
----------------------------------------------------------------------------
(* Failures and time                                                         *)

(* Mutant: an error of the walk, passed on, ends the refresh loop as well.   *)
FailEndsLoop(t) ==
    LET ended == IF t = Sync THEN {Sync, Loop} ELSE {t}
    IN /\ pc[t] \in {"register", "unregister", "lookup", "walk", "repair"}
       /\ IF conn = "down" THEN UNCHANGED failures
                           ELSE failures < MaxFailures /\ failures' = failures + 1
       /\ pc' = [u \in Tasks |-> IF u \notin ended THEN pc[u] ELSE IF t = Loop THEN "sleep" ELSE "idle"]
       /\ todo' = [u \in Tasks |-> IF u \in ended THEN {} ELSE todo[u]]
       /\ done' = [u \in Tasks |-> IF u \in ended THEN {} ELSE done[u]]
       /\ rest' = IF Loop \in ended THEN {} ELSE rest
       /\ loose' = IF pc[t] = "unregister" THEN loose \cup InHand(t) ELSE loose
       /\ missed' = IF Loop \in ended THEN 2 ELSE missed
       /\ UNCHANGED <<owners, tracker, stored, conn, cursor, repairing, elapsed, renewed>>

(* A call fails: because the connection is broken, which nothing repairs, or *)
(* on its way to Redis or to ChunkDB, with part of its commands executed.    *)
(* Sync gives up, the loop goes on to the repair or sleeps.                  *)
Fail(t) ==
    /\ pc[t] \in {"register", "unregister", "lookup", "walk", "repair"}
    /\ IF conn = "down" THEN UNCHANGED failures
                        ELSE failures < MaxFailures /\ failures' = failures + 1
    /\ Call(t, CASE t = Loop -> IF repairing \/ pc[t] = "repair" THEN "sleep" ELSE "repair"
                 [] OTHER -> "idle", {})
    /\ rest' = IF t = Loop THEN {} ELSE rest
    /\ loose' = IF pc[t] = "unregister" THEN loose \cup InHand(t) ELSE loose
    /\ missed' = IF t = Loop /\ ~repairing /\ pc[t] = "register"
                   THEN IF missed = 0 THEN 1 ELSE 2
                   ELSE missed
    /\ UNCHANGED <<owners, tracker, stored, conn, cursor, repairing, elapsed, renewed>>

(* Redis closes the connection.                                              *)
DropConnection ==
    /\ conn = "up"
    /\ conn' = "down"
    /\ UNCHANGED <<owners, tracker, stored, tasks, turn, failures, history>>

(* How late the loop may be: its timers fire in time, a batch is sent when   *)
(* it is due and a turn ends before the next one.                            *)
LoopInTime ==
    CASE pc[Loop] = "jitter" -> elapsed < RefreshInterval
      [] pc[Loop] \in {"batch", "register"} /\ ~repairing -> elapsed < Spread
      [] OTHER -> elapsed < RefreshInterval

Tick ==
    /\ \A t \in Tasks : pc[t] = "register" => done[t] = {}
    /\ LoopInTime
    /\ elapsed' = elapsed + 1
    /\ owners' = [c \in Chunks |-> [n \in Nodes |->
                    IF owners[c][n] \in 0 .. Cap - 1 THEN owners[c][n] + 1 ELSE owners[c][n]]]
    /\ UNCHANGED <<tracker, stored, conn, tasks, rest, cursor, repairing, failures, history>>

TaskStep(t) ==
    \/ Track(t) \/ Untrack(t) \/ LookupOwners(t) \/ TrackFound(t)
    \/ \E c \in Chunks : RunScript(t, c) \/ RemoveEntry(t, c)

LoopStep ==
    \/ JitterEnds \/ Refresh \/ Repair \/ \E B \in SUBSET rest : RefreshBatch(B)
    \/ TaskStep(Loop)

Next ==
    \/ \E n \in Others, c \in Chunks : OtherRegisters(n, c)
    \/ \E c \in Chunks : ExpireKey(c)
    \/ \E t \in Control :
         \/ \E S \in (SUBSET (Chunks \ stored)) \ {{}} : Store(t, S)
         \/ \E S \in (SUBSET stored) \ {{}} : Delete(t, S)
         \/ TaskStep(t)
    \/ SyncWalk \/ TaskStep(Sync)
    \/ LoopStep
    \/ \E t \in Tasks : Fail(t)
    \/ DropConnection
    \/ Tick

(* Tasks keep running, the loop's timers fire and time goes on.  Nothing is  *)
(* assumed of callers, other nodes, failures or Redis's connection.          *)
Fairness ==
    /\ \A t \in Control \cup {Sync} : WF_vars(TaskStep(t))
    /\ WF_vars(SyncWalk) /\ WF_vars(LoopStep)
    /\ \A t \in Tasks : WF_vars(conn = "down" /\ Fail(t))
    /\ SF_vars(Tick)

Spec == Init /\ [][Next]_vars
FairSpec == Spec /\ Fairness
----------------------------------------------------------------------------
(* Properties                                                                *)

(* An entry that the process has written and keeps track of does not lapse   *)
(* between two refreshes, although a refresh is spread over the interval, a  *)
(* batch may take its place anywhere in it, and one refresh may fail: two    *)
(* intervals and the spread fit into the TTL.  Two in a row are too much,    *)
(* and so is the first one alone, which comes up to two intervals after an   *)
(* entry that was written during the jitter.  A TTL of one or two seconds    *)
(* leaves no room: the interval is a second all the same.                    *)
TrackedNeverLapses ==
    TTL > 2 /\ missed <= 1 => \A c \in renewed \cap tracker : owners[c][Self] <= TTL

(* A chunk that ChunkDB has deleted is neither listed in Redis nor tracked   *)
(* once its unregistration is through, unless that failed or the chunk was   *)
(* in the hands of a registration, a refresh or a repair at the time.        *)
DeletedIsUnlisted ==
    \A c \in Chunks \ (stored \cup loose) :
        (\A t \in Tasks : c \notin InHand(t)) => owners[c][Self] = Absent /\ c \notin tracker

(* A stored chunk gets listed, even when its registration was lost, refused, *)
(* evicted or cut off by a restart: the refresh or the repair's walk comes   *)
(* to it.  The exceptions: others take all its places, or the connection to  *)
(* Redis is gone, since nothing replaces it.                                 *)
StoredGetsListed ==
    \A c \in Chunks :
        c \in stored ~> \/ c \notin stored
                        \/ Self \in LiveOwners(c)
                        \/ Cardinality(LiveOwners(c)) >= MaxOwners
                        \/ conn = "down"
=============================================================================
