------------------------------ MODULE Session ------------------------------
(***************************************************************************)
(* Requests to one chunk server over multiplexed sessions, from            *)
(* src/backend/peer.rs: SessionPool, MultiplexedSession and the connection *)
(* side of RequestHandler.                                                 *)
(*                                                                         *)
(* A caller acquires a session of the pool or connects a new one, enters   *)
(* its request in the session's table of pending requests, writes it and   *)
(* waits for the response with a timeout.  Each session has a reader task  *)
(* that matches responses to the table by request id; the server answers   *)
(* in any order.  Whoever sees the session fail closes it: sets its flag,  *)
(* then takes the table and fails every request in it.                     *)
(*                                                                         *)
(* A request asks for a chunk, and a response is the chunk it answers for  *)
(* (found, missing or an error of the server alike).  Time is abstracted:  *)
(* a timeout may come at any moment of a wait, and a session without       *)
(* requests may count as idle for long at any moment.                      *)
(***************************************************************************)
EXTENDS Integers, FiniteSets

CONSTANTS
    Callers,       \* tasks that send requests
    Chunks,        \* what they ask for
    MaxSessions,   \* bound: sessions that are ever connected
    MaxSize,       \* CONNECTION_POOL_MAX_SIZE
    MinIdle,       \* CONNECTION_POOL_MIN_IDLE
    MaxInflight,   \* SESSION_MAX_INFLIGHT
    MaxFailures,   \* bound: writes that fail although the peer is there
    MaxRequests,   \* bound: requests that are begun
    None,          \* no session, no reply
    Error,         \* a request that failed
    Mixed          \* a request the server has put together from parts of two

Sessions == 1 .. MaxSessions

ASSUME SessionAssumption ==
    /\ IsFiniteSet(Callers)
    /\ MaxSessions \in Nat /\ MaxSize \in Nat \ {0} /\ MinIdle \in Nat
    /\ MaxInflight \in Nat \ {0} /\ MaxFailures \in Nat /\ MaxRequests \in Nat
    /\ None \notin Sessions \cup Chunks \cup {Error, Mixed}
    /\ Error \notin Chunks \cup {Mixed}
    /\ Mixed \notin Chunks

VARIABLES
    pool,       \* sessions in the pool
    permit,     \* a notification of the pool that nobody has waited for
    closed,     \* session -> its closed flag
    pending,    \* session -> ids in its table of pending requests
    inflight,   \* session -> its count of requests
    nextId,     \* session -> its next request id
    rpc,        \* session -> where its reader task is
    wire,       \* session -> <<id, chunk>> requests the server will answer
    stream,     \* session -> 0; the request its byte stream breaks off in; -1 after that
    pc,         \* caller -> where it is
    want,       \* caller -> the chunk it asks for
    sess,       \* caller -> its session
    rid,        \* caller -> its request id
    reply,      \* caller -> what has been sent to its oneshot channel
    failures,   \* failures so far
    requests    \* requests so far

sessionVars == <<closed, pending, inflight, nextId, rpc, wire, stream>>
callerVars == <<pc, want, sess, rid, reply>>
vars == <<pool, permit, sessionVars, callerVars, failures, requests>>

\* A caller whose request has an id and is not yet done with.
EnteredPcs == {"write", "unwrite", "await", "untimed"}
\* ... and counts in inflight.
CountedPcs == {"write", "unwrite", "await"}
AcquirePcs == {"acquire", "wait", "connect", "push"}
CallerPcs == EnteredPcs \cup AcquirePcs \cup {"idle", "pick", "check", "insert", "close", "take", "prune"}
ReaderPcs == {"unborn", "run", "close", "take", "done"}

TypeOK ==
    /\ pool \in SUBSET Sessions
    /\ permit \in BOOLEAN
    /\ closed \in [Sessions -> BOOLEAN]
    /\ pending \in [Sessions -> SUBSET Nat]
    /\ inflight \in [Sessions -> Nat]
    /\ nextId \in [Sessions -> Nat \ {0}]
    /\ rpc \in [Sessions -> ReaderPcs]
    /\ wire \in [Sessions -> SUBSET (Nat \X (Chunks \cup {Mixed}))]
    /\ stream \in [Sessions -> Int]
    /\ pc \in [Callers -> CallerPcs]
    /\ want \in [Callers -> Chunks \cup {None}]
    /\ sess \in [Callers -> Sessions \cup {None}]
    /\ rid \in [Callers -> Nat]
    /\ reply \in [Callers -> Chunks \cup {None, Error, Mixed}]
    /\ failures \in 0 .. MaxFailures
    /\ requests \in 0 .. MaxRequests

\* MultiplexedSession::new gives a session these values when it is connected.
Init ==
    /\ pool = {} /\ permit = FALSE
    /\ closed = [s \in Sessions |-> FALSE]
    /\ pending = [s \in Sessions |-> {}]
    /\ inflight = [s \in Sessions |-> 0]
    /\ nextId = [s \in Sessions |-> 1]
    /\ rpc = [s \in Sessions |-> "unborn"]
    /\ wire = [s \in Sessions |-> {}]
    /\ stream = [s \in Sessions |-> 0]
    /\ pc = [c \in Callers |-> "idle"]
    /\ want = [c \in Callers |-> None]
    /\ sess = [c \in Callers |-> None]
    /\ rid = [c \in Callers |-> 0]
    /\ reply = [c \in Callers |-> None]
    /\ failures = 0 /\ requests = 0
-----------------------------------------------------------------------------
Goto(c, label) == pc' = [pc EXCEPT ![c] = label]

\* The call is over; its locals are gone.
Clear(c) ==
    /\ sess' = [sess EXCEPT ![c] = None]
    /\ rid' = [rid EXCEPT ![c] = 0]
    /\ want' = [want EXCEPT ![c] = None]

(* send_request returned an error: query_peer passes it on at once, the     *)
(* local client and health_check prune the pool first.                      *)
Failed(c) ==
    /\ \E label \in {"idle", "prune"} : Goto(c, label)
    /\ Clear(c)

\* The pool's mutex is held over awaits nowhere but between prune and pick.
PoolFree == \A c \in Callers : pc[c] # "pick"

(* prune_idle_locked: closed sessions go, and so may sessions without       *)
(* requests, which have been idle for long, beyond the first MinIdle.       *)
PruneIdle ==
    \E R \in SUBSET pool :
        /\ \A s \in R : ~closed[s]
        /\ \A s \in pool \ R :
             closed[s] \/ (inflight[s] = 0 /\ Cardinality(R) >= MinIdle)
        /\ pool' = R
-----------------------------------------------------------------------------
(* SessionPool::acquire.                                                    *)

BeginRequest(c, k) ==
    /\ pc[c] = "idle"
    /\ requests < MaxRequests
    /\ requests' = requests + 1
    /\ want' = [want EXCEPT ![c] = k]
    /\ Goto(c, "acquire")
    /\ UNCHANGED <<pool, permit, sessionVars, sess, rid, reply, failures>>

Acquire(c) ==
    /\ pc[c] = "acquire" /\ PoolFree
    /\ PruneIdle
    /\ Goto(c, "pick")
    /\ UNCHANGED <<permit, sessionVars, want, sess, rid, reply, failures, requests>>

\* Flags and counts of sessions change under the pool's mutex too.
Open == {s \in pool : ~closed[s]}
Least(s) == s \in Open /\ \A r \in Open : inflight[s] <= inflight[r]

\* Mutant: the pool's limit is not looked at.
FullNever == FALSE

Full == Cardinality(pool) >= MaxSize

\* The session with the fewest requests, unless a new one should be created.
PickSession(c, s) ==
    /\ pc[c] = "pick"
    /\ Least(s)
    /\ Full \/ inflight[s] < MaxInflight
    /\ sess' = [sess EXCEPT ![c] = s]
    /\ Goto(c, "check")
    /\ UNCHANGED <<pool, permit, sessionVars, want, rid, reply, failures, requests>>

\* There is room for one: the mutex is released before connecting.
PickNew(c) ==
    /\ pc[c] = "pick"
    /\ ~Full
    /\ \A s \in Open : inflight[s] >= MaxInflight
    /\ Goto(c, "connect")
    /\ UNCHANGED <<pool, permit, sessionVars, want, sess, rid, reply, failures, requests>>

\* All sessions of a full pool have closed since they were pruned: notify.notified().
PickWait(c) ==
    /\ pc[c] = "pick"
    /\ Full /\ Open = {}
    /\ Goto(c, IF permit THEN "acquire" ELSE "wait")
    /\ permit' = FALSE
    /\ UNCHANGED <<pool, sessionVars, want, sess, rid, reply, failures, requests>>

Connect(c, s) ==
    /\ pc[c] = "connect"
    /\ rpc[s] = "unborn" /\ \A r \in Sessions : rpc[r] = "unborn" => s <= r
    /\ rpc' = [rpc EXCEPT ![s] = "run"]
    /\ sess' = [sess EXCEPT ![c] = s]
    /\ Goto(c, "push")
    /\ UNCHANGED <<pool, permit, closed, pending, inflight, nextId, wire, stream,
                   want, rid, reply, failures, requests>>

Push(c) ==
    /\ pc[c] = "push" /\ PoolFree
    /\ pool' = pool \cup {sess[c]}
    /\ Goto(c, "check")
    /\ UNCHANGED <<permit, sessionVars, want, sess, rid, reply, failures, requests>>

\* The connection is refused, or the timeout around acquire ends it.
AcquireFails(c) ==
    /\ pc[c] \in AcquirePcs
    /\ Goto(c, "idle")
    /\ Clear(c)
    /\ UNCHANGED <<pool, permit, sessionVars, reply, failures, requests>>
-----------------------------------------------------------------------------
(* MultiplexedSession::send_request_with_payload.                           *)

\* is_closed, and the only time it is looked at.
Check(c) ==
    /\ pc[c] = "check"
    /\ IF closed[sess[c]]
         THEN Failed(c)
         ELSE Goto(c, "insert") /\ UNCHANGED <<want, sess, rid>>
    /\ UNCHANGED <<pool, permit, sessionVars, reply, failures, requests>>

\* An id is taken and the oneshot channel entered in the table, closed or not.
Insert(c) ==
    LET s == sess[c] IN
    /\ pc[c] = "insert"
    /\ rid' = [rid EXCEPT ![c] = nextId[s]]
    /\ nextId' = [nextId EXCEPT ![s] = @ + 1]
    /\ pending' = [pending EXCEPT ![s] = @ \cup {nextId[s]}]
    /\ inflight' = [inflight EXCEPT ![s] = @ + 1]
    /\ Goto(c, "write")
    /\ UNCHANGED <<pool, permit, closed, rpc, wire, stream, want, sess, reply,
                   failures, requests>>

(* Bytes behind a broken-off request: the server takes them for the rest of *)
(* it, may act on the mixture, and understands nothing from then on.        *)
Garbled(s) ==
    /\ \E S \in SUBSET {<<stream[s], Mixed>>} :
         wire' = [wire EXCEPT ![s] = IF stream[s] > 0 THEN @ \cup S ELSE @]
    /\ stream' = [stream EXCEPT ![s] = -1]

\* What a request that is written whole becomes at the server.
Arrives(s, id, k) ==
    \/ rpc[s] # "run" /\ UNCHANGED <<wire, stream>>
    \/ /\ rpc[s] = "run" /\ stream[s] = 0
       /\ wire' = [wire EXCEPT ![s] = @ \cup {<<id, k>>}]
       /\ UNCHANGED stream
    \/ rpc[s] = "run" /\ stream[s] # 0 /\ Garbled(s)

\* The request is written under the writer's mutex.
Write(c) ==
    /\ pc[c] = "write"
    /\ Arrives(sess[c], rid[c], want[c])
    /\ Goto(c, "await")
    /\ UNCHANGED <<pool, permit, closed, pending, inflight, nextId, rpc, want, sess, rid, reply,
                   failures, requests>>

(* The write fails or times out, after none or some of the bytes, and the   *)
(* writer's mutex is free for the next request.                             *)
WriteFails(c) ==
    LET s == sess[c] IN
    /\ pc[c] = "write"
    /\ IF rpc[s] = "run" THEN failures < MaxFailures /\ failures' = failures + 1
                         ELSE UNCHANGED failures
    /\ \/ UNCHANGED <<wire, stream>>
       \/ /\ rpc[s] = "run" /\ stream[s] = 0
          /\ stream' = [stream EXCEPT ![s] = rid[c]]
          /\ UNCHANGED wire
       \/ rpc[s] = "run" /\ stream[s] # 0 /\ Garbled(s)
    /\ Goto(c, "unwrite")
    /\ UNCHANGED <<pool, permit, closed, pending, inflight, nextId, rpc, want, sess, rid, reply,
                   requests>>

Unwrite(c) ==
    LET s == sess[c] IN
    /\ pc[c] = "unwrite"
    /\ pending' = [pending EXCEPT ![s] = @ \ {rid[c]}]
    /\ inflight' = [inflight EXCEPT ![s] = @ - 1]
    /\ reply' = [reply EXCEPT ![c] = None]
    /\ Goto(c, "close")
    /\ UNCHANGED <<pool, permit, closed, nextId, rpc, wire, stream, want, sess, rid,
                   failures, requests>>

\* The oneshot channel delivers.
Receive(c) ==
    LET s == sess[c] IN
    /\ pc[c] = "await" /\ reply[c] # None
    /\ inflight' = [inflight EXCEPT ![s] = @ - 1]
    /\ reply' = [reply EXCEPT ![c] = None]
    /\ IF reply[c] = Error
         THEN Failed(c)
         ELSE Goto(c, "prune") /\ Clear(c)
    /\ UNCHANGED <<pool, permit, closed, pending, nextId, rpc, wire, stream, failures, requests>>

\* Mutant: a request that times out is still counted.
ResponseTimeoutCounted(c) ==
    /\ pc[c] = "await" /\ reply[c] = None
    /\ Goto(c, "untimed")
    /\ UNCHANGED <<pool, permit, sessionVars, want, sess, rid, reply, failures, requests>>

\* No reply within the timeout ...
ResponseTimeout(c) ==
    /\ pc[c] = "await" /\ reply[c] = None
    /\ inflight' = [inflight EXCEPT ![sess[c]] = @ - 1]
    /\ Goto(c, "untimed")
    /\ UNCHANGED <<pool, permit, closed, pending, nextId, rpc, wire, stream, want, sess, rid, reply,
                   failures, requests>>

\* ... and what arrives until the entry is removed goes nowhere.
Untimed(c) ==
    /\ pc[c] = "untimed"
    /\ pending' = [pending EXCEPT ![sess[c]] = @ \ {rid[c]}]
    /\ reply' = [reply EXCEPT ![c] = None]
    /\ Goto(c, "close")
    /\ UNCHANGED <<pool, permit, closed, inflight, nextId, rpc, wire, stream, want, sess, rid,
                   failures, requests>>
-----------------------------------------------------------------------------
(* MultiplexedSession::close, by a caller or by the reader task.            *)

\* The reply to every caller whose request is in the table of session s.
Replied(s, ids, r) ==
    [d \in Callers |->
       IF pc[d] \in EnteredPcs /\ sess[d] = s /\ rid[d] \in ids THEN r ELSE reply[d]]

\* Mutant: the table is emptied and nobody told.
FailAllSilently(s) ==
    /\ pending' = [pending EXCEPT ![s] = {}]
    /\ UNCHANGED reply

\* The table is taken and each request in it failed.
FailAll(s) ==
    /\ pending' = [pending EXCEPT ![s] = {}]
    /\ reply' = Replied(s, pending[s], Error)

\* closed.swap(true): only the first goes on.
Close(c) ==
    /\ pc[c] = "close"
    /\ closed' = [closed EXCEPT ![sess[c]] = TRUE]
    /\ IF closed[sess[c]]
         THEN Failed(c)
         ELSE Goto(c, "take") /\ UNCHANGED <<want, sess, rid>>
    /\ UNCHANGED <<pool, permit, pending, inflight, nextId, rpc, wire, stream, reply,
                   failures, requests>>

Take(c) ==
    /\ pc[c] = "take"
    /\ FailAll(sess[c])
    /\ Failed(c)
    /\ UNCHANGED <<pool, permit, closed, inflight, nextId, rpc, wire, stream, failures, requests>>

\* SessionPool::prune: one waiter of acquire is notified, or the next to wait.
Prune(c) ==
    /\ pc[c] = "prune" /\ PoolFree
    /\ PruneIdle
    /\ \/ \E w \in Callers :
            /\ pc[w] = "wait"
            /\ pc' = [pc EXCEPT ![c] = "idle", ![w] = "acquire"]
            /\ UNCHANGED permit
       \/ /\ \A w \in Callers : pc[w] # "wait"
          /\ Goto(c, "idle")
          /\ permit' = TRUE
    /\ UNCHANGED <<sessionVars, want, sess, rid, reply, failures, requests>>
-----------------------------------------------------------------------------
(* The reader task of a session and the server behind it.                   *)

\* Mutant: a response goes to the request that waits longest.
DeliverInOrder(s, f) ==
    /\ rpc[s] = "run" /\ f \in wire[s] /\ pending[s] # {}
    /\ LET id == CHOOSE i \in pending[s] : \A j \in pending[s] : i <= j
       IN  /\ pending' = [pending EXCEPT ![s] = @ \ {id}]
           /\ reply' = Replied(s, {id}, f[2])
    /\ wire' = [wire EXCEPT ![s] = @ \ {f}]
    /\ UNCHANGED <<pool, permit, closed, inflight, nextId, rpc, stream, pc, want, sess, rid,
                   failures, requests>>

(* The server answers requests in the order they complete; the response is  *)
(* handed to the request of its id, or the session is closed.               *)
Deliver(s, f) ==
    /\ rpc[s] = "run" /\ f \in wire[s]
    /\ IF f[1] \in pending[s]
         THEN /\ pending' = [pending EXCEPT ![s] = @ \ {f[1]}]
              /\ reply' = Replied(s, {f[1]}, f[2])
              /\ wire' = [wire EXCEPT ![s] = @ \ {f}]
              /\ UNCHANGED rpc
         ELSE /\ rpc' = [rpc EXCEPT ![s] = "close"]
              /\ wire' = [wire EXCEPT ![s] = {}]
              /\ UNCHANGED <<pending, reply>>
    /\ UNCHANGED <<pool, permit, closed, inflight, nextId, stream, pc, want, sess, rid,
                   failures, requests>>

\* The server ends the connection: keep-alive timeout, error, end of the process.
HangUp(s) ==
    /\ rpc[s] = "run"
    /\ rpc' = [rpc EXCEPT ![s] = "close"]
    /\ wire' = [wire EXCEPT ![s] = {}]
    /\ UNCHANGED <<pool, permit, closed, pending, inflight, nextId, stream, callerVars,
                   failures, requests>>

ReaderClose(s) ==
    /\ rpc[s] = "close"
    /\ closed' = [closed EXCEPT ![s] = TRUE]
    /\ rpc' = [rpc EXCEPT ![s] = IF closed[s] THEN "done" ELSE "take"]
    /\ UNCHANGED <<pool, permit, pending, inflight, nextId, wire, stream, callerVars,
                   failures, requests>>

ReaderTake(s) ==
    /\ rpc[s] = "take"
    /\ FailAll(s)
    /\ rpc' = [rpc EXCEPT ![s] = "done"]
    /\ UNCHANGED <<pool, permit, closed, inflight, nextId, wire, stream, pc, want, sess, rid,
                   failures, requests>>
-----------------------------------------------------------------------------
PoolStep(c) ==
    \/ Acquire(c) \/ PickNew(c) \/ PickWait(c) \/ Push(c) \/ AcquireFails(c) \/ Prune(c)
    \/ \E s \in Sessions : PickSession(c, s) \/ Connect(c, s)

SendStep(c) ==
    \/ Check(c) \/ Insert(c) \/ Write(c) \/ WriteFails(c) \/ Unwrite(c) \/ Receive(c)
    \/ ResponseTimeout(c) \/ Untimed(c) \/ Close(c) \/ Take(c)

ReaderStep(s) ==
    \/ \E f \in wire[s] : Deliver(s, f)
    \/ HangUp(s) \/ ReaderClose(s) \/ ReaderTake(s)

Next ==
    \/ \E c \in Callers, k \in Chunks : BeginRequest(c, k)
    \/ \E c \in Callers : PoolStep(c) \/ SendStep(c)
    \/ \E s \in Sessions : ReaderStep(s)

Spec == Init /\ [][Next]_vars
-----------------------------------------------------------------------------
(* Properties.                                                              *)

\* The callers with a request on session s, and those inflight counts.
Entered(s) == {c \in Callers : pc[c] \in EnteredPcs /\ sess[c] = s}
Counted(s) == {c \in Callers : pc[c] \in CountedPcs /\ sess[c] = s}

(* A request that succeeds has the answer to what it asked for, although    *)
(* answers come in any order, requests time out while theirs is on its way, *)
(* and a broken-off request garbles the one behind it.                      *)
OwnResponse == \A c \in Callers : pc[c] = "await" => reply[c] \in {None, Error, want[c]}

(* The table of pending requests holds exactly the requests nobody has      *)
(* replied to: none is forgotten when the session closes, one entered after *)
(* the table was taken can still be removed by its own timeout, and none    *)
(* stays behind.                                                            *)
TableIsExact ==
    \A s \in Sessions : pending[s] = {rid[c] : c \in {d \in Entered(s) : reply[d] = None}}

(* The count by which acquire shares and prunes sessions is the number of   *)
(* requests under way on each.                                              *)
InflightIsExact == \A s \in Sessions : inflight[s] = Cardinality(Counted(s))

(* Connecting without the mutex, the callers exceed the pool's limit, but   *)
(* by fewer sessions than there are callers.                                *)
PoolBound == Cardinality(pool) < MaxSize + Cardinality(Callers)
-----------------------------------------------------------------------------
(* The inductive invariant of SessionProofs, in named parts.                *)

Connecting == {c \in Callers : pc[c] \in {"connect", "push"}}

\* Whoever is connecting has found the pool below its limit.
RoomInv == Cardinality(pool) + Cardinality(Connecting) < MaxSize + Cardinality(Callers)

\* A caller past acquire has a session; only one with a request has a reply.
LocalInv ==
    \A c \in Callers :
        /\ pc[c] \in EnteredPcs \cup {"push", "check", "insert", "close", "take"} => sess[c] \in Sessions
        /\ pc[c] \in EnteredPcs \cup {"acquire", "pick", "wait", "connect", "push", "check", "insert"}
             => want[c] \in Chunks
        /\ pc[c] \notin EnteredPcs => reply[c] = None

\* Ids come from the counter and are not given twice.
IdInv ==
    \A s \in Sessions :
        /\ \A c \in Entered(s) : 0 < rid[c] /\ rid[c] < nextId[s]
        /\ \A c, d \in Entered(s) : rid[c] = rid[d] => c = d

\* The server's answer under a caller's id is its own, unless its write has failed.
WireInv ==
    \A s \in Sessions :
        /\ \A f \in wire[s] :
             /\ f[1] < nextId[s]
             /\ \A c \in Entered(s) : rid[c] = f[1] => f[2] = want[c] \/ pc[c] = "unwrite"
        /\ stream[s] < nextId[s]
        /\ \A c \in Entered(s) : rid[c] = stream[s] => pc[c] = "unwrite"

\* So is the reply it has been sent.
ReplyInv ==
    \A c \in Callers : pc[c] \in {"write", "await"} => reply[c] \in {None, Error, want[c]}

IInv ==
    /\ TypeOK
    /\ TableIsExact
    /\ InflightIsExact
    /\ RoomInv
    /\ LocalInv
    /\ IdInv
    /\ WireInv
    /\ ReplyInv
=============================================================================
