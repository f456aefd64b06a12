---------------------------- MODULE ChunkServer ----------------------------
(***************************************************************************)
(* The chunk server's tasks, from src/backend/peer.rs: ShutdownHandle,     *)
(* ChunkServer::run_inner, ConnectionAcceptor, RequestHandler and the two  *)
(* periodic tasks.                                                         *)
(*                                                                         *)
(* Two acceptors share the permits for connections.  Every loop starts by  *)
(* a select! of ShutdownHandle::wait and its own event; wait tests the     *)
(* flag and then creates a Notified, two steps between which another       *)
(* thread may run.  A connection reads requests, each of which becomes a   *)
(* task that ends by sending its response to the connection's writer.      *)
(* What requests do is in modules ChunkDB, ChunkIndex and Prefetch.        *)
(***************************************************************************)
EXTENDS Integers, Sequences, SequencesExt

CONSTANTS
    MaxConnections,  \* max_connections
    MaxPending,      \* bound: connections in a listener's backlog
    MaxRequests      \* bound: requests of a connection that are not answered

ASSUME ChunkServerAssumption ==
    MaxConnections \in Nat \ {0} /\ MaxPending \in Nat \ {0} /\ MaxRequests \in Nat \ {0}

Acceptors == {"tcp", "unix"}
Periodic == {"hints", "refresh"}    \* start_background_tasks, run_refresh_loop
Tasks == Acceptors \cup Periodic
Slots == 1 .. MaxConnections

VARIABLES
    stopped,    \* ShutdownState.stopped
    caller,     \* the call of shutdown from outside: "none", "stored" or "done"
    pc,         \* task -> where it is
    main,       \* run_inner: what it waits for
    socket,     \* the unix socket's file exists
    pending,    \* acceptor -> connections in its backlog
    waiters,    \* acceptors in the semaphore's queue
    conn,       \* slot -> where the handler is that has this permit
    running,    \* slot -> request tasks that have not sent a response
    replies,    \* slot -> responses the writer has not written
    writer,     \* slot -> the writer's task has not failed
    owed        \* history: slot -> responses that a writer has to write, 0 if it has failed

shut == <<stopped, caller, main, socket>>
handlers == <<conn, running, replies, writer, owed>>
vars == <<shut, pc, pending, waiters, handlers>>

TypeOK ==
    /\ stopped \in BOOLEAN /\ socket \in BOOLEAN
    /\ caller \in {"none", "stored", "done"}
    /\ pc \in [Tasks -> {"select", "create", "wait", "woken", "permit", "ended"}]
    /\ main \in {"tcp", "unix", "stop", "notify", "hints", "refresh", "remove", "returned"}
    /\ pending \in [Acceptors -> 0 .. MaxPending]
    /\ waiters \in Seq(Acceptors)
    /\ conn \in [Slots -> {"free", "reading", "closing"}]
    /\ running \in [Slots -> 0 .. MaxRequests]
    /\ replies \in [Slots -> 0 .. MaxRequests]
    /\ writer \in [Slots -> BOOLEAN]
    /\ owed \in [Slots -> 0 .. MaxRequests]

(* ChunkServer::new has bound both listeners, run_inner has spawned the      *)
(* tasks.                                                                    *)
Init ==
    /\ stopped = FALSE /\ caller = "none" /\ main = "tcp" /\ socket = TRUE
    /\ pc = [t \in Tasks |-> "select"]
    /\ pending = [a \in Acceptors |-> 0]
    /\ waiters = <<>>
    /\ conn = [s \in Slots |-> "free"]
    /\ running = [s \in Slots |-> 0] /\ replies = [s \in Slots |-> 0]
    /\ writer = [s \in Slots |-> TRUE]
    /\ owed = [s \in Slots |-> 0]

Goto(t, where) == pc' = [pc EXCEPT ![t] = where]
----------------------------------------------------------------------------
(* ShutdownHandle                                                            *)

(* notify_waiters wakes those that have created their Notified.              *)
NotifyWaiters == pc' = [t \in Tasks |-> IF pc[t] = "wait" THEN "woken" ELSE pc[t]]

(* shutdown, called from outside.                                            *)
Shutdown ==
    /\ caller = "none" /\ main # "returned"
    /\ caller' = "stored"
    /\ stopped' = TRUE
    /\ UNCHANGED <<main, socket, pc, pending, waiters, handlers>>

ShutdownNotifies ==
    /\ caller = "stored"
    /\ caller' = "done"
    /\ NotifyWaiters
    /\ UNCHANGED <<stopped, main, socket, pending, waiters, handlers>>

(* wait: the flag is tested, ...                                             *)
TestFlag(t) ==
    /\ pc[t] = "select"
    /\ Goto(t, IF stopped THEN "ended" ELSE "create")
    /\ UNCHANGED <<shut, pending, waiters, handlers>>

(* ... then the Notified is created.                                         *)
CreateNotified(t) ==
    /\ pc[t] = "create"
    /\ Goto(t, "wait")
    /\ UNCHANGED <<shut, pending, waiters, handlers>>

Break(t) ==
    /\ pc[t] = "woken"
    /\ Goto(t, "ended")
    /\ UNCHANGED <<shut, pending, waiters, handlers>>

(* The other branch of a periodic task: gc_expired, or refresh and repair.   *)
TimerFires(t) ==
    /\ t \in Periodic
    /\ pc[t] \in {"wait", "woken"}
    /\ Goto(t, "select")
    /\ UNCHANGED <<shut, pending, waiters, handlers>>
----------------------------------------------------------------------------
(* ConnectionAcceptor::accept_loop                                           *)

(* A client connects: the kernel takes it while the listener is bound.       *)
Connect(a) ==
    /\ main # "returned"
    /\ a = "unix" => socket
    /\ pending[a] < MaxPending
    /\ pending' = [pending EXCEPT ![a] = @ + 1]
    /\ UNCHANGED <<shut, pc, waiters, handlers>>

(* The listener's branch is ready, before or after wait was polled.  The     *)
(* permit is awaited in the branch, where shutdown is not looked at.         *)
Accept(a) ==
    /\ pc[a] \in {"select", "wait", "woken"}
    /\ pending[a] > 0
    /\ pending' = [pending EXCEPT ![a] = @ - 1]
    /\ waiters' = Append(waiters, a)
    /\ Goto(a, "permit")
    /\ UNCHANGED <<shut, handlers>>

(* accept fails: the loop returns the error, and the other one goes on.      *)
AcceptFails(a) ==
    /\ pc[a] \in {"select", "wait", "woken"}
    /\ Goto(a, "ended")
    /\ UNCHANGED <<shut, pending, waiters, handlers>>

(* Mutant: whoever asks last gets the permit.                                *)
ServeLast(a, s) ==
    /\ waiters # <<>> /\ Last(waiters) = a
    /\ conn[s] = "free"
    /\ waiters' = Front(waiters)
    /\ conn' = [conn EXCEPT ![s] = "reading"]
    /\ writer' = [writer EXCEPT ![s] = TRUE]
    /\ Goto(a, "select")
    /\ UNCHANGED <<shut, pending, running, replies, owed>>

(* The semaphore is fair; the permit starts a handler.                       *)
Serve(a, s) ==
    /\ waiters # <<>> /\ Head(waiters) = a
    /\ conn[s] = "free"
    /\ waiters' = Tail(waiters)
    /\ conn' = [conn EXCEPT ![s] = "reading"]
    /\ writer' = [writer EXCEPT ![s] = TRUE]
    /\ Goto(a, "select")
    /\ UNCHANGED <<shut, pending, running, replies, owed>>
----------------------------------------------------------------------------
(* RequestHandler::handle                                                    *)

ReadRequest(s) ==
    /\ conn[s] = "reading"
    /\ running[s] + replies[s] < MaxRequests
    /\ running' = [running EXCEPT ![s] = @ + 1]
    /\ owed' = [owed EXCEPT ![s] = IF writer[s] THEN @ + 1 ELSE @]
    /\ UNCHANGED <<shut, pc, pending, waiters, conn, replies, writer>>

(* process_request has come to its end and sends what it has to the writer,  *)
(* whose receiver is gone when it has failed.                                *)
Respond(s) ==
    /\ running[s] > 0
    /\ running' = [running EXCEPT ![s] = @ - 1]
    /\ replies' = [replies EXCEPT ![s] = IF writer[s] THEN @ + 1 ELSE @]
    /\ UNCHANGED <<shut, pc, pending, waiters, conn, writer, owed>>

(* The writer's task: an immediate response, or the chunk with its status.   *)
WriteReply(s) ==
    /\ writer[s] /\ replies[s] > 0
    /\ replies' = [replies EXCEPT ![s] = @ - 1]
    /\ owed' = [owed EXCEPT ![s] = @ - 1]
    /\ UNCHANGED <<shut, pc, pending, waiters, conn, running, writer>>

WriteFails(s) ==
    /\ writer[s] /\ replies[s] > 0
    /\ writer' = [writer EXCEPT ![s] = FALSE]
    /\ replies' = [replies EXCEPT ![s] = 0]
    /\ owed' = [owed EXCEPT ![s] = 0]
    /\ UNCHANGED <<shut, pc, pending, waiters, conn, running>>

(* The client closes, sends nothing for the keep-alive time or what is no    *)
(* request: the handler drops its sender and waits for the writer.           *)
StopReading(s) ==
    /\ conn[s] = "reading"
    /\ conn' = [conn EXCEPT ![s] = "closing"]
    /\ UNCHANGED <<shut, pc, pending, waiters, running, replies, writer, owed>>

(* A batch of checksums that cannot be read ends the handler at once.  Its   *)
(* permit is free while its writer and its tasks go on by themselves.        *)
ReadBatchFails(s) ==
    /\ conn[s] = "reading"
    /\ conn' = [conn EXCEPT ![s] = "free"]
    /\ running' = [running EXCEPT ![s] = 0]
    /\ replies' = [replies EXCEPT ![s] = 0]
    /\ owed' = [owed EXCEPT ![s] = 0]
    /\ UNCHANGED <<shut, pc, pending, waiters, writer>>

(* Mutant: the handler does not wait for the writer.                         *)
HandlerEndsAtOnce(s) ==
    /\ conn[s] = "closing"
    /\ conn' = [conn EXCEPT ![s] = "free"]
    /\ running' = [running EXCEPT ![s] = 0]
    /\ replies' = [replies EXCEPT ![s] = 0]
    /\ UNCHANGED <<shut, pc, pending, waiters, writer, owed>>

(* The writer ends when every sender is gone, those of running tasks too, or *)
(* when it has failed; the handler ends with it and gives the permit back.   *)
(* Tasks of a connection whose writer has failed go on by themselves.        *)
HandlerEnds(s) ==
    /\ conn[s] = "closing"
    /\ ~writer[s] \/ (running[s] = 0 /\ replies[s] = 0)
    /\ conn' = [conn EXCEPT ![s] = "free"]
    /\ running' = [running EXCEPT ![s] = 0]
    /\ UNCHANGED <<shut, pc, pending, waiters, replies, writer, owed>>
----------------------------------------------------------------------------
(* run_inner                                                                 *)

(* The acceptors are awaited one after the other, then the periodic tasks.   *)
AwaitTask(t, next) ==
    /\ main = t
    /\ pc[t] = "ended"
    /\ main' = next
    /\ UNCHANGED <<stopped, caller, socket, pc, pending, waiters, handlers>>

Await ==
    \/ AwaitTask("tcp", "unix") \/ AwaitTask("unix", "stop")
    \/ AwaitTask("hints", "refresh") \/ AwaitTask("refresh", "remove")

(* Mutant: run_inner relies on the shutdown that ended the acceptors.        *)
StopNot ==
    /\ main = "stop"
    /\ main' = "notify"
    /\ UNCHANGED <<stopped, caller, socket, pc, pending, waiters, handlers>>

(* Between them shutdown is called, for acceptors that ended by an error.    *)
Stop ==
    /\ main = "stop"
    /\ stopped' = TRUE
    /\ main' = "notify"
    /\ UNCHANGED <<caller, socket, pc, pending, waiters, handlers>>

StopNotifies ==
    /\ main = "notify"
    /\ NotifyWaiters
    /\ main' = "hints"
    /\ UNCHANGED <<stopped, caller, socket, pending, waiters, handlers>>

(* The end of run_inner and Drop: the socket's file goes, the listeners are  *)
(* closed and what is in their backlogs is reset.                            *)
Return ==
    /\ main = "remove"
    /\ socket' = FALSE
    /\ main' = "returned"
    /\ pending' = [a \in Acceptors |-> 0]
    /\ UNCHANGED <<stopped, caller, pc, waiters, handlers>>

(* A second server is started on the same socket and address: its new        *)
(* removes the file before it fails to bind the address.                     *)
StartAgain ==
    /\ main # "returned" /\ socket
    /\ socket' = FALSE
    /\ UNCHANGED <<stopped, caller, main, pc, pending, waiters, handlers>>

TaskStep(t) ==
    \/ TestFlag(t) \/ CreateNotified(t) \/ Break(t) \/ TimerFires(t)
    \/ t \in Acceptors /\ (Accept(t) \/ \E s \in Slots : Serve(t, s))

MainStep == Await \/ Stop \/ StopNotifies \/ Return

(* What a handler does without its client.                                   *)
HandlerStep(s) == Respond(s) \/ HandlerEnds(s)

Next ==
    \/ Shutdown \/ ShutdownNotifies
    \/ \E t \in Tasks : TaskStep(t)
    \/ \E a \in Acceptors : Connect(a) \/ AcceptFails(a)
    \/ \E s \in Slots : HandlerStep(s) \/ ReadRequest(s) \/ WriteReply(s) \/ WriteFails(s)
                        \/ StopReading(s) \/ ReadBatchFails(s)
    \/ MainStep
    \/ StartAgain
    \/ main = "returned" /\ UNCHANGED vars

(* The runtime runs every task, and process_request comes to an end.         *)
(* select! polls its branches in random order, so no branch that is ready    *)
(* again and again is passed over for ever.  Nothing is assumed of clients:  *)
(* the keep-alive time starts again with every request and a write has no    *)
(* timeout, so a connection may last for ever.                               *)
Fairness ==
    /\ WF_vars(ShutdownNotifies) /\ WF_vars(MainStep)
    /\ \A t \in Tasks : WF_vars(TaskStep(t))
    /\ \A a \in Acceptors : SF_vars(TestFlag(a))
    /\ \A s \in Slots : WF_vars(HandlerStep(s))

Spec == Init /\ [][Next]_vars /\ Fairness
----------------------------------------------------------------------------
(* Properties                                                                *)

(* The notification that an acceptor has missed: it has tested the flag      *)
(* before and created its Notified after.                                    *)
Missed(a) == stopped /\ caller = "done" /\ pc[a] = "wait"

(* The client keeps the permit: it can still send, or does not read what the *)
(* writer has for it.                                                        *)
HeldByClient(s) ==
    \/ conn[s] = "reading"
    \/ conn[s] = "closing" /\ writer[s] /\ replies[s] > 0

NoPermitLeft == \A s \in Slots : HeldByClient(s)

(* An acceptor does not see the shutdown: it has missed the notification and *)
(* only a client that connects makes it test the flag again, or it waits for *)
(* a permit, where it does not look at the flag, and clients keep them all.  *)
Stuck == \E a \in Acceptors : Missed(a) \/ (pc[a] = "permit" /\ NoPermitLeft)

(* Shutdown makes run return, and so do errors of accept once both acceptors *)
(* have ended, unless the server is stuck from some time on: the periodic    *)
(* tasks test the flag again when their timer fires, a waiter for a permit   *)
(* gets one that is given back, and run_inner stops the tasks itself.        *)
RunEnds ==
    (stopped \/ \A a \in Acceptors : pc[a] = "ended") ~> (main = "returned" \/ []Stuck)

(* A client in a backlog is served, though the acceptors compete for the     *)
(* permits, unless clients keep all of them for ever, its acceptor has ended *)
(* or the server stops.                                                      *)
PendingIsServed ==
    \A a \in Acceptors :
        pending[a] > 0 ~> (pending[a] = 0 \/ pc[a] = "ended" \/ stopped \/ []NoPermitLeft)

(* A handler gives its permit back only when every request that it has read  *)
(* is answered, although its client may stop sending while tasks still run   *)
(* and responses wait: the tasks hold the writer open and the handler waits  *)
(* for it.  A failed writer and a broken batch excuse it.                    *)
AnsweredBeforeRelease == \A s \in Slots : conn[s] = "free" => owed[s] = 0
============================================================================
