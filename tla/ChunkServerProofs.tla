------------------------- MODULE ChunkServerProofs -------------------------
(***************************************************************************)
(* That a connection's requests are answered before its permit is free,    *)
(* for any number of connections and requests.                             *)
(*                                                                         *)
(* The property is not inductive: the handler does not look at what it     *)
(* owes but at its writer, which ends when the tasks that run and the      *)
(* responses that wait are gone.  OwedInv ties the three together.         *)
(***************************************************************************)
EXTENDS ChunkServer, TLAPS

(* The handlers' part of the type invariant, without bounds.               *)
HandlerType ==
    /\ conn \in [Slots -> {"free", "reading", "closing"}]
    /\ running \in [Slots -> Nat] /\ replies \in [Slots -> Nat]
    /\ writer \in [Slots -> BOOLEAN]
    /\ owed \in [Slots -> Nat]

(* A working writer owes the tasks that run and the responses that wait, a *)
(* failed one nothing; whoever gets a permit starts with nothing.          *)
OwedInv ==
    \A s \in Slots :
        /\ writer[s] => owed[s] = running[s] + replies[s]
        /\ ~writer[s] => owed[s] = 0 /\ replies[s] = 0
        /\ conn[s] = "free" => running[s] = 0 /\ replies[s] = 0 /\ owed[s] = 0

(* The inductive invariant.                                                *)
IInv == HandlerType /\ OwedInv

(* No connection at the start.                                             *)
LEMMA InitIInv == Init => IInv
BY DEF Init, IInv, HandlerType, OwedInv

(* A permit starts a handler with a writer of its own.                     *)
LEMMA ServeIInv ==
    ASSUME IInv, NEW a \in Acceptors, NEW s \in Slots, Serve(a, s)
    PROVE  IInv'
<1>1. HandlerType'
  BY DEF IInv, HandlerType, Serve
<1>2. OwedInv'
  BY DEF IInv, HandlerType, OwedInv, Serve
<1> QED BY <1>1, <1>2 DEF IInv

(* Requests come in and responses go out.                                  *)
LEMMA RequestIInv ==
    ASSUME IInv, NEW s \in Slots, ReadRequest(s) \/ Respond(s) \/ WriteReply(s) \/ WriteFails(s)
    PROVE  IInv'
<1>1. CASE ReadRequest(s)
  <2>1. HandlerType'
    BY <1>1 DEF IInv, HandlerType, ReadRequest
  <2>2. OwedInv'
    BY <1>1 DEF IInv, HandlerType, OwedInv, ReadRequest
  <2> QED BY <2>1, <2>2 DEF IInv
<1>2. CASE Respond(s)
  <2>1. running[s] - 1 \in Nat
    BY <1>2 DEF IInv, HandlerType, Respond
  <2>2. HandlerType'
    BY <1>2, <2>1 DEF IInv, HandlerType, Respond
  <2>3. OwedInv'
    BY <1>2, <2>1 DEF IInv, HandlerType, OwedInv, Respond
  <2> QED BY <2>2, <2>3 DEF IInv
<1>3. CASE WriteReply(s)
  <2>1. replies[s] - 1 \in Nat /\ owed[s] - 1 \in Nat
    BY <1>3 DEF IInv, HandlerType, OwedInv, WriteReply
  <2>2. HandlerType'
    BY <1>3, <2>1 DEF IInv, HandlerType, WriteReply
  <2>3. OwedInv'
    BY <1>3, <2>1 DEF IInv, HandlerType, OwedInv, WriteReply
  <2> QED BY <2>2, <2>3 DEF IInv
<1>4. CASE WriteFails(s)
  <2>1. HandlerType'
    BY <1>4 DEF IInv, HandlerType, WriteFails
  <2>2. OwedInv'
    BY <1>4 DEF IInv, HandlerType, OwedInv, WriteFails
  <2> QED BY <2>1, <2>2 DEF IInv
<1> QED BY <1>1, <1>2, <1>3, <1>4

(* The handler stops, breaks off or ends.                                  *)
LEMMA EndIInv ==
    ASSUME IInv, NEW s \in Slots, StopReading(s) \/ ReadBatchFails(s) \/ HandlerEnds(s)
    PROVE  IInv'
<1>1. CASE StopReading(s)
  BY <1>1 DEF IInv, HandlerType, OwedInv, StopReading
<1>2. CASE ReadBatchFails(s)
  <2>1. HandlerType'
    BY <1>2 DEF IInv, HandlerType, ReadBatchFails
  <2>2. OwedInv'
    BY <1>2 DEF IInv, HandlerType, OwedInv, ReadBatchFails
  <2> QED BY <2>1, <2>2 DEF IInv
<1>3. CASE HandlerEnds(s)
  <2>1. HandlerType'
    BY <1>3 DEF IInv, HandlerType, HandlerEnds
  <2>2. OwedInv'
    BY <1>3 DEF IInv, HandlerType, OwedInv, HandlerEnds
  <2> QED BY <2>1, <2>2 DEF IInv
<1> QED BY <1>1, <1>2, <1>3

(* Nothing else touches the handlers.                                      *)
LEMMA OtherSteps ==
    ASSUME IInv, UNCHANGED handlers
    PROVE  IInv'
BY DEF IInv, HandlerType, OwedInv, handlers

LEMMA NextIInv ==
    ASSUME IInv, [Next]_vars
    PROVE  IInv'
<1>1. CASE \E t \in Tasks : TaskStep(t)
  <2>1. PICK t \in Tasks : TaskStep(t)
    BY <1>1
  <2>2. CASE TestFlag(t) \/ CreateNotified(t) \/ Break(t) \/ TimerFires(t)
    BY <2>2, OtherSteps DEF TestFlag, CreateNotified, Break, TimerFires
  <2>3. CASE t \in Acceptors /\ Accept(t)
    BY <2>3, OtherSteps DEF Accept
  <2>4. CASE t \in Acceptors /\ \E s \in Slots : Serve(t, s)
    BY <2>4, ServeIInv
  <2> QED BY <2>1, <2>2, <2>3, <2>4 DEF TaskStep
<1>2. CASE \E a \in Acceptors : Connect(a) \/ AcceptFails(a)
  BY <1>2, OtherSteps DEF Connect, AcceptFails
<1>3. CASE \E s \in Slots : HandlerStep(s) \/ ReadRequest(s) \/ WriteReply(s) \/ WriteFails(s)
                            \/ StopReading(s) \/ ReadBatchFails(s)
  BY <1>3, RequestIInv, EndIInv DEF HandlerStep
<1>4. CASE Shutdown \/ ShutdownNotifies \/ StartAgain
  BY <1>4, OtherSteps DEF Shutdown, ShutdownNotifies, StartAgain
<1>5. CASE MainStep
  BY <1>5, OtherSteps DEF MainStep, Await, AwaitTask, Stop, StopNotifies, Return
<1>6. CASE UNCHANGED vars
  BY <1>6, OtherSteps DEF vars
<1> QED BY <1>1, <1>2, <1>3, <1>4, <1>5, <1>6 DEF Next

(* What a writer owes is what runs and waits, in every reachable state.    *)
THEOREM OwedAlways == Spec => []IInv
<1>1. Init => IInv
  BY InitIInv
<1>2. IInv /\ [Next]_vars => IInv'
  BY NextIInv
<1> QED BY <1>1, <1>2, PTL DEF Spec

(* RequestHandler::handle gives its permit back only when every request it *)
(* has read is answered, its writer has failed or a batch has broken off,  *)
(* whatever clients, tasks and the shutdown do.                            *)
THEOREM PermitsAreEarned == Spec => []AnsweredBeforeRelease
<1>1. IInv => AnsweredBeforeRelease
  BY DEF IInv, OwedInv, AnsweredBeforeRelease
<1> QED BY <1>1, OwedAlways, PTL
=============================================================================
