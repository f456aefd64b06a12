--------------------------- MODULE SessionProofs ---------------------------
(***************************************************************************)
(* Proofs about Session, for any number of callers and sessions and any    *)
(* limits of the pool: responses reach their own requests, the table of    *)
(* pending requests and the count of requests are exact, and the pool      *)
(* exceeds its limit by fewer sessions than there are callers.             *)
(***************************************************************************)
EXTENDS Session, FiniteSetTheorems, TLAPS

(* A set of callers is finite, and an element more or less is one more or    *)
(* less in its cardinality.                                                  *)
LEMMA Counting ==
    ASSUME NEW S \in SUBSET Callers
    PROVE  /\ IsFiniteSet(S) /\ Cardinality(S) \in Nat
           /\ Cardinality(S) <= Cardinality(Callers)
           /\ \A c \in Callers \ S : Cardinality(S \cup {c}) = Cardinality(S) + 1
           /\ \A c \in S : Cardinality(S \ {c}) = Cardinality(S) - 1 /\ Cardinality(S) > 0
<1>1. IsFiniteSet(Callers)
  BY SessionAssumption
<1>2. IsFiniteSet(S) /\ Cardinality(S) <= Cardinality(Callers)
  BY <1>1, FS_Subset
<1>3. Cardinality(S) \in Nat
  BY <1>2, FS_CardinalityType
<1>4. \A c \in Callers \ S : Cardinality(S \cup {c}) = Cardinality(S) + 1
  BY <1>2, FS_AddElement
<1>5. \A c \in S : Cardinality(S \ {c}) = Cardinality(S) - 1
  BY <1>2, FS_RemoveElement
<1>6. \A c \in S : Cardinality(S) > 0
  BY <1>2, <1>3, FS_EmptySet
<1> QED BY <1>2, <1>3, <1>4, <1>5, <1>6

(* Sessions are finitely many: the pool has a size. *)
LEMMA PoolSize ==
    ASSUME NEW S \in SUBSET Sessions
    PROVE  /\ IsFiniteSet(S) /\ Cardinality(S) \in Nat
           /\ \A s \in Sessions : Cardinality(S \cup {s}) <= Cardinality(S) + 1
           /\ \A R \in SUBSET S : Cardinality(R) <= Cardinality(S)
<1>1. IsFiniteSet(Sessions)
  BY SessionAssumption, FS_Interval DEF Sessions
<1>2. IsFiniteSet(S)
  BY <1>1, FS_Subset
<1>3. Cardinality(S) \in Nat
  BY <1>2, FS_CardinalityType
<1>4. \A s \in Sessions : Cardinality(S \cup {s}) <= Cardinality(S) + 1
  <2> SUFFICES ASSUME NEW s \in Sessions
               PROVE  Cardinality(S \cup {s}) <= Cardinality(S) + 1
    OBVIOUS
  <2>1. Cardinality(S \cup {s}) = IF s \in S THEN Cardinality(S) ELSE Cardinality(S) + 1
    BY <1>2, FS_AddElement, Zenon
  <2> DEFINE n == Cardinality(S)
             m == Cardinality(S \cup {s})
  <2>2. n \in Nat /\ (m = n \/ m = n + 1)
    BY <2>1, <1>3, Zenon
  <2> HIDE DEF n, m
  <2>3. m <= n + 1
    BY <2>2
  <2> QED BY <2>3 DEF n, m
<1>5. \A R \in SUBSET S : Cardinality(R) <= Cardinality(S)
  BY <1>2, FS_Subset
<1> QED BY <1>2, <1>3, <1>4, <1>5

(* A request that counts is counted: taking it off does not underflow. *)
LEMMA CountPositive ==
    ASSUME TypeOK, InflightIsExact, LocalInv, NEW c \in Callers, pc[c] \in CountedPcs
    PROVE  /\ sess[c] \in Sessions /\ inflight[sess[c]] > 0
           /\ inflight[sess[c]] - 1 \in Nat
<1>1. sess[c] \in Sessions
  BY DEF LocalInv, CountedPcs, EnteredPcs
<1>2. Counted(sess[c]) \in SUBSET Callers /\ c \in Counted(sess[c])
  BY DEF Counted
<1>3. Cardinality(Counted(sess[c])) > 0
  BY <1>2, Counting
<1> QED BY <1>1, <1>3 DEF InflightIsExact, TypeOK
-----------------------------------------------------------------------------
(* Types. *)

(* The pool's steps keep the types. *)
LEMMA PoolType ==
    ASSUME TypeOK, LocalInv, NEW c \in Callers, PoolStep(c)
    PROVE  TypeOK'
<1> USE DEF TypeOK, sessionVars, CallerPcs, AcquirePcs, EnteredPcs
<1>1. CASE Acquire(c)
  BY <1>1 DEF Acquire, PruneIdle, Goto
<1>2. CASE PickNew(c) \/ PickWait(c)
  BY <1>2 DEF PickNew, PickWait, Goto
<1>3. CASE Push(c)
  <2>1. sess[c] \in Sessions
    BY <1>3 DEF Push, LocalInv
  <2> QED BY <1>3, <2>1 DEF Push, Goto
<1>4. CASE AcquireFails(c)
  BY <1>4 DEF AcquireFails, Goto, Clear
<1>5. CASE Prune(c)
  <2>1. pool' \in SUBSET Sessions /\ permit' \in BOOLEAN
    BY <1>5 DEF Prune, PruneIdle
  <2>2. pc' \in [Callers -> CallerPcs]
    BY <1>5 DEF Prune, Goto
  <2> QED BY <1>5, <2>1, <2>2 DEF Prune
<1>6. CASE \E s \in Sessions : PickSession(c, s)
  BY <1>6 DEF PickSession, Goto
<1>7. CASE \E s \in Sessions : Connect(c, s)
  BY <1>7 DEF Connect, Goto, ReaderPcs
<1> QED BY <1>1, <1>2, <1>3, <1>4, <1>5, <1>6, <1>7 DEF PoolStep

(* What Clear and Failed leave behind. *)
LEMMA FailedType ==
    ASSUME TypeOK, NEW c \in Callers, Failed(c)
    PROVE  /\ pc' \in [Callers -> CallerPcs]
           /\ want' \in [Callers -> Chunks \cup {None}]
           /\ sess' \in [Callers -> Sessions \cup {None}]
           /\ rid' \in [Callers -> Nat]
BY DEF TypeOK, Failed, Clear, Goto, CallerPcs

(* Replies have the right type. *)
LEMMA RepliedType ==
    ASSUME TypeOK, NEW s \in Sessions, NEW ids, NEW r \in Chunks \cup {None, Error, Mixed}
    PROVE  Replied(s, ids, r) \in [Callers -> Chunks \cup {None, Error, Mixed}]
BY DEF TypeOK, Replied

(* The steps of send_request keep the types. *)
LEMMA SendType ==
    ASSUME TypeOK, LocalInv, InflightIsExact, NEW c \in Callers, SendStep(c)
    PROVE  TypeOK'
<1> USE DEF sessionVars
<1>1. CASE Check(c)
  <2>1. CASE Failed(c)
    BY <1>1, <2>1, FailedType DEF Check, TypeOK
  <2>2. CASE ~Failed(c)
    BY <1>1, <2>2 DEF Check, TypeOK, Goto, CallerPcs
  <2> QED BY <2>1, <2>2
<1>2. CASE Insert(c)
  <2>1. sess[c] \in Sessions
    BY <1>2 DEF Insert, LocalInv
  <2> QED BY <1>2, <2>1 DEF Insert, TypeOK, Goto, CallerPcs, EnteredPcs
<1>3. CASE Write(c)
  <2>1. sess[c] \in Sessions
    BY <1>3 DEF Write, LocalInv, EnteredPcs
  <2>2. want[c] \in Chunks
    BY <1>3 DEF Write, LocalInv, EnteredPcs
  <2>3. wire' \in [Sessions -> SUBSET (Nat \X (Chunks \cup {Mixed}))] /\ stream' \in [Sessions -> Int]
    BY <1>3, <2>1, <2>2 DEF Write, Arrives, Garbled, TypeOK
  <2> QED BY <1>3, <2>3 DEF Write, TypeOK, Goto, CallerPcs, EnteredPcs
<1>4. CASE WriteFails(c)
  <2>1. sess[c] \in Sessions
    BY <1>4 DEF WriteFails, LocalInv, EnteredPcs
  <2>2. failures' \in 0 .. MaxFailures
    BY <1>4, SessionAssumption DEF WriteFails, TypeOK
  <2>3. wire' \in [Sessions -> SUBSET (Nat \X (Chunks \cup {Mixed}))] /\ stream' \in [Sessions -> Int]
    BY <1>4, <2>1 DEF WriteFails, Garbled, TypeOK
  <2> QED BY <1>4, <2>2, <2>3 DEF WriteFails, TypeOK, Goto, CallerPcs, EnteredPcs
<1>5. CASE Unwrite(c)
  <2>1. sess[c] \in Sessions /\ inflight[sess[c]] - 1 \in Nat
    BY <1>5, CountPositive DEF Unwrite, CountedPcs
  <2> QED BY <1>5, <2>1 DEF Unwrite, TypeOK, Goto, CallerPcs
<1>6. CASE Receive(c)
  <2>1. sess[c] \in Sessions /\ inflight[sess[c]] - 1 \in Nat
    BY <1>6, CountPositive DEF Receive, CountedPcs
  <2>2. inflight' \in [Sessions -> Nat] /\ reply' \in [Callers -> Chunks \cup {None, Error, Mixed}]
    BY <1>6, <2>1 DEF Receive, TypeOK
  <2>3. /\ pc' \in [Callers -> CallerPcs]
        /\ want' \in [Callers -> Chunks \cup {None}]
        /\ sess' \in [Callers -> Sessions \cup {None}]
        /\ rid' \in [Callers -> Nat]
    <3>1. CASE Failed(c)
      BY <3>1, FailedType
    <3>2. CASE ~Failed(c)
      BY <1>6, <3>2 DEF Receive, TypeOK, Goto, Clear, CallerPcs
    <3> QED BY <3>1, <3>2
  <2> QED BY <1>6, <2>2, <2>3 DEF Receive, TypeOK
<1>7. CASE ResponseTimeout(c)
  <2>1. sess[c] \in Sessions /\ inflight[sess[c]] - 1 \in Nat
    BY <1>7, CountPositive DEF ResponseTimeout, CountedPcs
  <2> QED BY <1>7, <2>1 DEF ResponseTimeout, TypeOK, Goto, CallerPcs, EnteredPcs
<1>8. CASE Untimed(c)
  <2>1. sess[c] \in Sessions
    BY <1>8 DEF Untimed, LocalInv, EnteredPcs
  <2> QED BY <1>8, <2>1 DEF Untimed, TypeOK, Goto, CallerPcs
<1>9. CASE Close(c)
  <2>1. sess[c] \in Sessions
    BY <1>9 DEF Close, LocalInv
  <2>2. closed' \in [Sessions -> BOOLEAN]
    BY <1>9, <2>1 DEF Close, TypeOK
  <2>3. CASE Failed(c)
    BY <1>9, <2>2, <2>3, FailedType DEF Close, TypeOK
  <2>4. CASE ~Failed(c)
    BY <1>9, <2>2, <2>4 DEF Close, TypeOK, Goto, CallerPcs
  <2> QED BY <2>3, <2>4
<1>10. CASE Take(c)
  <2>1. sess[c] \in Sessions
    BY <1>10 DEF Take, LocalInv
  <2>2. reply' \in [Callers -> Chunks \cup {None, Error, Mixed}] /\ pending' \in [Sessions -> SUBSET Nat]
    BY <1>10, <2>1, RepliedType DEF Take, FailAll, TypeOK
  <2>3. Failed(c)
    BY <1>10 DEF Take
  <2> QED BY <1>10, <2>2, <2>3, FailedType DEF Take, TypeOK
<1> QED
  BY <1>1, <1>2, <1>3, <1>4, <1>5, <1>6, <1>7, <1>8, <1>9, <1>10 DEF SendStep

(* The reader task's steps keep the types. *)
LEMMA ReaderType ==
    ASSUME TypeOK, NEW s \in Sessions, ReaderStep(s)
    PROVE  TypeOK'
<1> USE DEF callerVars
<1>1. ASSUME NEW f \in wire[s], Deliver(s, f)
      PROVE  TypeOK'
  <2>1. f[1] \in Nat /\ f[2] \in Chunks \cup {Mixed}
    BY DEF TypeOK
  <2>2. reply' \in [Callers -> Chunks \cup {None, Error, Mixed}]
    BY <1>1, <2>1, RepliedType DEF Deliver, TypeOK
  <2>3. pending' \in [Sessions -> SUBSET Nat] /\ rpc' \in [Sessions -> ReaderPcs]
    BY <1>1 DEF Deliver, TypeOK, ReaderPcs
  <2>4. wire' \in [Sessions -> SUBSET (Nat \X (Chunks \cup {Mixed}))]
    BY <1>1 DEF Deliver, TypeOK
  <2> QED BY <1>1, <2>2, <2>3, <2>4 DEF Deliver, TypeOK
<1>2. CASE HangUp(s) \/ ReaderClose(s)
  BY <1>2 DEF HangUp, ReaderClose, TypeOK, ReaderPcs
<1>3. CASE ReaderTake(s)
  <2>1. reply' \in [Callers -> Chunks \cup {None, Error, Mixed}]
    BY <1>3, RepliedType DEF ReaderTake, FailAll
  <2> QED BY <1>3, <2>1 DEF ReaderTake, FailAll, TypeOK, ReaderPcs
<1> QED BY <1>1, <1>2, <1>3 DEF ReaderStep
-----------------------------------------------------------------------------
(* What steps leave alone. *)

\* Callers with a request keep it, their place and their reply; nobody else gets one.
Untouched ==
    \A d \in Callers :
        /\ pc'[d] \in EnteredPcs <=> pc[d] \in EnteredPcs
        /\ pc[d] \in EnteredPcs =>
             /\ pc'[d] = pc[d] /\ sess'[d] = sess[d] /\ rid'[d] = rid[d]
             /\ want'[d] = want[d] /\ reply'[d] = reply[d]

\* Callers may give up their requests or move on with them; none begins one.
Shrinking ==
    \A d \in Callers : pc'[d] \in EnteredPcs =>
        /\ pc[d] \in EnteredPcs /\ (pc[d] = "unwrite" => pc'[d] = "unwrite")
        /\ sess'[d] = sess[d] /\ rid'[d] = rid[d] /\ want'[d] = want[d]

(* The steps of the pool, and those before and after a request, touch none. *)
LEMMA Passive ==
    ASSUME TypeOK, NEW c \in Callers,
           (\E k \in Chunks : BeginRequest(c, k)) \/ PoolStep(c) \/ Check(c) \/ Close(c)
    PROVE  Untouched /\ UNCHANGED <<pending, inflight, nextId, wire, stream, reply>>
<1> USE DEF TypeOK, Untouched, EnteredPcs, AcquirePcs, sessionVars
<1>1. CASE \E k \in Chunks : BeginRequest(c, k)
  BY <1>1 DEF BeginRequest, Goto
<1>2. CASE Acquire(c) \/ PickNew(c) \/ PickWait(c) \/ Push(c)
  BY <1>2 DEF Acquire, PickNew, PickWait, Push, Goto
<1>3. CASE AcquireFails(c)
  BY <1>3 DEF AcquireFails, Goto, Clear
<1>4. CASE Prune(c)
  BY <1>4 DEF Prune, Goto
<1>5. CASE \E s \in Sessions : PickSession(c, s) \/ Connect(c, s)
  BY <1>5 DEF PickSession, Connect, Goto
<1>6. CASE Check(c)
  BY <1>6 DEF Check, Failed, Clear, Goto
<1>7. CASE Close(c)
  BY <1>7 DEF Close, Failed, Clear, Goto
<1> QED BY <1>1, <1>2, <1>3, <1>4, <1>5, <1>6, <1>7 DEF PoolStep

(* The table stays exact when it and its requests are left alone. *)
LEMMA TableSame ==
    ASSUME TypeOK, TableIsExact, pending' = pending,
           \A d \in Callers : pc'[d] \in EnteredPcs <=> pc[d] \in EnteredPcs,
           \A d \in Callers : pc[d] \in EnteredPcs =>
              sess'[d] = sess[d] /\ rid'[d] = rid[d] /\ reply'[d] = reply[d]
    PROVE  TableIsExact'
<1> SUFFICES ASSUME NEW s \in Sessions
             PROVE  pending[s] = {rid'[c] : c \in {d \in Entered(s)' : reply'[d] = None}}
  BY DEF TableIsExact
<1>1. Entered(s)' = Entered(s)
  BY DEF Entered
<1>2. \A d \in Entered(s) : rid'[d] = rid[d] /\ reply'[d] = reply[d]
  BY DEF Entered
<1>3. {rid'[c] : c \in {d \in Entered(s) : reply'[d] = None}}
       = {rid[c] : c \in {d \in Entered(s) : reply[d] = None}}
  BY <1>2
<1> QED BY <1>1, <1>3 DEF TableIsExact

(* Counts stay exact when nobody is counted anew or no longer. *)
LEMMA CountSame ==
    ASSUME InflightIsExact, inflight' = inflight,
           \A d \in Callers : pc'[d] \in CountedPcs <=> pc[d] \in CountedPcs,
           \A d \in Callers : pc[d] \in CountedPcs => sess'[d] = sess[d]
    PROVE  InflightIsExact'
<1>1. ASSUME NEW s \in Sessions PROVE Counted(s)' = Counted(s)
  BY DEF Counted
<1> QED BY <1>1 DEF InflightIsExact

(* ... and when one caller is counted no longer and the count taken down. *)
LEMMA CountDown ==
    ASSUME TypeOK, InflightIsExact, LocalInv, NEW c \in Callers,
           pc[c] \in CountedPcs, pc'[c] \notin CountedPcs,
           inflight' = [inflight EXCEPT ![sess[c]] = @ - 1],
           \A d \in Callers \ {c} : pc'[d] = pc[d] /\ sess'[d] = sess[d]
    PROVE  InflightIsExact'
<1>1. PICK t \in Sessions : t = sess[c]
  BY CountPositive
<1>2. Counted(t)' = Counted(t) \ {c} /\ c \in Counted(t)
  BY <1>1 DEF Counted
<1>3. Cardinality(Counted(t) \ {c}) = Cardinality(Counted(t)) - 1
  BY <1>2, Counting DEF Counted
<1>4. ASSUME NEW s \in Sessions, s # t PROVE Counted(s)' = Counted(s)
  BY <1>1, <1>4 DEF Counted
<1>5. ASSUME NEW s \in Sessions PROVE inflight'[s] = Cardinality(Counted(s)')
  <2>1. CASE s = t
    BY <2>1, <1>1, <1>2, <1>3 DEF InflightIsExact, TypeOK
  <2>2. CASE s # t
    BY <2>2, <1>1, <1>4 DEF InflightIsExact, TypeOK
  <2> QED BY <2>1, <2>2
<1> QED BY <1>5 DEF InflightIsExact

(* Requests that go, or go on, keep their ids and what they ask for. *)
LEMMA ShrinkingEntered ==
    ASSUME Shrinking, NEW s \in Sessions
    PROVE  /\ Entered(s)' \subseteq Entered(s)
           /\ \A d \in Entered(s)' :
                rid'[d] = rid[d] /\ want'[d] = want[d] /\ (pc[d] = "unwrite" => pc'[d] = "unwrite")
BY DEF Shrinking, Entered

(* Ids stay unique. *)
LEMMA IdsSame ==
    ASSUME IdInv, Shrinking, nextId' = nextId
    PROVE  IdInv'
BY ShrinkingEntered DEF IdInv

(* Answers stay their requests' own when there are only fewer of them. *)
LEMMA WireSame ==
    ASSUME WireInv, Shrinking, nextId' = nextId, stream' = stream,
           \A s \in Sessions : wire'[s] \subseteq wire[s]
    PROVE  WireInv'
BY ShrinkingEntered DEF WireInv

(* The mixture of two requests has the id of one that is not waited for. *)
LEMMA GarbledWire ==
    ASSUME TypeOK, IdInv, WireInv, Shrinking, nextId' = nextId, NEW t \in Sessions, Garbled(t)
    PROVE  WireInv'
<1>1. /\ stream'[t] = -1
      /\ \A f \in wire'[t] : f \in wire[t] \/ (stream[t] > 0 /\ f = <<stream[t], Mixed>>)
      /\ \A s \in Sessions \ {t} : wire'[s] = wire[s] /\ stream'[s] = stream[s]
  BY DEF Garbled, TypeOK
<1>2. ASSUME NEW s \in Sessions, NEW f \in wire'[s]
      PROVE  /\ f[1] < nextId[s]
             /\ \A d \in Entered(s)' : rid'[d] = f[1] => f[2] = want'[d] \/ pc'[d] = "unwrite"
  <2>1. CASE f \in wire[s]
    BY <2>1, ShrinkingEntered DEF WireInv
  <2>2. CASE f \notin wire[s]
    <3>1. s = t /\ f = <<stream[s], Mixed>>
      BY <1>1, <1>2, <2>2
    <3>2. f[1] = stream[s]
      BY <3>1
    <3> QED BY <3>2, ShrinkingEntered DEF WireInv
  <2> QED BY <2>1, <2>2
<1>3. ASSUME NEW s \in Sessions
      PROVE  /\ stream'[s] < nextId[s]
             /\ \A d \in Entered(s)' : rid'[d] = stream'[s] => pc'[d] = "unwrite"
  <2>1. CASE s = t
    <3>1. nextId[s] \in Nat /\ \A d \in Entered(s)' : rid'[d] = rid[d] /\ 0 < rid[d] /\ rid[d] \in Nat
      BY ShrinkingEntered DEF IdInv, TypeOK, Entered
    <3> QED BY <3>1, <2>1, <1>1
  <2>2. CASE s # t
    BY <2>2, <1>1, ShrinkingEntered DEF WireInv
  <2> QED BY <2>1, <2>2
<1> QED BY <1>2, <1>3 DEF WireInv

(* Replies stay the caller's own when none but an error is sent. *)
LEMMA RepliesSame ==
    ASSUME ReplyInv,
           \A d \in Callers : pc'[d] \in {"write", "await"} =>
              /\ pc[d] \in {"write", "await"} /\ want'[d] = want[d]
              /\ reply'[d] \in {reply[d], None, Error}
    PROVE  ReplyInv'
BY DEF ReplyInv

\* The parts of the invariant that are about requests.
Requests == TableIsExact /\ InflightIsExact /\ IdInv /\ WireInv /\ ReplyInv

(* A step that touches no request and none of what the requests use. *)
LEMMA Frame ==
    ASSUME TypeOK, Requests, Untouched,
           UNCHANGED <<pending, inflight, nextId, wire, stream, reply>>
    PROVE  Requests'
<1> USE DEF Untouched, Requests
<1>1. TableIsExact'
  BY TableSame
<1>2. InflightIsExact'
  BY CountSame DEF CountedPcs, EnteredPcs
<1>3. Shrinking
  BY DEF Shrinking
<1>4. IdInv' /\ WireInv'
  BY <1>3, IdsSame, WireSame
<1>5. ReplyInv'
  BY RepliesSame DEF EnteredPcs
<1> QED BY <1>1, <1>2, <1>4, <1>5
-----------------------------------------------------------------------------
(* The steps that do touch requests, one by one. *)

(* The new request's id is fresh, so that its entry, its count and its reply *)
(* are its own.                                                              *)
LEMMA InsertStep ==
    ASSUME TypeOK, LocalInv, Requests, NEW c \in Callers, Insert(c)
    PROVE  Requests'
<1> USE DEF Requests
<1>1. PICK t \in Sessions : t = sess[c]
  BY DEF Insert, LocalInv
<1>2. /\ pc' = [pc EXCEPT ![c] = "write"] /\ pc[c] = "insert"
      /\ rid' = [rid EXCEPT ![c] = nextId[t]]
      /\ nextId' = [nextId EXCEPT ![t] = @ + 1]
      /\ pending' = [pending EXCEPT ![t] = @ \cup {nextId[t]}]
      /\ inflight' = [inflight EXCEPT ![t] = @ + 1]
      /\ UNCHANGED <<wire, stream, want, sess, reply>>
  BY <1>1 DEF Insert, Goto
<1>3. reply[c] = None /\ nextId[t] \in Nat \ {0}
  BY <1>2 DEF LocalInv, EnteredPcs, TypeOK
<1>4. /\ c \notin Entered(t) /\ Entered(t)' = Entered(t) \cup {c}
      /\ \A s \in Sessions \ {t} : c \notin Entered(s) /\ Entered(s)' = Entered(s)
  BY <1>1, <1>2 DEF Entered, EnteredPcs, TypeOK
<1>5. rid'[c] = nextId[t] /\ \A d \in Callers \ {c} : rid'[d] = rid[d] /\ pc'[d] = pc[d]
  BY <1>2 DEF TypeOK
<1>6. TableIsExact'
  <2> SUFFICES ASSUME NEW s \in Sessions
               PROVE  pending'[s] = {rid'[e] : e \in {d \in Entered(s)' : reply[d] = None}}
    BY <1>2 DEF TableIsExact
  <2>1. pending[s] = {rid[e] : e \in {d \in Entered(s) : reply[d] = None}}
    BY DEF TableIsExact
  <2>2. Entered(s) \subseteq Callers
    BY DEF Entered
  <2>3. CASE s = t
    <3>1. pending'[s] = pending[s] \cup {nextId[t]}
      BY <1>2, <2>3 DEF TypeOK
    <3> QED BY <3>1, <2>1, <2>2, <2>3, <1>3, <1>4, <1>5
  <2>4. CASE s # t
    <3>1. pending'[s] = pending[s]
      BY <1>2, <2>4 DEF TypeOK
    <3> QED BY <3>1, <2>1, <2>2, <2>4, <1>4, <1>5
  <2> QED BY <2>3, <2>4
<1>7. InflightIsExact'
  <2>1. Counted(t)' = Counted(t) \cup {c} /\ c \notin Counted(t) /\ Counted(t) \in SUBSET Callers
    BY <1>1, <1>2 DEF Counted, CountedPcs, TypeOK
  <2>2. Cardinality(Counted(t) \cup {c}) = Cardinality(Counted(t)) + 1
    BY <2>1, Counting
  <2>3. ASSUME NEW s \in Sessions, s # t PROVE Counted(s)' = Counted(s)
    BY <1>1, <1>2, <2>3 DEF Counted, CountedPcs, TypeOK
  <2>4. ASSUME NEW s \in Sessions PROVE inflight'[s] = Cardinality(Counted(s)')
    <3>1. CASE s = t
      BY <3>1, <1>2, <2>1, <2>2 DEF InflightIsExact, TypeOK
    <3>2. CASE s # t
      BY <3>2, <1>2, <2>3 DEF InflightIsExact, TypeOK
    <3> QED BY <3>1, <3>2
  <2> QED BY <2>4 DEF InflightIsExact
<1>8. \A s \in Sessions : /\ \A d \in Entered(s) : d # c /\ d \in Callers /\ rid[d] \in Nat
                          /\ nextId[s] \in Nat /\ nextId'[s] \in Nat /\ nextId[s] <= nextId'[s]
                          /\ s = t => nextId[s] < nextId'[s]
  BY <1>1, <1>2 DEF Entered, EnteredPcs, TypeOK
<1>9. IdInv'
  <2>1. ASSUME NEW s \in Sessions, NEW d \in Entered(s)' PROVE 0 < rid'[d] /\ rid'[d] < nextId'[s]
    BY <2>1, <1>3, <1>4, <1>5, <1>8 DEF IdInv
  <2>2. ASSUME NEW s \in Sessions, NEW d \in Entered(s)', NEW e \in Entered(s)', rid'[d] = rid'[e]
        PROVE  d = e
    BY <2>2, <1>3, <1>4, <1>5, <1>8 DEF IdInv
  <2> QED BY <2>1, <2>2 DEF IdInv
<1>10. WireInv'
  <2>1. ASSUME NEW s \in Sessions PROVE stream[s] < nextId'[s] /\ stream[s] \in Int
    BY <1>8 DEF WireInv, TypeOK
  <2>2. ASSUME NEW s \in Sessions, NEW f \in wire[s] PROVE f[1] < nextId'[s] /\ f[1] \in Nat
    BY <1>8 DEF WireInv, TypeOK
  <2>3. ASSUME NEW s \in Sessions, NEW f \in wire[s], NEW d \in Entered(s)', rid'[d] = f[1]
        PROVE  f[2] = want[d] \/ pc'[d] = "unwrite"
    BY <2>2, <2>3, <1>3, <1>4, <1>5, <1>8 DEF WireInv
  <2>4. ASSUME NEW s \in Sessions, NEW d \in Entered(s)', rid'[d] = stream[s]
        PROVE  pc'[d] = "unwrite"
    BY <2>1, <2>4, <1>3, <1>4, <1>5, <1>8 DEF WireInv
  <2> QED BY <2>1, <2>2, <2>3, <2>4, <1>2 DEF WireInv
<1>11. ReplyInv'
  BY <1>2, <1>3, <1>5 DEF ReplyInv
<1> QED BY <1>6, <1>7, <1>9, <1>10, <1>11

(* What is written arrives under the id and with the wish of its caller, or  *)
(* garbles a request nobody waits for.                                       *)
LEMMA WriteStep ==
    ASSUME TypeOK, LocalInv, Requests, NEW c \in Callers, Write(c)
    PROVE  Requests'
<1> USE DEF Requests
<1>1. PICK t \in Sessions : t = sess[c]
  BY DEF Write, LocalInv, EnteredPcs
<1>2. /\ pc' = [pc EXCEPT ![c] = "await"] /\ pc[c] = "write"
      /\ Arrives(t, rid[c], want[c])
      /\ UNCHANGED <<pending, inflight, nextId, want, sess, rid, reply>>
  BY <1>1 DEF Write, Goto
<1>3. pc'[c] = "await" /\ \A d \in Callers \ {c} : pc'[d] = pc[d]
  BY <1>2 DEF TypeOK
<1>4. TableIsExact'
  BY <1>2, <1>3, TableSame DEF EnteredPcs
<1>5. InflightIsExact'
  BY <1>2, <1>3, CountSame DEF CountedPcs
<1>6. Shrinking
  BY <1>2, <1>3 DEF Shrinking, EnteredPcs
<1>7. IdInv'
  BY <1>2, <1>6, IdsSame
<1>8. ReplyInv'
  BY <1>2, <1>3, RepliesSame
<1>9. WireInv'
  <2>1. CASE UNCHANGED <<wire, stream>>
    BY <2>1, <1>2, <1>6, WireSame
  <2>2. CASE Garbled(t)
    BY <2>2, <1>2, <1>6, GarbledWire
  <2>3. CASE wire' = [wire EXCEPT ![t] = @ \cup {<<rid[c], want[c]>>}] /\ UNCHANGED stream
    <3>1. /\ \A f \in wire'[t] : f \in wire[t] \/ f = <<rid[c], want[c]>>
          /\ \A s \in Sessions \ {t} : wire'[s] = wire[s]
      BY <2>3 DEF TypeOK
    <3>2. c \in Entered(t)
      BY <1>1, <1>2 DEF Entered, EnteredPcs
    <3>3. ASSUME NEW s \in Sessions, NEW f \in wire'[s]
          PROVE  /\ f[1] < nextId[s]
                 /\ \A d \in Entered(s)' : rid'[d] = f[1] => f[2] = want'[d] \/ pc'[d] = "unwrite"
      <4>1. CASE f \in wire[s]
        BY <4>1, <1>6, ShrinkingEntered DEF WireInv
      <4>2. CASE f \notin wire[s]
        <5>1. s = t /\ f = <<rid[c], want[c]>>
          BY <3>1, <3>3, <4>2
        <5>2. f[1] = rid[c] /\ f[2] = want[c]
          BY <5>1
        <5> QED BY <5>1, <5>2, <3>2, <1>2, <1>6, ShrinkingEntered DEF IdInv
      <4> QED BY <4>1, <4>2
    <3>4. ASSUME NEW s \in Sessions
          PROVE  /\ stream[s] < nextId[s]
                 /\ \A d \in Entered(s)' : rid'[d] = stream[s] => pc'[d] = "unwrite"
      BY <1>6, ShrinkingEntered DEF WireInv
    <3> QED BY <3>3, <3>4, <2>3, <1>2 DEF WireInv
  <2> QED BY <2>1, <2>2, <2>3, <1>2 DEF Arrives
<1> QED BY <1>4, <1>5, <1>7, <1>8, <1>9

(* A write that fails leaves its own id, if any, to the garbled bytes. *)
LEMMA WriteFailsStep ==
    ASSUME TypeOK, LocalInv, Requests, NEW c \in Callers, WriteFails(c)
    PROVE  Requests'
<1> USE DEF Requests
<1>1. PICK t \in Sessions : t = sess[c]
  BY DEF WriteFails, LocalInv, EnteredPcs
<1>2. /\ pc' = [pc EXCEPT ![c] = "unwrite"] /\ pc[c] = "write"
      /\ \/ UNCHANGED <<wire, stream>>
         \/ stream' = [stream EXCEPT ![t] = rid[c]] /\ UNCHANGED wire
         \/ Garbled(t)
      /\ UNCHANGED <<pending, inflight, nextId, want, sess, rid, reply>>
  BY <1>1 DEF WriteFails, Goto
<1>3. pc'[c] = "unwrite" /\ \A d \in Callers \ {c} : pc'[d] = pc[d]
  BY <1>2 DEF TypeOK
<1>4. TableIsExact'
  BY <1>2, <1>3, TableSame DEF EnteredPcs
<1>5. InflightIsExact'
  BY <1>2, <1>3, CountSame DEF CountedPcs
<1>6. Shrinking
  BY <1>2, <1>3 DEF Shrinking, EnteredPcs
<1>7. IdInv'
  BY <1>2, <1>6, IdsSame
<1>8. ReplyInv'
  BY <1>2, <1>3, RepliesSame
<1>9. WireInv'
  <2>1. CASE UNCHANGED <<wire, stream>>
    BY <2>1, <1>2, <1>6, WireSame
  <2>2. CASE Garbled(t)
    BY <2>2, <1>2, <1>6, GarbledWire
  <2>3. CASE stream' = [stream EXCEPT ![t] = rid[c]] /\ UNCHANGED wire
    <3>1. stream'[t] = rid[c] /\ \A s \in Sessions \ {t} : stream'[s] = stream[s]
      BY <2>3 DEF TypeOK
    <3>2. c \in Entered(t)
      BY <1>1, <1>2 DEF Entered, EnteredPcs
    <3>3. ASSUME NEW s \in Sessions
          PROVE  /\ stream'[s] < nextId[s]
                 /\ \A d \in Entered(s)' : rid'[d] = stream'[s] => pc'[d] = "unwrite"
      <4>1. CASE s = t
        BY <4>1, <3>1, <3>2, <1>3, <1>6, ShrinkingEntered DEF IdInv
      <4>2. CASE s # t
        BY <4>2, <3>1, <1>6, ShrinkingEntered DEF WireInv
      <4> QED BY <4>1, <4>2
    <3>4. ASSUME NEW s \in Sessions, NEW f \in wire[s]
          PROVE  /\ f[1] < nextId[s]
                 /\ \A d \in Entered(s)' : rid'[d] = f[1] => f[2] = want'[d] \/ pc'[d] = "unwrite"
      BY <1>6, ShrinkingEntered DEF WireInv
    <3> QED BY <3>3, <3>4, <2>3, <1>2 DEF WireInv
  <2> QED BY <2>1, <2>2, <2>3, <1>2
<1> QED BY <1>4, <1>5, <1>7, <1>8, <1>9

(* Taking a caller's id out of the table as it leaves takes nobody else's. *)
LEMMA TableLeave ==
    ASSUME TypeOK, LocalInv, TableIsExact, IdInv, NEW c \in Callers,
           pc[c] \in EnteredPcs, pc'[c] \notin EnteredPcs,
           pending' = [pending EXCEPT ![sess[c]] = @ \ {rid[c]}],
           \A d \in Callers \ {c} :
              pc'[d] = pc[d] /\ sess'[d] = sess[d] /\ rid'[d] = rid[d] /\ reply'[d] = reply[d]
    PROVE  TableIsExact'
<1>1. PICK t \in Sessions : t = sess[c]
  BY DEF LocalInv
<1>2. SUFFICES ASSUME NEW s \in Sessions
               PROVE  pending'[s] = {rid'[e] : e \in {d \in Entered(s)' : reply'[d] = None}}
  BY DEF TableIsExact
<1>3. pending[s] = {rid[e] : e \in {d \in Entered(s) : reply[d] = None}}
  BY DEF TableIsExact
<1>4. /\ Entered(s)' = Entered(s) \ {c} /\ (s = t <=> c \in Entered(s))
      /\ \A d \in Entered(s) \ {c} : rid'[d] = rid[d] /\ reply'[d] = reply[d]
  BY <1>1 DEF Entered
<1>5. CASE s = t
  <2>1. pending'[s] = pending[s] \ {rid[c]}
    BY <1>1, <1>5 DEF TypeOK
  <2>2. \A d \in Entered(s) \ {c} : rid[d] # rid[c]
    BY <1>4, <1>5 DEF IdInv
  <2> QED BY <2>1, <2>2, <1>3, <1>4, <1>5
<1>6. CASE s # t
  <2>1. pending'[s] = pending[s]
    BY <1>1, <1>6 DEF TypeOK
  <2> QED BY <2>1, <1>3, <1>4, <1>6
<1> QED BY <1>5, <1>6

(* A caller whose write failed takes its request back. *)
LEMMA UnwriteStep ==
    ASSUME TypeOK, LocalInv, Requests, NEW c \in Callers, Unwrite(c)
    PROVE  Requests'
<1> USE DEF Requests
<1>1. /\ pc[c] = "unwrite" /\ pc'[c] = "close" /\ reply'[c] = None
      /\ \A d \in Callers \ {c} : pc'[d] = pc[d] /\ reply'[d] = reply[d]
      /\ pending' = [pending EXCEPT ![sess[c]] = @ \ {rid[c]}]
      /\ inflight' = [inflight EXCEPT ![sess[c]] = @ - 1]
      /\ UNCHANGED <<nextId, wire, stream, want, sess, rid>>
  BY DEF Unwrite, Goto, TypeOK
<1>2. TableIsExact'
  BY <1>1, TableLeave DEF EnteredPcs
<1>3. InflightIsExact'
  BY <1>1, CountDown DEF CountedPcs
<1>4. Shrinking
  BY <1>1 DEF Shrinking, EnteredPcs
<1>5. IdInv' /\ WireInv'
  BY <1>1, <1>4, IdsSame, WireSame
<1>6. ReplyInv'
  BY <1>1, RepliesSame
<1> QED BY <1>2, <1>3, <1>5, <1>6

(* A caller that has a reply is in the table no more and leaves the count. *)
LEMMA ReceiveStep ==
    ASSUME TypeOK, LocalInv, Requests, NEW c \in Callers, Receive(c)
    PROVE  Requests'
<1> USE DEF Requests
<1>1. /\ pc[c] = "await" /\ pc'[c] \in {"idle", "prune"} /\ reply'[c] = None
      /\ \A d \in Callers \ {c} : /\ pc'[d] = pc[d] /\ reply'[d] = reply[d] /\ want'[d] = want[d]
                                  /\ sess'[d] = sess[d] /\ rid'[d] = rid[d]
      /\ inflight' = [inflight EXCEPT ![sess[c]] = @ - 1]
      /\ UNCHANGED <<pending, nextId, wire, stream>>
  BY DEF Receive, Failed, Goto, Clear, TypeOK
<1>2. pending = [pending EXCEPT ![sess[c]] = @ \ {rid[c]}]
  <2>1. sess[c] \in Sessions /\ c \in Entered(sess[c])
    BY <1>1 DEF LocalInv, Entered, EnteredPcs
  <2>2. reply[c] # None
    BY DEF Receive
  <2>3. rid[c] \notin pending[sess[c]]
    BY <2>1, <2>2 DEF TableIsExact, IdInv
  <2> QED BY <2>1, <2>3 DEF TypeOK
<1>3. TableIsExact'
  BY <1>1, <1>2, TableLeave DEF EnteredPcs
<1>4. InflightIsExact'
  BY <1>1, CountDown DEF CountedPcs
<1>5. Shrinking
  BY <1>1 DEF Shrinking, EnteredPcs
<1>6. IdInv' /\ WireInv'
  BY <1>1, <1>5, IdsSame, WireSame
<1>7. ReplyInv'
  BY <1>1, RepliesSame
<1> QED BY <1>3, <1>4, <1>6, <1>7

(* A timeout takes the count down first ... *)
LEMMA ResponseTimeoutStep ==
    ASSUME TypeOK, LocalInv, Requests, NEW c \in Callers, ResponseTimeout(c)
    PROVE  Requests'
<1> USE DEF Requests
<1>1. /\ pc[c] = "await" /\ pc'[c] = "untimed"
      /\ \A d \in Callers \ {c} : pc'[d] = pc[d]
      /\ inflight' = [inflight EXCEPT ![sess[c]] = @ - 1]
      /\ UNCHANGED <<pending, nextId, wire, stream, want, sess, rid, reply>>
  BY DEF ResponseTimeout, Goto, TypeOK
<1>2. TableIsExact'
  BY <1>1, TableSame DEF EnteredPcs
<1>3. InflightIsExact'
  BY <1>1, CountDown DEF CountedPcs
<1>4. Shrinking
  BY <1>1 DEF Shrinking, EnteredPcs
<1>5. IdInv' /\ WireInv'
  BY <1>1, <1>4, IdsSame, WireSame
<1>6. ReplyInv'
  BY <1>1, RepliesSame
<1> QED BY <1>2, <1>3, <1>5, <1>6

(* ... and the table's entry afterwards. *)
LEMMA UntimedStep ==
    ASSUME TypeOK, LocalInv, Requests, NEW c \in Callers, Untimed(c)
    PROVE  Requests'
<1> USE DEF Requests
<1>1. /\ pc[c] = "untimed" /\ pc'[c] = "close"
      /\ \A d \in Callers \ {c} : pc'[d] = pc[d] /\ reply'[d] = reply[d]
      /\ pending' = [pending EXCEPT ![sess[c]] = @ \ {rid[c]}]
      /\ UNCHANGED <<inflight, nextId, wire, stream, want, sess, rid>>
  BY DEF Untimed, Goto, TypeOK
<1>2. TableIsExact'
  BY <1>1, TableLeave DEF EnteredPcs
<1>3. InflightIsExact'
  BY <1>1, CountSame DEF CountedPcs
<1>4. Shrinking
  BY <1>1 DEF Shrinking, EnteredPcs
<1>5. IdInv' /\ WireInv'
  BY <1>1, <1>4, IdsSame, WireSame
<1>6. ReplyInv'
  BY <1>1, RepliesSame
<1> QED BY <1>2, <1>3, <1>5, <1>6

(* Closing a session fails every request in its table, and no other. *)
LEMMA FailAllStep ==
    ASSUME TypeOK, Requests, NEW t \in Sessions, FailAll(t),
           \A d \in Callers :
              /\ pc'[d] \in EnteredPcs <=> pc[d] \in EnteredPcs
              /\ pc[d] \in EnteredPcs => /\ pc'[d] = pc[d] /\ sess'[d] = sess[d]
                                         /\ rid'[d] = rid[d] /\ want'[d] = want[d],
           UNCHANGED <<inflight, nextId, wire, stream>>
    PROVE  Requests'
<1> USE DEF Requests
<1>1. /\ \A d \in Callers : reply'[d] = IF pc[d] \in EnteredPcs /\ sess[d] = t /\ rid[d] \in pending[t]
                                        THEN Error ELSE reply[d]
      /\ pending'[t] = {} /\ \A s \in Sessions \ {t} : pending'[s] = pending[s]
  BY DEF FailAll, Replied, TypeOK
<1>2. TableIsExact'
  <2> SUFFICES ASSUME NEW s \in Sessions
               PROVE  pending'[s] = {rid'[e] : e \in {d \in Entered(s)' : reply'[d] = None}}
    BY DEF TableIsExact
  <2>1. pending[s] = {rid[e] : e \in {d \in Entered(s) : reply[d] = None}}
    BY DEF TableIsExact
  <2>2. Entered(s)' = Entered(s) /\ \A d \in Entered(s) : rid'[d] = rid[d]
    BY DEF Entered
  <2>3. CASE s = t
    <3>1. ASSUME NEW d \in Entered(s) PROVE reply'[d] # None
      <4>1. d \in Callers /\ pc[d] \in EnteredPcs /\ sess[d] = t
        BY <2>3 DEF Entered
      <4>2. reply[d] = None => rid[d] \in pending[t]
        BY <2>1, <2>3
      <4>3. Error # None
        BY SessionAssumption
      <4> QED BY <1>1, <4>1, <4>2, <4>3
    <3> QED BY <3>1, <2>2, <2>3, <1>1
  <2>4. CASE s # t
    <3>1. \A d \in Entered(s) : reply'[d] = reply[d]
      BY <1>1, <2>4 DEF Entered
    <3> QED BY <3>1, <2>1, <2>2, <2>4, <1>1
  <2> QED BY <2>3, <2>4
<1>3. InflightIsExact'
  BY CountSame DEF CountedPcs, EnteredPcs
<1>4. Shrinking
  BY DEF Shrinking
<1>5. IdInv' /\ WireInv'
  BY <1>4, IdsSame, WireSame
<1>6. ReplyInv'
  BY <1>1, RepliesSame DEF EnteredPcs
<1> QED BY <1>2, <1>3, <1>5, <1>6

(* A response goes to the one caller with its id, and is its own. *)
LEMMA DeliverStep ==
    ASSUME TypeOK, Requests, NEW t \in Sessions, NEW f \in wire[t], Deliver(t, f)
    PROVE  Requests'
<1> USE DEF Requests
<1>1. UNCHANGED <<inflight, nextId, stream, pc, want, sess, rid>> /\ Shrinking
  BY DEF Deliver, Shrinking
<1>2. \A s \in Sessions : wire'[s] \subseteq wire[s]
  BY DEF Deliver, TypeOK
<1>3. IdInv' /\ WireInv'
  BY <1>1, <1>2, IdsSame, WireSame
<1>4. InflightIsExact'
  BY <1>1, CountSame
<1>5. CASE UNCHANGED <<pending, reply>>
  <2>1. TableIsExact'
    BY <1>1, <1>5, TableSame
  <2>2. ReplyInv'
    BY <1>1, <1>5, RepliesSame
  <2> QED BY <2>1, <2>2, <1>3, <1>4
<1>6. CASE f[1] \in pending[t]
  <2>1. /\ pending'[t] = pending[t] \ {f[1]} /\ \A s \in Sessions \ {t} : pending'[s] = pending[s]
        /\ \A d \in Callers : reply'[d] = IF pc[d] \in EnteredPcs /\ sess[d] = t /\ rid[d] = f[1]
                                          THEN f[2] ELSE reply[d]
    BY <1>6 DEF Deliver, Replied, TypeOK
  <2>2. f[2] # None
    BY SessionAssumption DEF TypeOK
  <2>3. \A s \in Sessions : Entered(s)' = Entered(s)
    BY <1>1 DEF Entered
  <2>4. TableIsExact'
    <3> SUFFICES ASSUME NEW s \in Sessions
                 PROVE  pending'[s] = {rid[e] : e \in {d \in Entered(s) : reply'[d] = None}}
      BY <1>1, <2>3 DEF TableIsExact
    <3>1. pending[s] = {rid[e] : e \in {d \in Entered(s) : reply[d] = None}}
      BY DEF TableIsExact
    <3>2. CASE s = t
      <4>1. \A d \in Entered(s) : reply'[d] = IF rid[d] = f[1] THEN f[2] ELSE reply[d]
        BY <2>1, <3>2 DEF Entered
      <4> QED BY <4>1, <3>1, <3>2, <2>1, <2>2
    <3>3. CASE s # t
      <4>1. \A d \in Entered(s) : reply'[d] = reply[d]
        BY <2>1, <3>3 DEF Entered
      <4> QED BY <4>1, <3>1, <3>3, <2>1
    <3> QED BY <3>2, <3>3
  <2>5. ReplyInv'
    <3> SUFFICES ASSUME NEW d \in Callers, pc[d] \in {"write", "await"}
                 PROVE  reply'[d] \in {None, Error, want[d]}
      BY <1>1 DEF ReplyInv
    <3>1. CASE sess[d] = t /\ rid[d] = f[1]
      <4>1. d \in Entered(t)
        BY <3>1 DEF Entered, EnteredPcs
      <4>2. f[2] = want[d]
        BY <4>1, <3>1 DEF WireInv
      <4> QED BY <4>2, <3>1, <2>1 DEF EnteredPcs
    <3>2. CASE ~(sess[d] = t /\ rid[d] = f[1])
      BY <3>2, <2>1 DEF ReplyInv
    <3> QED BY <3>1, <3>2
  <2> QED BY <2>4, <2>5, <1>3, <1>4
<1> QED BY <1>5, <1>6 DEF Deliver

(* Every step keeps the parts of the invariant that are about requests. *)
LEMMA RequestsStep ==
    ASSUME IInv, Next
    PROVE  Requests'
<1> USE DEF IInv, Requests
<1>1. ASSUME NEW c \in Callers, NEW k \in Chunks, BeginRequest(c, k)
      PROVE  Requests'
  BY <1>1, Passive, Frame
<1>2. ASSUME NEW c \in Callers, PoolStep(c)
      PROVE  Requests'
  BY <1>2, Passive, Frame
<1>3. ASSUME NEW c \in Callers, SendStep(c)
      PROVE  Requests'
  <2>1. CASE Check(c) \/ Close(c)
    BY <2>1, Passive, Frame
  <2>2. CASE Take(c)
    <3>1. PICK t \in Sessions : t = sess[c]
      BY <2>2 DEF Take, LocalInv
    <3>2. FailAll(t) /\ UNCHANGED <<inflight, nextId, wire, stream>>
      BY <2>2, <3>1 DEF Take
    <3>3. \A d \in Callers :
             /\ pc'[d] \in EnteredPcs <=> pc[d] \in EnteredPcs
             /\ pc[d] \in EnteredPcs => /\ pc'[d] = pc[d] /\ sess'[d] = sess[d]
                                        /\ rid'[d] = rid[d] /\ want'[d] = want[d]
      BY <2>2 DEF Take, Failed, Goto, Clear, EnteredPcs, TypeOK
    <3> QED BY <3>2, <3>3, FailAllStep
  <2> QED
    BY <1>3, <2>1, <2>2, InsertStep, WriteStep, WriteFailsStep, UnwriteStep, ReceiveStep,
       ResponseTimeoutStep, UntimedStep DEF SendStep
<1>4. ASSUME NEW s \in Sessions, ReaderStep(s)
      PROVE  Requests'
  <2>1. CASE \E f \in wire[s] : Deliver(s, f)
    BY <2>1, DeliverStep
  <2>2. CASE HangUp(s)
    <3>1. /\ UNCHANGED <<pending, inflight, nextId, stream, pc, want, sess, rid, reply>>
          /\ \A r \in Sessions : wire'[r] \subseteq wire[r]
      BY <2>2 DEF HangUp, callerVars, TypeOK
    <3>2. TableIsExact' /\ InflightIsExact' /\ ReplyInv'
      BY <3>1, TableSame, CountSame, RepliesSame
    <3>3. IdInv' /\ WireInv'
      BY <3>1, IdsSame, WireSame DEF Shrinking
    <3> QED BY <3>2, <3>3
  <2>3. CASE ReaderClose(s)
    <3>1. Untouched /\ UNCHANGED <<pending, inflight, nextId, wire, stream, reply>>
      BY <2>3 DEF ReaderClose, callerVars, Untouched
    <3> QED BY <3>1, Frame
  <2>4. CASE ReaderTake(s)
    <3>1. FailAll(s) /\ UNCHANGED <<inflight, nextId, wire, stream, pc, want, sess, rid>>
      BY <2>4 DEF ReaderTake
    <3> QED BY <3>1, FailAllStep
  <2> QED BY <1>4, <2>1, <2>2, <2>3, <2>4 DEF ReaderStep
<1> QED BY <1>1, <1>2, <1>3, <1>4 DEF Next

(* Every step keeps the types. *)
LEMMA TypeStep ==
    ASSUME IInv, Next
    PROVE  TypeOK'
<1> USE DEF IInv
<1>1. ASSUME NEW c \in Callers, NEW k \in Chunks, BeginRequest(c, k)
      PROVE  TypeOK'
  <2>1. requests' \in 0 .. MaxRequests
    BY <1>1, SessionAssumption DEF BeginRequest, TypeOK
  <2> QED BY <1>1, <2>1 DEF BeginRequest, Goto, TypeOK, CallerPcs, AcquirePcs, sessionVars
<1> QED BY <1>1, PoolType, SendType, ReaderType DEF Next

(* A caller past acquire has a session and knows what it wants. *)
LEMMA LocalStep ==
    ASSUME IInv, Next
    PROVE  LocalInv'
<1> USE DEF IInv, LocalInv, TypeOK, EnteredPcs
<1>1. ASSUME NEW c \in Callers, NEW k \in Chunks, BeginRequest(c, k)
      PROVE  LocalInv'
  BY <1>1 DEF BeginRequest, Goto
<1>2. ASSUME NEW c \in Callers, PoolStep(c)
      PROVE  LocalInv'
  <2>1. CASE Acquire(c) \/ PickNew(c) \/ PickWait(c) \/ Push(c)
    BY <2>1 DEF Acquire, PickNew, PickWait, Push, Goto
  <2>2. CASE AcquireFails(c)
    BY <2>2 DEF AcquireFails, AcquirePcs, Goto, Clear
  <2>3. CASE Prune(c)
    BY <2>3 DEF Prune, Goto
  <2>4. CASE \E s \in Sessions : PickSession(c, s) \/ Connect(c, s)
    BY <2>4 DEF PickSession, Connect, Goto
  <2> QED BY <1>2, <2>1, <2>2, <2>3, <2>4 DEF PoolStep
<1>3. ASSUME NEW c \in Callers, SendStep(c)
      PROVE  LocalInv'
  <2>1. CASE Check(c)
    BY <2>1 DEF Check, Failed, Goto, Clear
  <2>2. CASE Insert(c)
    BY <2>2 DEF Insert, Goto
  <2>3. CASE Write(c)
    BY <2>3 DEF Write, Goto
  <2>4. CASE WriteFails(c)
    BY <2>4 DEF WriteFails, Goto
  <2>5. CASE Unwrite(c)
    BY <2>5 DEF Unwrite, Goto
  <2>6. CASE Receive(c)
    BY <2>6 DEF Receive, Failed, Goto, Clear
  <2>7. CASE ResponseTimeout(c)
    BY <2>7 DEF ResponseTimeout, Goto
  <2>8. CASE Untimed(c)
    BY <2>8 DEF Untimed, Goto
  <2>9. CASE Close(c)
    BY <2>9 DEF Close, Failed, Goto, Clear
  <2>10. CASE Take(c)
    BY <2>10 DEF Take, FailAll, Replied, Failed, Goto, Clear
  <2> QED
    BY <1>3, <2>1, <2>2, <2>3, <2>4, <2>5, <2>6, <2>7, <2>8, <2>9, <2>10 DEF SendStep
<1>4. ASSUME NEW s \in Sessions, ReaderStep(s)
      PROVE  LocalInv'
  <2>1. UNCHANGED <<pc, want, sess>>
    BY <1>4 DEF ReaderStep, Deliver, HangUp, ReaderClose, ReaderTake, callerVars
  <2>2. \A d \in Callers : pc[d] \notin EnteredPcs => reply'[d] = reply[d]
    BY <1>4 DEF ReaderStep, Deliver, HangUp, ReaderClose, ReaderTake, FailAll, Replied, callerVars
  <2> QED BY <2>1, <2>2
<1> QED BY <1>1, <1>2, <1>3, <1>4 DEF Next

(* The pool and those connecting to it stay within the bound. *)
LEMMA RoomStep ==
    ASSUME IInv, Next
    PROVE  RoomInv'
<1> USE DEF IInv
<1>1. /\ pool \in SUBSET Sessions /\ Connecting \in SUBSET Callers
      /\ pool' \in SUBSET Sessions /\ Connecting' \in SUBSET Callers
      /\ Cardinality(Callers) \in Nat /\ MaxSize \in Nat
  BY TypeStep, Counting, SessionAssumption DEF TypeOK, Connecting
<1>2. /\ Cardinality(pool) \in Nat /\ Cardinality(pool') \in Nat
      /\ Cardinality(Connecting) \in Nat /\ Cardinality(Connecting') \in Nat
      /\ Cardinality(Connecting') <= Cardinality(Callers)
  BY <1>1, PoolSize, Counting
<1>3. CASE pool' \subseteq pool /\ Connecting' \subseteq Connecting
  <2>1. Cardinality(pool') <= Cardinality(pool)
    BY <1>1, <1>3, PoolSize
  <2>2. IsFiniteSet(Connecting)
    BY <1>1, Counting
  <2>3. Cardinality(Connecting') <= Cardinality(Connecting)
    BY <1>3, <2>2, FS_Subset
  <2> QED BY <1>1, <1>2, <2>1, <2>3 DEF RoomInv
<1>4. ASSUME NEW c \in Callers, PickNew(c)
      PROVE  RoomInv'
  <2>1. pool' = pool /\ Cardinality(pool) < MaxSize
    BY <1>4, <1>1, <1>2 DEF PickNew, Full
  <2> QED BY <2>1, <1>1, <1>2 DEF RoomInv
<1>5. ASSUME NEW c \in Callers, Push(c)
      PROVE  RoomInv'
  <2>1. PICK t \in Sessions : t = sess[c]
    BY <1>5 DEF Push, LocalInv
  <2>2. pool' = pool \cup {t} /\ Connecting' = Connecting \ {c} /\ c \in Connecting
    BY <1>5, <2>1 DEF Push, Goto, Connecting, TypeOK
  <2>3. Cardinality(pool') <= Cardinality(pool) + 1
    BY <2>2, <1>1, PoolSize
  <2>4. Cardinality(Connecting') = Cardinality(Connecting) - 1
    BY <2>2, <1>1, Counting
  <2> QED BY <2>3, <2>4, <1>1, <1>2 DEF RoomInv
<1>6. ASSUME NEW c \in Callers, PoolStep(c)
      PROVE  RoomInv'
  <2>1. CASE Acquire(c) \/ PickWait(c) \/ AcquireFails(c)
    BY <2>1, <1>3 DEF Acquire, PruneIdle, PickWait, AcquireFails, Goto, Connecting, TypeOK
  <2>2. CASE Prune(c)
    BY <2>2, <1>3 DEF Prune, PruneIdle, Goto, Connecting, TypeOK
  <2>3. CASE \E s \in Sessions : PickSession(c, s) \/ Connect(c, s)
    BY <2>3, <1>3 DEF PickSession, Connect, Goto, Connecting, TypeOK
  <2> QED BY <1>6, <1>4, <1>5, <2>1, <2>2, <2>3 DEF PoolStep
<1>7. ASSUME NEW c \in Callers, SendStep(c) \/ \E k \in Chunks : BeginRequest(c, k)
      PROVE  RoomInv'
  <2>1. pool' = pool
    BY <1>7 DEF SendStep, Check, Insert, Write, WriteFails, Unwrite, Receive, ResponseTimeout,
                Untimed, Close, Take, BeginRequest
  <2>2. Connecting' \subseteq Connecting
    BY <1>7 DEF SendStep, Check, Insert, Write, WriteFails, Unwrite, Receive, ResponseTimeout,
                Untimed, Close, Take, BeginRequest, Failed, Goto, Connecting, TypeOK
  <2> QED BY <2>1, <2>2, <1>3
<1>8. ASSUME NEW s \in Sessions, ReaderStep(s)
      PROVE  RoomInv'
  BY <1>8, <1>3 DEF ReaderStep, Deliver, HangUp, ReaderClose, ReaderTake, callerVars, Connecting
<1> QED BY <1>6, <1>7, <1>8 DEF Next
-----------------------------------------------------------------------------
(* The invariant, and what follows from it. *)

(* Before the first request. *)
LEMMA InitInv == Init => IInv
<1> SUFFICES ASSUME Init PROVE IInv
  OBVIOUS
<1>1. TypeOK
  <2>1. failures \in 0 .. MaxFailures /\ requests \in 0 .. MaxRequests
    BY SessionAssumption DEF Init
  <2>2. permit \in BOOLEAN /\ closed \in [Sessions -> BOOLEAN]
    BY DEF Init
  <2>3. /\ pending \in [Sessions -> SUBSET Nat] /\ stream \in [Sessions -> Int]
        /\ wire \in [Sessions -> SUBSET (Nat \X (Chunks \cup {Mixed}))]
        /\ inflight \in [Sessions -> Nat] /\ nextId \in [Sessions -> Nat \ {0}]
    BY DEF Init
  <2> QED BY <2>1, <2>2, <2>3 DEF Init, TypeOK, CallerPcs, ReaderPcs
<1>2. \A s \in Sessions : Entered(s) = {} /\ Counted(s) = {}
  BY DEF Init, Entered, Counted, EnteredPcs, CountedPcs
<1>3. Cardinality({}) = 0
  BY FS_EmptySet
<1>4. TableIsExact
  BY <1>2 DEF Init, TableIsExact
<1>5. InflightIsExact
  BY <1>2, <1>3 DEF Init, InflightIsExact
<1>6. RoomInv
  <2>1. Connecting = {} /\ pool = {}
    BY DEF Init, Connecting
  <2>2. Cardinality(Callers) \in Nat /\ MaxSize \in Nat \ {0}
    BY Counting, SessionAssumption
  <2> QED BY <2>1, <2>2, <1>3 DEF RoomInv
<1>7. LocalInv
  BY DEF Init, LocalInv, EnteredPcs
<1>8. IdInv /\ WireInv
  BY <1>2 DEF Init, IdInv, WireInv
<1>9. ReplyInv
  BY DEF Init, ReplyInv
<1> QED BY <1>1, <1>4, <1>5, <1>6, <1>7, <1>8, <1>9 DEF IInv

(* Every step of Session, and every stutter, keeps the invariant. *)
LEMMA StepInv == IInv /\ [Next]_vars => IInv'
<1>1. ASSUME IInv, Next PROVE IInv'
  BY <1>1, TypeStep, RequestsStep, LocalStep, RoomStep DEF IInv, Requests
<1>2. ASSUME IInv, UNCHANGED vars PROVE IInv'
  BY <1>2 DEF IInv, TypeOK, TableIsExact, InflightIsExact, RoomInv, LocalInv, IdInv, WireInv, ReplyInv,
              Entered, Counted, Connecting, vars, sessionVars, callerVars
<1> QED BY <1>1, <1>2

(* The inductive invariant holds throughout. *)
THEOREM Invariance == Spec => []IInv
BY InitInv, StepInv, PTL DEF Spec

(* Types: in particular the count of requests of a session, which is an     *)
(* unsigned integer that send_request takes down on three paths, never wraps.*)
THEOREM TypeCorrect == Spec => []TypeOK
<1>1. IInv => TypeOK
  BY DEF IInv
<1> QED BY Invariance, <1>1, PTL

(* A request that succeeds has the answer to what it asked for, whatever    *)
(* the order of answers, timeouts, broken-off writes and closings.          *)
THEOREM ResponsesAreOwn == Spec => []OwnResponse
<1>1. IInv => OwnResponse
  BY DEF IInv, ReplyInv, OwnResponse
<1> QED BY Invariance, <1>1, PTL

(* The table of pending requests holds exactly those nobody has replied to. *)
THEOREM TableStaysExact == Spec => []TableIsExact
<1>1. IInv => TableIsExact
  BY DEF IInv
<1> QED BY Invariance, <1>1, PTL

(* The count by which sessions are shared and pruned is the number of       *)
(* requests under way.                                                      *)
THEOREM CountsStayExact == Spec => []InflightIsExact
<1>1. IInv => InflightIsExact
  BY DEF IInv
<1> QED BY Invariance, <1>1, PTL

(* Connecting outside the pool's mutex exceeds its limit by fewer sessions  *)
(* than there are callers.                                                  *)
THEOREM PoolStaysBounded == Spec => []PoolBound
<1>1. IInv => PoolBound
  <2> SUFFICES ASSUME IInv PROVE PoolBound
    OBVIOUS
  <2>1. Connecting \in SUBSET Callers /\ pool \in SUBSET Sessions
    BY DEF IInv, TypeOK, Connecting
  <2>2. /\ Cardinality(Connecting) \in Nat /\ Cardinality(pool) \in Nat
        /\ Cardinality(Callers) \in Nat /\ MaxSize \in Nat
    BY <2>1, Counting, PoolSize, SessionAssumption
  <2> QED BY <2>2 DEF IInv, RoomInv, PoolBound
<1> QED BY Invariance, <1>1, PTL
=============================================================================
