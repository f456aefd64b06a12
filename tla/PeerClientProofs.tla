-------------------------- MODULE PeerClientProofs -------------------------
(***************************************************************************)
(* Proofs about the two sides of a request for a chunk that this node does *)
(* not have: Breaker, for any number of threads and any cool-down, and the *)
(* instance P of Prefetch, for any peers, requests and limits.             *)
(***************************************************************************)
EXTENDS Breaker, FiniteSets, FiniteSetTheorems, SequenceTheorems, TLAPS

(* A client on its way to a rejection, and one that is about to open the     *)
(* breaker, both stand for a failure that last does not make younger.        *)
Recorded ==
    \/ open
    \/ \E c \in Clients : pc[c] \in {"open", "stored"}

(* The strengthening: once there is a failure on record, last is the time of *)
(* one, so it is at least as old as the last failure.  Times that have been  *)
(* taken and are not stored yet are of failures as well.                     *)
LastIsFailure ==
    /\ Recorded => failure <= last
    /\ \A c \in Clients : pc[c] = "failed" => failure <= stamp[c]

IInv == TypeOK /\ LastIsFailure

LEMMA OlderType == \A a \in 0 .. Cooldown : Older(a) \in 0 .. Cooldown
  BY BreakerAssumption DEF Older

LEMMA OlderMonotone == \A a, b \in 0 .. Cooldown : a <= b => Older(a) <= Older(b)
  BY BreakerAssumption DEF Older

LEMMA InitIInv == Init => IInv
  <1> SUFFICES ASSUME Init
               PROVE  IInv
    OBVIOUS
  <1>1. last \in 0 .. Cooldown /\ failure \in 0 .. Cooldown /\ elapsed \in 0 .. Interval
    BY BreakerAssumption DEF Init
  <1>2. stamp \in [Clients -> 0 .. Cooldown]
    BY BreakerAssumption DEF Init
  <1>3. pc \in [Clients -> {"idle", "open", "sent", "success", "failed", "stored"}]
    BY DEF Init
  <1>4. open = FALSE /\ up \in BOOLEAN
    BY DEF Init
  <1>5. \A c \in Clients : pc[c] = "idle"
    BY DEF Init
  <1> QED
    BY <1>1, <1>2, <1>3, <1>4, <1>5 DEF IInv, TypeOK, LastIsFailure, Recorded

(* Every action keeps the types.                                             *)
LEMMA TypeStep == TypeOK /\ [Next]_vars => TypeOK'
  <1> SUFFICES ASSUME TypeOK, [Next]_vars
               PROVE  TypeOK'
    OBVIOUS
  <1> USE BreakerAssumption DEF TypeOK, Goto
  <1>1. CASE \E c \in Callers : LoadOpen(c) \/ LoadLast(c)
    BY <1>1 DEF LoadOpen, LoadLast, Clients
  <1>2. CASE \E c \in Clients : Succeed(c) \/ Fail(c)
    BY <1>2 DEF Succeed, Fail
  <1>3. CASE \E c \in Clients : StoreLast(c) \/ StoreOpen(c) \/ RecordSuccess(c)
    <2>1. open' \in BOOLEAN /\ up' \in BOOLEAN
      BY <1>3, Zenon DEF StoreLast, StoreOpen, RecordSuccess
    <2>2. last' \in 0 .. Cooldown /\ failure' \in 0 .. Cooldown /\ elapsed' \in 0 .. Interval
      BY <1>3 DEF StoreLast, StoreOpen, RecordSuccess
    <2>3. stamp' = stamp
      BY <1>3 DEF StoreLast, StoreOpen, RecordSuccess
    <2>4. pc' \in [Clients -> {"idle", "open", "sent", "success", "failed", "stored"}]
      BY <1>3 DEF StoreLast, StoreOpen, RecordSuccess
    <2> QED
      BY <2>1, <2>2, <2>3, <2>4
  <1>4. CASE CheckHealth
    BY <1>4 DEF CheckHealth, Clients
  <1>5. CASE ServerChanges
    BY <1>5 DEF ServerChanges
  <1>6. CASE Tick
    <2>1. last' \in 0 .. Cooldown /\ failure' \in 0 .. Cooldown
      BY <1>6, OlderType DEF Tick
    <2>2. stamp' \in [Clients -> 0 .. Cooldown]
      BY <1>6, OlderType DEF Tick
    <2> QED
      BY <1>6, <2>1, <2>2 DEF Tick
  <1>7. CASE UNCHANGED vars
    BY <1>7 DEF vars
  <1> QED
    BY <1>1, <1>2, <1>3, <1>4, <1>5, <1>6, <1>7 DEF Next, Outcome

(* Every action keeps last at least as old as the last failure.              *)
LEMMA LastStep == IInv /\ [Next]_vars => LastIsFailure'
  <1> SUFFICES ASSUME TypeOK, LastIsFailure, [Next]_vars
               PROVE  LastIsFailure'
    BY DEF IInv
  <1> USE BreakerAssumption DEF TypeOK, LastIsFailure, Recorded, Goto
  <1>1. ASSUME NEW c \in Callers, LoadOpen(c)
        PROVE  LastIsFailure'
    <2>1. c \in Clients
      BY DEF Clients
    <2> QED
      BY <1>1, <2>1 DEF LoadOpen
  <1>2. ASSUME NEW c \in Callers, LoadLast(c)
        PROVE  LastIsFailure'
    <2>1. c \in Clients
      BY DEF Clients
    <2> QED
      BY <1>2, <2>1 DEF LoadLast
  <1>3. ASSUME NEW c \in Clients, Succeed(c)
        PROVE  LastIsFailure'
    BY <1>3 DEF Succeed
  <1>4. ASSUME NEW c \in Clients, Fail(c)
        PROVE  LastIsFailure'
    <2>1. failure' = 0 /\ last' = last
      BY <1>4 DEF Fail
    <2>2. \A d \in Clients : 0 <= stamp'[d]
      BY <1>4 DEF Fail
    <2> QED
      BY <2>1, <2>2
  <1>5. ASSUME NEW c \in Clients, StoreLast(c)
        PROVE  LastIsFailure'
    <2>1. failure' <= last'
      BY <1>5 DEF StoreLast
    <2>2. \A d \in Clients : pc'[d] = "failed" => pc[d] = "failed" /\ stamp'[d] = stamp[d]
      BY <1>5 DEF StoreLast
    <2> QED
      BY <1>5, <2>1, <2>2 DEF StoreLast
  <1>6. ASSUME NEW c \in Clients, StoreOpen(c)
        PROVE  LastIsFailure'
    BY <1>6 DEF StoreOpen
  <1>7. ASSUME NEW c \in Clients, RecordSuccess(c)
        PROVE  LastIsFailure'
    BY <1>7 DEF RecordSuccess
  <1>8. CASE CheckHealth
    BY <1>8 DEF CheckHealth, Clients
  <1>9. CASE ServerChanges
    BY <1>9 DEF ServerChanges
  <1>10. CASE Tick
    <2>1. Recorded' => failure' <= last'
      BY <1>10, OlderMonotone DEF Tick
    <2>2. ASSUME NEW c \in Clients, pc'[c] = "failed"
          PROVE  failure' <= stamp'[c]
      BY <1>10, <2>2, OlderMonotone DEF Tick
    <2> QED
      BY <2>1, <2>2
  <1>11. CASE UNCHANGED vars
    BY <1>11 DEF vars
  <1> QED
    BY <1>1, <1>2, <1>3, <1>4, <1>5, <1>6, <1>7, <1>8, <1>9, <1>10, <1>11 DEF Next, Outcome

(* The breaker's variables keep their types, and last is the time of a       *)
(* failure whenever a rejection can depend on it.                            *)
THEOREM LastIsFailureAlways == Spec => []IInv
  <1>1. IInv /\ [Next]_vars => IInv'
    BY TypeStep, LastStep DEF IInv
  <1> QED
    BY InitIInv, <1>1, PTL DEF Spec

(* control_request and control_batch_request reject only within the          *)
(* cool-down of a failure, whatever the interleaving of the loads of         *)
(* should_reject with the stores of record_failure and record_success.       *)
THEOREM RejectionHasReason == Spec => RejectsAfterFailure
  <1>1. IInv /\ [Next]_vars
          => [\A c \in Callers : pc[c] = "open" /\ pc'[c] = "idle" => failure < Cooldown]_vars
    <2> SUFFICES ASSUME TypeOK, LastIsFailure, Next,
                        NEW c \in Callers, pc[c] = "open", pc'[c] = "idle"
                 PROVE  failure < Cooldown
      BY DEF IInv
    <2>1. c \in Clients
      BY DEF Clients
    <2>2. failure <= last
      BY <2>1 DEF LastIsFailure, Recorded
    <2>3. last < Cooldown
      BY <2>1 DEF Next, Outcome, LoadOpen, LoadLast, Succeed, Fail, StoreLast, StoreOpen,
                  RecordSuccess, CheckHealth, ServerChanges, Tick, Goto, TypeOK, Clients
    <2> QED
      BY <2>2, <2>3, BreakerAssumption DEF TypeOK
  <1> QED
    BY <1>1, LastIsFailureAlways, PTL DEF Spec, RejectsAfterFailure
-----------------------------------------------------------------------------
(* Prefetch *)

CONSTANTS Self, Peers, Corrupt, Requests, MaxQueryPeers, MaxCopies, FailLimit

VARIABLES chunkdb, holders, alive, index, peers, hits, failures, recent, at, list, got

P == INSTANCE Prefetch WITH up <- alive, pc <- at

(* The smaller of two numbers. *)
LEMMA MinPair ==
    ASSUME NEW a \in Nat, NEW b \in Nat
    PROVE  P!Min({a, b}) \in Nat /\ P!Min({a, b}) <= a /\ P!Min({a, b}) <= b
           /\ P!Min({a, b}) \in {a, b}
<1>1. \E x \in {a, b} : \A y \in {a, b} : x <= y
  OBVIOUS
<1>2. P!Min({a, b}) = CHOOSE x \in {a, b} : \A y \in {a, b} : x <= y
  BY DEF P!Min
<1>3. P!Min({a, b}) \in {a, b} /\ \A y \in {a, b} : P!Min({a, b}) <= y
  BY <1>1, <1>2
<1> QED BY <1>3

\* What a request may have for candidates.
Candidates(s) == s \in Seq(Peers) /\ Len(s) <= MaxQueryPeers

(* Cutting a list leaves at most max_query_peers of it. *)
LEMMA CutIsShort ==
    ASSUME MaxQueryPeers \in Nat, NEW s \in Seq(Peers)
    PROVE  Candidates(P!Cut(s))
<1> DEFINE n == P!Min({Len(s), MaxQueryPeers})
           t == SubSeq(s, 1, n)
<1>1. Len(s) \in Nat /\ n \in Nat /\ n <= Len(s) /\ n <= MaxQueryPeers
  BY MinPair, LenProperties
<1>2. P!Cut(s) = t
  BY DEF P!Cut
<1> HIDE DEF n
<1>3. t \in Seq(Peers) /\ Len(t) = n
  BY <1>1
<1> QED BY <1>1, <1>2, <1>3 DEF Candidates

(* The list without its first peer. *)
LEMMA TailIsShort ==
    ASSUME NEW s, Candidates(s), s # <<>>, MaxQueryPeers \in Nat
    PROVE  Candidates(Tail(s)) /\ Head(s) \in Peers
<1>1. s \in Seq(Peers) /\ Len(s) \in Nat /\ Len(s) >= 1
  BY LenProperties, EmptySeq DEF Candidates
<1>2. Tail(s) \in Seq(Peers) /\ Len(Tail(s)) = Len(s) - 1 /\ Head(s) \in Peers
  BY <1>1, HeadTailProperties
<1> QED BY <1>1, <1>2 DEF Candidates

(* Whoever is selected, from the index or from the discovery list. *)
LEMMA SelectedAreCandidates ==
    ASSUME P!Parameters
    PROVE  /\ \A s \in P!Ranked(P!OwnerEntries) : Candidates(P!Cut(s))
           /\ \A s \in P!DiscoveredCandidates : Candidates(s)
<1>1. MaxQueryPeers \in Nat
  BY DEF P!Parameters
<1>2. ASSUME NEW B, NEW s \in P!Ranked(B)
      PROVE  s \in Seq(Peers)
  <2> DEFINE S == {p \in Peers : B[p] > 0}
             k == MaxCopies * P!Cardinality(Peers)
  <2>1. s \in P!BoundedSeq(S, k)
    BY <1>2 DEF P!Ranked
  <2> HIDE DEF k
  <2>2. PICK n \in 0 .. k : s \in [1 .. n -> S]
    BY <2>1 DEF P!BoundedSeq, P!SeqOf
  <2> QED BY <2>2
<1>3. ASSUME NEW s \in P!Ranked(P!OwnerEntries) PROVE Candidates(P!Cut(s))
  BY <1>1, <1>2, <1>3, CutIsShort
<1>4. ASSUME NEW c \in P!DiscoveredCandidates PROVE Candidates(c)
  <2>1. PICK s \in P!Ranked(peers) : \E t \in P!HintedFirst(s) : c = P!Cut(t)
    BY <1>4 DEF P!DiscoveredCandidates
  <2>2. PICK t \in P!HintedFirst(s) : c = P!Cut(t)
    BY <2>1
  <2>3. s \in Seq(Peers) /\ DOMAIN s = 1 .. Len(s) /\ Len(s) \in Nat
    BY <1>2, LenProperties
  <2>4. PICK g \in [DOMAIN s -> DOMAIN s] : t = [i \in DOMAIN s |-> s[g[i]]]
    BY <2>2 DEF P!HintedFirst, P!Bijection, P!Injection
  <2>5. t \in [1 .. Len(s) -> Peers]
    BY <2>3, <2>4
  <2>6. t \in Seq(Peers)
    BY <2>3, <2>5
  <2> QED BY <1>1, <2>2, <2>6, CutIsShort
<1> QED BY <1>3, <1>4

(* A request gets another list. *)
LEMMA ListChanges ==
    ASSUME P!TypeOK, P!WithinLimit, NEW r \in Requests, NEW s, Candidates(s),
           list' = [list EXCEPT ![r] = s]
    PROVE  list' \in [Requests -> Seq(Peers)] /\ P!WithinLimit'
<1>1. list \in [Requests -> Seq(Peers)] /\ s \in Seq(Peers) /\ Len(s) <= MaxQueryPeers
  BY DEF P!TypeOK, Candidates
<1>2. /\ list' \in [Requests -> Seq(Peers)]
      /\ list'[r] = s /\ \A q \in Requests : q # r => list'[q] = list[q]
  BY <1>1
<1> QED BY <1>1, <1>2 DEF P!WithinLimit

(* The list that a request has, and the empty one. *)
LEMMA HasCandidates ==
    ASSUME P!Parameters, P!TypeOK, P!WithinLimit
    PROVE  /\ \A r \in Requests : Candidates(list[r])
           /\ Candidates(<<>>)
           /\ MaxQueryPeers \in Nat
  BY EmptySeq DEF P!Parameters, P!TypeOK, P!WithinLimit, Candidates

(* The first state. *)
LEMMA InitPrefetch == P!Parameters /\ P!Init => P!IInv
<1> SUFFICES ASSUME P!Parameters, P!Init PROVE P!IInv
  OBVIOUS
<1>1. <<>> \in Seq(Peers) /\ Len(<<>>) = 0
  BY EmptySeq
<1>2. \A r \in Requests : list[r] = <<>> /\ at[r] = "idle" /\ got[r] = "none"
  BY DEF P!Init
<1>3. P!TypeOK
  BY <1>1 DEF P!Parameters, P!Init, P!TypeOK
<1>4. P!WithinLimit
  BY <1>1, <1>2, <1>3 DEF P!Parameters, P!WithinLimit, P!TypeOK
<1>5. P!HoldsAnswer
  BY <1>2 DEF P!HoldsAnswer
<1>6. P!OnlyVerifiedIsStored
  BY DEF P!Init, P!OnlyVerifiedIsStored
<1> QED BY <1>3, <1>4, <1>5, <1>6 DEF P!IInv

(* A request gets its candidates. *)
LEMMA SelectStep ==
    ASSUME P!Parameters, P!IInv, NEW r \in Requests, P!Select(r)
    PROVE  P!IInv'
<1>1. P!TypeOK /\ P!WithinLimit /\ P!HoldsAnswer /\ P!OnlyVerifiedIsStored
  BY DEF P!IInv
<1>2. \E s : Candidates(s) /\ list' = [list EXCEPT ![r] = s]
  BY <1>1, SelectedAreCandidates DEF P!Select, P!SelectOwners, P!SelectDiscovered
<1>3. /\ at[r] = "select" /\ at' = [at EXCEPT ![r] = "ask"]
      /\ UNCHANGED <<chunkdb, holders, alive, index, peers, hits, failures, recent, got>>
  BY DEF P!Select, P!Goto, P!world, P!records
<1>4. list' \in [Requests -> Seq(Peers)] /\ P!WithinLimit'
  BY <1>1, <1>2, <1>3, ListChanges
<1>5. P!TypeOK'
  BY <1>1, <1>3, <1>4 DEF P!TypeOK
<1>6. P!HoldsAnswer'
  <2>1. \A q \in Requests : q # r => list'[q] = list[q]
    BY <1>1, <1>2 DEF P!TypeOK
  <2> QED BY <1>1, <1>3, <2>1 DEF P!HoldsAnswer, P!TypeOK
<1> QED BY <1>1, <1>3, <1>4, <1>5, <1>6 DEF P!IInv, P!OnlyVerifiedIsStored

(* A candidate is asked. *)
LEMMA AskStep ==
    ASSUME P!Parameters, P!IInv, NEW r \in Requests, P!AskHit(r) \/ P!AskMiss(r) \/ P!AskFails(r)
    PROVE  P!IInv'
<1>1. P!TypeOK /\ P!WithinLimit /\ P!HoldsAnswer /\ P!OnlyVerifiedIsStored
  BY DEF P!IInv
<1> DEFINE p == Head(list[r])
<1>2. at[r] = "ask" /\ list[r] # <<>>
  BY DEF P!AskHit, P!AskMiss, P!AskFails, P!Asks
<1>3. Candidates(<<>>) /\ Candidates(Tail(list[r])) /\ p \in Peers
  BY <1>1, <1>2, HasCandidates, TailIsShort
<1>4. UNCHANGED <<chunkdb, holders, alive, index, peers>>
  BY DEF P!AskHit, P!AskMiss, P!AskFails, P!world, P!records
<1>5. \E s : Candidates(s) /\ list' = [list EXCEPT ![r] = s]
  <2>1. \/ list' = [list EXCEPT ![r] = <<>>]
        \/ list' = [list EXCEPT ![r] = Tail(list[r])]
    BY DEF P!AskHit, P!AskMiss, P!AskFails
  <2> QED BY <1>3, <2>1, Zenon
<1>6. list' \in [Requests -> Seq(Peers)] /\ P!WithinLimit'
  BY <1>1, <1>4, <1>5, ListChanges
<1>7. /\ hits' \subseteq Peers /\ recent' \subseteq Peers
      /\ failures' \in [Peers -> 0 .. FailLimit]
  <2> HIDE DEF p
  <2>1. /\ hits \subseteq Peers /\ recent \subseteq Peers
        /\ failures \in [Peers -> 0 .. FailLimit] /\ FailLimit \in Nat
    BY <1>1 DEF P!TypeOK, P!Parameters
  <2>2. /\ hits' \in {hits, hits \cup {p}}
        /\ recent' \in {recent, recent \ {p}, recent \cup {p}}
        /\ \/ failures' = failures
           \/ failures' = [failures EXCEPT ![p] = 0]
           \/ failures' = [failures EXCEPT ![p] = P!Min({failures[p] + 1, FailLimit})]
    BY DEF P!AskHit, P!AskMiss, P!AskFails, P!Candidate, P!records, p
  <2>3. P!Min({failures[p] + 1, FailLimit}) \in 0 .. FailLimit
    <3>1. failures[p] + 1 \in Nat
      BY <1>3, <2>1
    <3> QED BY <2>1, <3>1, MinPair
  <2> QED BY <1>3, <2>1, <2>2, <2>3
<1>8. \/ at' = at /\ got' = got
      \/ /\ at' = [at EXCEPT ![r] = "verify"] /\ list' = [list EXCEPT ![r] = <<>>]
         /\ \E g \in {"good", "bad"} : got' = [got EXCEPT ![r] = g]
  BY DEF P!AskHit, P!AskMiss, P!AskFails, P!Goto
<1>9. P!TypeOK'
  <2>1. /\ at' \in [Requests -> {"idle", "select", "ask", "verify"}]
        /\ got' \in [Requests -> {"none", "good", "bad"}]
    BY <1>1, <1>8 DEF P!TypeOK
  <2> QED BY <1>1, <1>4, <1>6, <1>7, <2>1 DEF P!TypeOK
<1>10. P!HoldsAnswer'
  <2>1. list \in [Requests -> Seq(Peers)] /\ \A q \in Requests : q # r => list'[q] = list[q]
    BY <1>1, <1>5 DEF P!TypeOK
  <2>2. CASE at' = at /\ got' = got
    BY <1>1, <1>2, <2>1, <2>2 DEF P!HoldsAnswer
  <2>3. CASE /\ at' = [at EXCEPT ![r] = "verify"] /\ list' = [list EXCEPT ![r] = <<>>]
             /\ \E g \in {"good", "bad"} : got' = [got EXCEPT ![r] = g]
    BY <1>1, <2>1, <2>3 DEF P!HoldsAnswer, P!TypeOK
  <2> QED BY <1>8, <2>2, <2>3
<1> QED BY <1>1, <1>4, <1>6, <1>9, <1>10 DEF P!IInv, P!OnlyVerifiedIsStored

(* A request begins or ends. *)
LEMMA EndStep ==
    ASSUME P!Parameters, P!IInv, NEW r \in Requests,
           P!Request(r) \/ P!NobodyLeft(r) \/ P!Discard(r) \/ P!AddChunk(r) \/ P!AddFails(r)
    PROVE  P!IInv'
<1>1. P!TypeOK /\ P!WithinLimit /\ P!HoldsAnswer /\ P!OnlyVerifiedIsStored
  BY DEF P!IInv
<1>2. UNCHANGED <<holders, alive, index, peers, hits, failures, recent, list>>
  BY DEF P!Request, P!NobodyLeft, P!Discard, P!AddChunk, P!AddFails, P!world, P!records
<1>3. chunkdb' \in {chunkdb, "good"}
  BY DEF P!Request, P!NobodyLeft, P!Discard, P!AddChunk, P!AddFails, P!IsVerified
<1>4. /\ list[r] = <<>>
      /\ \/ at[r] # "verify" /\ got' = got
         \/ got' = [got EXCEPT ![r] = "none"]
      /\ at' = [at EXCEPT ![r] = "idle"] \/ at' = [at EXCEPT ![r] = "select"]
  BY <1>1 DEF P!Request, P!NobodyLeft, P!Discard, P!AddChunk, P!AddFails, P!Goto, P!HoldsAnswer
<1>5. P!TypeOK'
  BY <1>1, <1>2, <1>3, <1>4 DEF P!TypeOK
<1>6. P!WithinLimit'
  BY <1>1, <1>2 DEF P!WithinLimit
<1>7. P!HoldsAnswer'
  BY <1>1, <1>2, <1>4 DEF P!HoldsAnswer, P!TypeOK
<1>8. P!OnlyVerifiedIsStored'
  BY <1>1, <1>3 DEF P!OnlyVerifiedIsStored
<1> QED BY <1>5, <1>6, <1>7, <1>8 DEF P!IInv

(* The peers, the index, the records about them and the collector. *)
LEMMA WorldStep ==
    ASSUME P!Parameters, P!IInv,
           \/ \E p \in Peers : \/ P!HintExpires(p) \/ P!FailureAges(p)
                               \/ P!OtherHit(p) \/ P!PeerChanges(p)
           \/ \E B \in [Peers -> 0 .. MaxCopies] : P!RefreshPeers(B)
           \/ \E n \in Peers \cup {Self} : P!IndexChanges(n)
           \/ P!Collect
           \/ UNCHANGED P!vars
    PROVE  P!IInv'
<1>1. P!TypeOK /\ P!WithinLimit /\ P!HoldsAnswer /\ P!OnlyVerifiedIsStored
  BY DEF P!IInv
<1> USE DEF P!HintExpires, P!FailureAges, P!OtherHit, P!PeerChanges, P!RefreshPeers,
            P!IndexChanges, P!Collect, P!vars, P!world, P!records
<1>2. UNCHANGED <<at, list, got>>
  OBVIOUS
<1>3. chunkdb' \in {chunkdb, "none"}
  OBVIOUS
<1>4. /\ holders' \subseteq Peers /\ alive' \subseteq Peers
      /\ peers' \in [Peers -> 0 .. MaxCopies]
      /\ index' \subseteq Peers \cup {Self}
      /\ hits' \subseteq Peers /\ recent' \subseteq Peers
  BY <1>1 DEF P!TypeOK
<1>5. failures' \in [Peers -> 0 .. FailLimit]
  <2>1. failures' = failures \/ \E p \in Peers : failures' = [failures EXCEPT ![p] = 0]
    OBVIOUS
  <2> QED BY <1>1, <2>1 DEF P!TypeOK, P!Parameters
<1>6. P!TypeOK'
  BY <1>1, <1>2, <1>3, <1>4, <1>5 DEF P!TypeOK
<1>7. P!WithinLimit' /\ P!HoldsAnswer'
  BY <1>1, <1>2 DEF P!WithinLimit, P!HoldsAnswer
<1>8. P!OnlyVerifiedIsStored'
  BY <1>1, <1>3 DEF P!OnlyVerifiedIsStored
<1> QED BY <1>6, <1>7, <1>8 DEF P!IInv

(* The inductive invariant of a prefetch holds in every reachable state. *)
THEOREM PrefetchInvariance ==
    ASSUME P!Parameters
    PROVE  P!Spec => []P!IInv
<1>1. P!Init => P!IInv
  BY InitPrefetch
<1>2. P!IInv /\ [P!Next]_(P!vars) => P!IInv'
  <2> SUFFICES ASSUME P!IInv, [P!Next]_(P!vars) PROVE P!IInv'
    OBVIOUS
  <2>1. ASSUME NEW r \in Requests,
               P!Serve(r) \/ P!Select(r) \/ P!AddChunk(r) \/ P!AddFails(r)
        PROVE  P!IInv'
    BY <2>1, SelectStep, AskStep, EndStep DEF P!Serve
  <2> QED BY <2>1, WorldStep DEF P!Next
<1> QED BY <1>1, <1>2, PTL DEF P!Spec

(* ChunkDB never gets what a corrupt peer has sent. *)
THEOREM OnlyVerifiedChunks ==
    ASSUME P!Parameters
    PROVE  P!Spec => []P!OnlyVerifiedIsStored
<1>1. P!IInv => P!OnlyVerifiedIsStored BY DEF P!IInv
<1> QED BY <1>1, PrefetchInvariance, PTL
=============================================================================
