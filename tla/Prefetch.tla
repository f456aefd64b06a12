------------------------------ MODULE Prefetch ------------------------------
(***************************************************************************)
(* A prefetch: the chunk server gets a chunk from another node, from       *)
(* src/backend/peer.rs: PrefetchRequest, PeerClient, PeerHitHints,         *)
(* PeerHealthTracker and RedisDiscoveryWorker.                             *)
(*                                                                         *)
(* One chunk is modelled and the requests for it; those for other chunks   *)
(* share the hints and the health records, which they change.  Times are   *)
(* left out: a hint may expire and a failure grow old at any step.  Round  *)
(* trip times and scores only order peers of one class, in any way.  A     *)
(* peer that is up answers in time.                                        *)
(***************************************************************************)
EXTENDS Integers, FiniteSets, FiniteSetsExt, Sequences, SequencesExt

CONSTANTS
    Self,          \* this node: local_addr
    Peers,         \* the other nodes
    Corrupt,       \* peers whose copy of the chunk is not what its checksum says
    Requests,      \* tasks that serve prefetch requests for the chunk
    MaxQueryPeers, \* max_query_peers
    MaxCopies,     \* bound: entries of one address in the discovery list
    FailLimit      \* failures in a row that make a peer unhealthy

Parameters ==
    /\ IsFiniteSet(Peers) /\ Self \notin Peers /\ Corrupt \subseteq Peers
    /\ MaxQueryPeers \in Nat \ {0} /\ MaxCopies \in Nat \ {0} /\ FailLimit \in Nat \ {0}

ASSUME PrefetchAssumption == Parameters

VARIABLES
    chunkdb,    \* the chunk in this node's ChunkDB: "none", "good" or "bad"
    holders,    \* peers that have the chunk in theirs
    up,         \* peers that answer
    index,      \* live owners of the chunk in the chunk index
    peers,      \* peer -> its entries in RedisDiscovery's list, one for each node id
    hits,       \* peers with a record in PeerHitHints
    failures,   \* peer -> consecutive_failures, up to FailLimit
    recent,     \* peers whose last failure is less than 30 seconds old
    pc,         \* request -> where it is
    list,       \* request -> candidates it has still to ask
    got         \* request -> what a peer has sent

world == <<holders, up, index, peers>>
records == <<hits, failures, recent>>
vars == <<chunkdb, world, records, pc, list, got>>

Unhealthy(p) == failures[p] >= FailLimit /\ p \in recent
Owners == index \ {Self}                  \* is_self leaves this node out

TypeOK ==
    /\ chunkdb \in {"none", "good", "bad"}
    /\ holders \subseteq Peers /\ up \subseteq Peers
    /\ peers \in [Peers -> 0 .. MaxCopies]
    /\ index \subseteq Peers \cup {Self}
    /\ hits \subseteq Peers /\ recent \subseteq Peers
    /\ failures \in [Peers -> 0 .. FailLimit]
    /\ pc \in [Requests -> {"idle", "select", "ask", "verify"}]
    /\ list \in [Requests -> Seq(Peers)]
    /\ got \in [Requests -> {"none", "good", "bad"}]

Init ==
    /\ chunkdb = "none"
    /\ holders \in SUBSET Peers /\ up \in SUBSET Peers
    /\ index = {} /\ peers = [p \in Peers |-> 0]
    /\ hits = {} /\ failures = [p \in Peers |-> 0] /\ recent = {}
    /\ pc = [r \in Requests |-> "idle"]
    /\ list = [r \in Requests |-> <<>>]
    /\ got = [r \in Requests |-> "none"]
----------------------------------------------------------------------------
(* Candidates                                                                *)

(* ranked_peers_with_scores of a list with B[p] entries of p: healthy peers  *)
(* first, the rest of the order depends on scores.  An entry next to one of  *)
(* the same address is dropped (dedup), one that a peer of the same score    *)
(* has come between stays.                                                   *)
Ranked(B) ==
    {s \in BoundedSeq({p \in Peers : B[p] > 0}, MaxCopies * Cardinality(Peers)) :
        /\ \A p \in Peers : B[p] > 0 => Cardinality({i \in DOMAIN s : s[i] = p}) \in 1 .. B[p]
        /\ \A i \in 1 .. Len(s) - 1 : s[i] # s[i + 1]
        /\ \A i, j \in DOMAIN s : i < j /\ Unhealthy(s[i]) => Unhealthy(s[j])}

OwnerEntries == [p \in Peers |-> IF p \in Owners THEN 1 ELSE 0]

Cut(s) == SubSeq(s, 1, Min({Len(s), MaxQueryPeers}))

(* Hinted peers in their ranking, then the others shuffled, whatever their   *)
(* health.                                                                   *)
HintedFirst(s) ==
    {[i \in DOMAIN s |-> s[f[i]]] : f \in
        {g \in Bijection(DOMAIN s, DOMAIN s) :
            \A i, j \in DOMAIN s :
                i < j /\ s[g[j]] \in hits => s[g[i]] \in hits /\ g[i] < g[j]}}

(* The list that is used without an owner.                                   *)
DiscoveredCandidates == UNION {{Cut(t) : t \in HintedFirst(s)} : s \in Ranked(peers)}

Goto(r, where) == pc' = [pc EXCEPT ![r] = where]

SelectOwners(r) ==
    /\ Owners # {}
    /\ \E s \in Ranked(OwnerEntries) : list' = [list EXCEPT ![r] = Cut(s)]

(* There is no owner but this node, or the lookup has failed.                *)
SelectDiscovered(r) == \E s \in DiscoveredCandidates : list' = [list EXCEPT ![r] = s]

(* candidate_peers.                                                          *)
Select(r) ==
    /\ pc[r] = "select"
    /\ Goto(r, "ask")
    /\ UNCHANGED <<chunkdb, world, records, got>>
    /\ SelectOwners(r) \/ SelectDiscovered(r)
----------------------------------------------------------------------------
(* PrefetchRequest::prefetch_from_peer and PeerClient::fetch_chunk           *)

(* A request arrives; has_chunk answers it when the chunk is here.           *)
Request(r) ==
    /\ pc[r] = "idle"
    /\ Goto(r, IF chunkdb = "none" THEN "select" ELSE "idle")
    /\ UNCHANGED <<chunkdb, world, records, list, got>>

Candidate(r) == Head(list[r])

Asks(r) == pc[r] = "ask" /\ list[r] # <<>>

(* The peer sends the chunk: record_success, record_hit.                     *)
AskHit(r) ==
    LET p == Candidate(r)
    IN /\ Asks(r)
       /\ p \in up \cap holders
       /\ got' = [got EXCEPT ![r] = IF p \in Corrupt THEN "bad" ELSE "good"]
       /\ failures' = [failures EXCEPT ![p] = 0]
       /\ recent' = recent \ {p}
       /\ hits' = hits \cup {p}
       /\ list' = [list EXCEPT ![r] = <<>>]
       /\ Goto(r, "verify")
       /\ UNCHANGED <<chunkdb, world>>

(* It does not have the chunk: record_miss leaves the failures as they are.  *)
AskMiss(r) ==
    /\ Asks(r)
    /\ Candidate(r) \in up \ holders
    /\ list' = [list EXCEPT ![r] = Tail(@)]
    /\ UNCHANGED <<chunkdb, world, records, pc, got>>

(* Mutant: a failure ends the search.                                        *)
AskFailsOnce(r) ==
    LET p == Candidate(r)
    IN /\ Asks(r)
       /\ p \notin up
       /\ failures' = [failures EXCEPT ![p] = Min({@ + 1, FailLimit})]
       /\ recent' = recent \cup {p}
       /\ list' = [list EXCEPT ![r] = <<>>]
       /\ UNCHANGED <<chunkdb, world, hits, pc, got>>

(* No connection, no answer in time, or an error: record_failure.            *)
AskFails(r) ==
    LET p == Candidate(r)
    IN /\ Asks(r)
       /\ p \notin up
       /\ failures' = [failures EXCEPT ![p] = Min({@ + 1, FailLimit})]
       /\ recent' = recent \cup {p}
       /\ list' = [list EXCEPT ![r] = Tail(@)]
       /\ UNCHANGED <<chunkdb, world, hits, pc, got>>

NobodyLeft(r) ==
    /\ pc[r] = "ask"
    /\ list[r] = <<>>
    /\ Goto(r, "idle")
    /\ UNCHANGED <<chunkdb, world, records, list, got>>

(* Mutant: what a peer sends is taken as it is.                              *)
IsVerifiedAlways(r) == TRUE

(* CheckSum::from_data of what the peer has sent.                            *)
IsVerified(r) == got[r] = "good"

(* What does not have the checksum is dropped, and nobody else is asked.     *)
Discard(r) ==
    /\ pc[r] = "verify"
    /\ ~IsVerified(r)
    /\ got' = [got EXCEPT ![r] = "none"]
    /\ Goto(r, "idle")
    /\ UNCHANGED <<chunkdb, world, records, list>>

AddChunk(r) ==
    /\ pc[r] = "verify"
    /\ IsVerified(r)
    /\ chunkdb' = IF chunkdb = "none" THEN got[r] ELSE chunkdb
    /\ got' = [got EXCEPT ![r] = "none"]
    /\ Goto(r, "idle")
    /\ UNCHANGED <<world, records, list>>

AddFails(r) ==
    /\ pc[r] = "verify"
    /\ IsVerified(r)
    /\ got' = [got EXCEPT ![r] = "none"]
    /\ Goto(r, "idle")
    /\ UNCHANGED <<chunkdb, world, records, list>>
----------------------------------------------------------------------------
(* Records and discovery                                                     *)

(* PeerHitHints::gc_expired drops a hint nothing has renewed.                *)
HintExpires(p) ==
    /\ p \in hits
    /\ hits' = hits \ {p}
    /\ UNCHANGED <<chunkdb, world, failures, recent, pc, list, got>>

(* Half a minute has passed since a peer's last failure.                     *)
FailureAges(p) ==
    /\ p \in recent
    /\ recent' = recent \ {p}
    /\ UNCHANGED <<chunkdb, world, hits, failures, pc, list, got>>

(* The peer has served another chunk.                                        *)
OtherHit(p) ==
    /\ p \in up
    /\ hits' = hits \cup {p}
    /\ failures' = [failures EXCEPT ![p] = 0]
    /\ recent' = recent \ {p}
    /\ UNCHANGED <<chunkdb, world, pc, list, got>>

(* RedisDiscoveryWorker::refresh_peers: the peers whose keys are in Redis,   *)
(* the ones that have announced themselves in the last minute, up or not.    *)
(* Keys are made of node ids: a node restarted under another one is listed   *)
(* twice.  When it fails the list stays as it is.                            *)
RefreshPeers(B) ==
    /\ peers' = B
    /\ UNCHANGED <<chunkdb, holders, up, index, records, pc, list, got>>

PeerChanges(p) ==
    /\ \/ up' = (up \cup {p}) \ (up \cap {p}) /\ UNCHANGED holders
       \/ holders' = (holders \cup {p}) \ (holders \cap {p}) /\ UNCHANGED up
    /\ UNCHANGED <<chunkdb, index, peers, records, pc, list, got>>

(* The chunk index: an owner registers; an entry lapses or is removed.       *)
(* MAX_CHUNK_OWNERS is DEFAULT_MAX_QUERY_PEERS.                              *)
IndexChanges(n) ==
    /\ \/ /\ n \in holders \/ (n = Self /\ chunkdb # "none")
          /\ index' = index \cup {n}
          /\ Cardinality(index') <= MaxQueryPeers
       \/ n \in index /\ index' = index \ {n}
    /\ UNCHANGED <<chunkdb, holders, up, peers, records, pc, list, got>>

(* The collector deletes the chunk here.                                     *)
Collect ==
    /\ chunkdb # "none"
    /\ chunkdb' = "none"
    /\ UNCHANGED <<world, records, pc, list, got>>

Serve(r) ==
    Request(r) \/ AskHit(r) \/ AskMiss(r) \/ AskFails(r) \/ NobodyLeft(r) \/ Discard(r)

Next ==
    \/ \E r \in Requests :
         Serve(r) \/ Select(r) \/ AddChunk(r) \/ AddFails(r)
    \/ \E p \in Peers : HintExpires(p) \/ FailureAges(p) \/ OtherHit(p) \/ PeerChanges(p)
    \/ \E B \in [Peers -> 0 .. MaxCopies] : RefreshPeers(B)
    \/ \E n \in Peers \cup {Self} : IndexChanges(n)
    \/ Collect

(* Requests keep coming and are served.  The lookup and the store do not     *)
(* fail for ever, and the shuffle leaves no peer out for ever.               *)
Fairness ==
    \A r \in Requests :
        /\ WF_vars(Serve(r)) /\ SF_vars(AddChunk(r))
        /\ \A p \in Peers : SF_vars(Select(r) /\ p \in ToSet(list'[r]))

Spec == Init /\ [][Next]_vars /\ Fairness
----------------------------------------------------------------------------
(* Properties                                                                *)

(* ChunkDB never gets what a corrupt peer sends, whichever peer a hint, the  *)
(* index or the shuffle has put first.                                       *)
OnlyVerifiedIsStored == chunkdb # "bad"

(* Where a peer p with a good copy is bound to be asked: it is an owner, or  *)
(* there is no other owner to hide it, it is discovered and the hinted peers *)
(* leave room, the repeated entries of each counted.  A corrupt copy hides   *)
(* every other, as its peer becomes a hinted one.                            *)
Findable(p) ==
    /\ p \in up \cap holders
    /\ holders \cap Corrupt = {}
    /\ \/ p \in index
       \/ /\ Owners = {} /\ peers[p] > 0
          /\ MapThenSumSet(LAMBDA q : peers[q], hits \ {p}) < MaxQueryPeers

(* As long as that is so, prefetching brings the chunk: failed owners, stale *)
(* entries and unhealthy or hinted peers do not keep it away for ever.       *)
FindableIsFetched == \A p \in Peers \ Corrupt : Findable(p) ~> (chunkdb # "none" \/ ~Findable(p))
----------------------------------------------------------------------------
(* The invariants of PeerClientProofs                                        *)

(* A request asks no more often than max_query_peers allows, whatever the    *)
(* index, the hints and the discovery list say.                              *)
WithinLimit == \A r \in Requests : Len(list[r]) <= MaxQueryPeers

(* What a peer has sent is held only until it is verified, and nobody else   *)
(* is asked in the meantime.                                                 *)
HoldsAnswer ==
    \A r \in Requests :
        /\ pc[r] = "verify" <=> got[r] # "none"
        /\ pc[r] # "ask" => list[r] = <<>>

IInv == TypeOK /\ WithinLimit /\ HoldsAnswer /\ OnlyVerifiedIsStored
=============================================================================
