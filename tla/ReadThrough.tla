---------------------------- MODULE ReadThrough ----------------------------
(***************************************************************************)
(* What the block cache of src/backend/cache.rs promises its callers, with *)
(* no threads waiting for each other, no in-flight table and no files:     *)
(*                                                                         *)
(*   - a chunk becomes present only because a read that covers it is under *)
(*     way, and disappears only while no read is under way;                *)
(*   - the fetch that makes it present may leave it short of the image's   *)
(*     bytes; a chunk that is present can only get complete;               *)
(*   - a read succeeds only at an instant at which every chunk it covers   *)
(*     is present, and then returns the image's bytes, but for the chunks  *)
(*     that are short;                                                     *)
(*   - it may instead fail, and a crash abandons every read and keeps what *)
(*     is present.                                                         *)
(***************************************************************************)
EXTENDS Integers

CONSTANTS Readers,   \* threads that read through the cache
          Chunks     \* chunk indices of the image

VARIABLES present,   \* the chunks whose bytes can be served locally
          short,     \* those among them whose bytes are not complete
          active,    \* reader -> the set of chunks its read covers, {} if none
          result     \* reader -> how its last read ended

vars == <<present, short, active, result>>

Init ==
    /\ present = {}
    /\ short = {}
    /\ active = [t \in Readers |-> {}]
    /\ result = [t \in Readers |-> "none"]

Begin(t) ==
    /\ active[t] = {}
    /\ \E S \in SUBSET Chunks : S # {} /\ active' = [active EXCEPT ![t] = S]
    /\ UNCHANGED <<present, short, result>>

\* A request the cache refuses, or a new request, only touches the result.
Reset(t) ==
    /\ active[t] = {}
    /\ \E r \in {"none", "error"} : result' = [result EXCEPT ![t] = r]
    /\ UNCHANGED <<present, short, active>>

Fill(t) ==
    /\ \E c \in active[t] :
         /\ present' = present \cup {c}
         /\ \/ short' = short \ {c}
            \/ c \notin present /\ short' = short \cup {c}
    /\ UNCHANGED <<active, result>>

Succeed(t) ==
    /\ active[t] # {}
    /\ active[t] \subseteq present
    /\ active' = [active EXCEPT ![t] = {}]
    /\ result' = [result EXCEPT ![t] = IF active[t] \cap short = {} THEN "image" ELSE "short"]
    /\ UNCHANGED <<present, short>>

Fail(t) ==
    /\ active[t] # {}
    /\ active' = [active EXCEPT ![t] = {}]
    /\ result' = [result EXCEPT ![t] = "error"]
    /\ UNCHANGED <<present, short>>

Evict(c) ==
    /\ \A t \in Readers : active[t] = {}
    /\ present' = present \ {c}
    /\ short' = short \ {c}
    /\ UNCHANGED <<active, result>>

Crash ==
    /\ active' = [t \in Readers |-> {}]
    /\ result' = [t \in Readers |-> "none"]
    /\ UNCHANGED <<present, short>>

Next ==
    \/ \E t \in Readers : Begin(t) \/ Reset(t) \/ Fill(t) \/ Succeed(t) \/ Fail(t)
    \/ \E c \in Chunks : Evict(c)
    \/ Crash

Spec == Init /\ [][Next]_vars
=============================================================================
