----------------------------- MODULE ImageStore -----------------------------
(***************************************************************************)
(* What DedupReader of src/backend/dedup.rs promises the reader of an      *)
(* image that has a backend: nothing of ChunkDB, of its garbage            *)
(* collection, of peers, of the workers or of the punched cache shows.  A  *)
(* read is a range of chunks; their bytes, which are the image's unless    *)
(* the backend has cut the chunk short, are handed out in order, each      *)
(* chunk's once; the read succeeds with the last and may fail before it.   *)
(***************************************************************************)
EXTENDS Integers

CONSTANTS Readers,   \* threads that read the mounted file
          Chunks     \* chunk numbers of the image

VARIABLES todo,      \* reader -> the chunks its read has still to hand out
          result,    \* reader -> how its last read ended
          short      \* chunks that the backend has ever cut short

vars == <<todo, result, short>>

Init ==
    /\ todo = [t \in Readers |-> {}]
    /\ result = [t \in Readers |-> "none"]
    /\ short = {}

Begin(t) ==
    /\ todo[t] = {}
    /\ \E a, b \in Chunks : a <= b /\ todo' = [todo EXCEPT ![t] = a .. b]
    /\ result' = [result EXCEPT ![t] = "none"]
    /\ UNCHANGED short

\* The backend ends a fetch of chunk c before the chunk does.
BackendCuts(c) == short' = short \cup {c}

\* The image's bytes of the next chunk, or what a short fetch of it has left.
Serve(t) ==
    \E c \in todo[t], whole \in BOOLEAN :
        /\ \A d \in todo[t] : c <= d
        /\ todo' = [todo EXCEPT ![t] = @ \ {c}]
        /\ short' = short \/ BackendCuts(c)
        /\ whole \/ c \in short'
        /\ result' = [result EXCEPT ![t] =
               IF ~whole \/ @ = "short" THEN "short" ELSE IF todo[t] = {c} THEN "image" ELSE @]

Fail(t) ==
    /\ todo[t] # {}
    /\ todo' = [todo EXCEPT ![t] = {}]
    /\ result' = [result EXCEPT ![t] = "error"]
    /\ UNCHANGED short

\* The workers fetch as well.
Fetch(c) == BackendCuts(c) /\ UNCHANGED <<todo, result>>

\* The mount process ends and the image is mounted again.
Restart ==
    /\ todo' = [t \in Readers |-> {}]
    /\ result' = [t \in Readers |-> "none"]
    /\ UNCHANGED short

Next ==
    \/ \E t \in Readers : Begin(t) \/ Serve(t) \/ Fail(t)
    \/ \E c \in Chunks : Fetch(c)
    \/ Restart

Spec == Init /\ [][Next]_vars
=============================================================================
