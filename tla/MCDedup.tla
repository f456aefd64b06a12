------------------------------ MODULE MCDedup ------------------------------
(* Instances of Dedup for TLC: the image's chunks have different bytes.      *)
EXTENDS Dedup

Distinct == [c \in Chunks |-> IF c = 0 THEN "a" ELSE "b"]

\* The backend may send nothing of the last chunk.
CutLast == {<<NChunks - 1, Zero>>}
=============================================================================
