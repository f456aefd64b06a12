----------------------------- MODULE MCChunkDB -----------------------------
(* Instances of ChunkDB for TLC. *)
EXTENDS ChunkDB, TLC

ChunkSymmetry == Permutations(Chunks)
=============================================================================
