------------------------------ MODULE MCCache ------------------------------
(* Instances of Cache for TLC. *)
EXTENDS Cache, TLC

ThreadSymmetry == Permutations(Readers) \cup Permutations(Droppers)
=============================================================================
