----------------------------- MODULE MCSession -----------------------------
(* Instances of Session for TLC.                                             *)
EXTENDS Session, TLC

TaskSymmetry == Permutations(Callers) \cup Permutations(Chunks)
=============================================================================
