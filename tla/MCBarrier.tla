----------------------------- MODULE MCBarrier -----------------------------
(* Small instances of SenseReversingBarrier for TLC. *)
EXTENDS SenseReversingBarrier, TLC

\* The processes run the same code and are interchangeable.
Symmetry == Permutations(Procs)
=============================================================================
