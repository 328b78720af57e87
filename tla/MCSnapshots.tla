---------------------------- MODULE MCSnapshots ----------------------------
(* Model values for Snapshots.                                             *)
EXTENDS Snapshots, TLC

CONSTANTS f1, f2, s1, s2

Symmetry == Permutations(Fact) \cup Permutations(Session)
=============================================================================
