---------------------------- MODULE MCPartitions ----------------------------
(* Small instances of Partitions for TLC. *)
EXTENDS Partitions, TLC

Symmetry == Permutations(Ptw) \cup Permutations(Admin)
=============================================================================
