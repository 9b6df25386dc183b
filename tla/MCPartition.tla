---------------------------- MODULE MCPartition ----------------------------
(* Small instances of Partition for TLC. *)
EXTENDS Partition, TLC

Symmetry == Permutations(Stream) \cup Permutations(Writer)
=============================================================================
