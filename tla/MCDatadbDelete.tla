--------------------------- MODULE MCDatadbDelete ---------------------------
(* Small instances of DatadbDelete for TLC. *)
EXTENDS DatadbDelete, TLC

Symmetry == Permutations(Row) \cup Permutations(Part)
=============================================================================
