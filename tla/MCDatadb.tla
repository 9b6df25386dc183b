------------------------------ MODULE MCDatadb ------------------------------
(* Small instances of Datadb for TLC. *)
EXTENDS Datadb, TLC

Symmetry == Permutations(Row) \cup Permutations(Part) \cup Permutations(Worker)
=============================================================================
