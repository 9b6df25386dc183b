---------------------------- MODULE MCDeleteTasks ----------------------------
(* Small instances of DeleteTasks for TLC. *)
EXTENDS DeleteTasks, TLC

Symmetry == Permutations(Task) \cup Permutations(Stopper)
=============================================================================
