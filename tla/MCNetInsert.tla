---------------------------- MODULE MCNetInsert ----------------------------
(* The instance of NetInsert for TLC: its constants are in the cfg. *)
EXTENDS NetInsert
=============================================================================
