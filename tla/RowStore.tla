------------------------------ MODULE RowStore ------------------------------
(***************************************************************************)
(* What one per-day partition promises about the rows given to it, with no *)
(* parts, merges, files or locks: a row is pending (accepted, invisible),  *)
(* then volatile (searchable, kept in memory), then durable.  A row never  *)
(* goes back, an orderly close leaves nothing volatile behind, and a crash *)
(* takes only what is not durable.  datadb.go is the implementation: the   *)
(* module Datadb states and checks the refinement mapping.                 *)
(***************************************************************************)

CONSTANT Row

VARIABLES
  accepted,   \* rows accepted so far, the rows lost in a crash included
  pending,    \* rows which were accepted, but aren't visible to search yet
  volatile,   \* searchable rows kept only in memory
  durable,    \* rows found again after a crash
  mode        \* "open", "closed" or "crashed"

storeVars == <<accepted, pending, volatile, durable, mode>>

StoreInit ==
  /\ accepted = {} /\ pending = {} /\ volatile = {} /\ durable = {}
  /\ mode = "open"

Accept(R) ==
  /\ mode = "open"
  /\ R \cap accepted = {}
  /\ accepted' = accepted \cup R
  /\ pending' = pending \cup R
  /\ UNCHANGED <<volatile, durable, mode>>

\* Rows which are accepted and become visible at once: the buffer was full.
AcceptVisible(R, V) ==
  /\ mode = "open"
  /\ R \cap accepted = {}
  /\ V \subseteq pending \cup R /\ R \subseteq V
  /\ accepted' = accepted \cup R
  /\ pending' = pending \ V
  /\ volatile' = volatile \cup V
  /\ UNCHANGED <<durable, mode>>

Reveal(R) ==
  /\ mode = "open"
  /\ R \subseteq pending
  /\ pending' = pending \ R
  /\ volatile' = volatile \cup R
  /\ UNCHANGED <<accepted, durable, mode>>

Persist(R) ==
  /\ mode = "open"
  /\ R \subseteq volatile
  /\ volatile' = volatile \ R
  /\ durable' = durable \cup R
  /\ UNCHANGED <<accepted, pending, mode>>

Close ==
  /\ mode = "open"
  /\ pending = {} /\ volatile = {}
  /\ mode' = "closed"
  /\ UNCHANGED <<accepted, pending, volatile, durable>>

Crash ==
  /\ mode = "open"
  /\ mode' = "crashed"
  /\ pending' = {} /\ volatile' = {}
  /\ UNCHANGED <<accepted, durable>>

Reopen ==
  /\ mode # "open"
  /\ mode' = "open"
  /\ UNCHANGED <<accepted, pending, volatile, durable>>

StoreNext ==
  \/ \E R \in SUBSET Row : Accept(R) \/ Reveal(R) \/ Persist(R)
  \/ \E R, V \in SUBSET Row : AcceptVisible(R, V)
  \/ Close
  \/ Crash
  \/ Reopen

StoreSpec == StoreInit /\ [][StoreNext]_storeVars
=============================================================================
