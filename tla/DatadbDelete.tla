---------------------------- MODULE DatadbDelete ----------------------------
(***************************************************************************)
(* Deleting rows from a partition: partition.deleteRows() and              *)
(* datadb.deleteRows(), beside everything Datadb models but snapshots.     *)
(*                                                                         *)
(* A delete takes references to all the parts, looks into them one by one  *)
(* without a lock, claims those with matching rows unless they are in      *)
(* merge, and merges the claimed parts without the matching rows, as any   *)
(* other merge.  A part may be merged away by a background merger between  *)
(* the first and the second step: the swap then panics with "BUG:          *)
(* unexpected number of parts removed", after parts.json was written.      *)
(***************************************************************************)
EXTENDS Datadb

CONSTANT Deleter  \* goroutines that run deleteRows(): some of those which merge and read parts

ASSUME DeleterAssumption == Deleter \subseteq Worker \cap Query

VARIABLE del  \* del[d]: what the delete knows, see DeleteType

dvars == <<vars, del>>

DeleteType ==
  [pc     : {"idle", "flushing", "checking", "merging", "returning"},
   filter : SUBSET Row,   \* the rows matching pso, stored or not
   goal   : SUBSET Row,   \* matching rows accepted when the delete starts (history)
   todo   : SUBSET Part,  \* referenced parts hasMatchingRows() wasn't called for yet
   claimed : SUBSET Part, \* pwsToMerge, until the merge starts
   repeat : BOOLEAN,      \* needRepeat: a part with matching rows was in merge
   stop   : BOOLEAN,      \* the stopCh argument is closed
   ok     : BOOLEAN]      \* what deleteRows() returns

NoDelete ==
  [pc |-> "idle", filter |-> {}, goal |-> {}, todo |-> {}, claimed |-> {},
   repeat |-> FALSE, stop |-> FALSE, ok |-> FALSE]

DeleteTypeOK == TypeOK /\ del \in [Deleter -> DeleteType]

DeleteInit == Init /\ del = [d \in Deleter |-> NoDelete]

-----------------------------------------------------------------------------
\* partition.deleteRows(): debugFlush() starts to make the accepted rows visible.
DeleteStart(d) ==
  /\ phase = "open"
  /\ del[d].pc = "idle"
  /\ \E F \in SUBSET Row \ {{}} :
       del' = [del EXCEPT ![d].pc = "flushing", ![d].filter = F,
                          ![d].goal = F \cap (RowsOf(listed) \cup UNION {buf[s] : s \in Shard})]
  /\ UNCHANGED vars

\* (mutant) getPartsForTimeRange() returns parts without references
DeleteGetPartsUnreferenced(d) ==
  /\ del[d].pc = "flushing"
  /\ \A s \in Shard : buf[s] \cap del[d].goal = {}
  /\ del' = [del EXCEPT ![d].pc = "checking", ![d].todo = listed]
  /\ UNCHANGED vars

\* Every shard was flushed; getPartsForTimeRange() takes references to the parts.
DeleteGetParts(d) ==
  /\ del[d].pc = "flushing"
  /\ \A s \in Shard : buf[s] \cap del[d].goal = {}
  /\ IncRef(listed)
  /\ held' = [held EXCEPT ![d] = listed]
  /\ del' = [del EXCEPT ![d].pc = "checking", ![d].todo = listed]
  /\ UNCHANGED <<added, buf, phase, listed, ptype, rows, mustDrop, due, isInMerge, disk,
                 merges, callers, linked, snapRows, snapMust>>

\* hasMatchingRows() finds nothing: there are no matching rows, or stopCh is closed.
DeleteSkip(d, p) ==
  /\ del[d].pc = "checking" /\ p \in del[d].todo
  /\ rows[p] \cap del[d].filter = {} \/ del[d].stop
  /\ del' = [del EXCEPT ![d].todo = @ \ {p}]
  /\ UNCHANGED vars

\* hasMatchingRows() found a row, and partsLock was taken: the part is claimed.
DeleteClaim(d, p) ==
  /\ del[d].pc = "checking" /\ p \in del[d].todo
  /\ rows[p] \cap del[d].filter # {}
  /\ p \notin isInMerge
  /\ isInMerge' = isInMerge \cup {p}
  /\ del' = [del EXCEPT ![d].todo = @ \ {p}, ![d].claimed = @ \cup {p}]
  /\ UNCHANGED <<added, buf, phase, parts, disk, merges, callers, readers>>

\* (mutant) needRepeat isn't set
DeleteOverlook(d, p) ==
  /\ del[d].pc = "checking" /\ p \in del[d].todo
  /\ rows[p] \cap del[d].filter # {}
  /\ p \in isInMerge
  /\ del' = [del EXCEPT ![d].todo = @ \ {p}]
  /\ UNCHANGED vars

\* The same, but the part is in merge at that moment.
DeletePostpone(d, p) ==
  /\ del[d].pc = "checking" /\ p \in del[d].todo
  /\ rows[p] \cap del[d].filter # {}
  /\ p \in isInMerge
  /\ del' = [del EXCEPT ![d].todo = @ \ {p}, ![d].repeat = TRUE]
  /\ UNCHANGED vars

\* mustMergePartsInternal() is called with the claimed parts; without any it
\* returns true at once.
DeleteMerge(d) ==
  /\ del[d].pc = "checking" /\ del[d].todo = {}
  /\ \/ /\ del[d].claimed = {}
        /\ del' = [del EXCEPT ![d].pc = "returning", ![d].ok = ~del[d].repeat]
        /\ UNCHANGED <<src, wpc>>
     \/ /\ del[d].claimed # {}
        /\ del' = [del EXCEPT ![d].pc = "merging", ![d].claimed = {}]
        /\ src' = [src EXCEPT ![d] = del[d].claimed]
        /\ wpc' = [wpc EXCEPT ![d] = "claimed"]
  /\ UNCHANGED <<added, buf, phase, parts, isInMerge, disk, owner, dst, todrop,
                 callers, readers>>

\* (mutant) the filter is inverted
DeleteWriteMatching(d) ==
  /\ MergeWriteRows(d, RowsOf(src[d]) \cap del[d].filter, del[d].stop)
  /\ UNCHANGED del

\* The merge drops the rows matching the filter.
DeleteWrite(d) ==
  /\ MergeWriteRows(d, RowsOf(src[d]) \ del[d].filter, del[d].stop)
  /\ UNCHANGED del

DeleteInterrupt(d) == MergeStop(d, del[d].stop) /\ UNCHANGED del

\* All the parts to be replaced are still in the lists.
DeleteSwap(d) ==
  /\ src[d] \subseteq listed
  /\ MergeSwap(d)
  /\ del' = [del EXCEPT ![d].ok = ~del[d].repeat]

\* Some of them were merged away meanwhile: the new part is added to the lists and
\* parts.json is written before the numbers are compared and the process panics.
DeletePanic(d) ==
  /\ wpc[d] = "written"
  /\ ~(src[d] \subseteq listed)
  /\ partsJSON' = PartsJSONAfter(src[d] \cap listed, (listed \ src[d]) \cup NewPart(d))
  /\ phase' = "crashed"
  /\ LoseMemory
  /\ del' = [e \in Deleter |-> NoDelete]
  /\ UNCHANGED <<added, dir>>

DeleteReturn(d) ==
  /\ del[d].pc = "merging" /\ wpc[d] = "idle"
  /\ del' = [del EXCEPT ![d].pc = "returning"]
  /\ UNCHANGED vars

\* The deferred pwsDecRef(), one part at a time.
DeleteDecRef(d) ==
  /\ del[d].pc = "returning"
  /\ ReleaseOne(d)
  /\ UNCHANGED del

DeleteEnd(d) ==
  /\ del[d].pc = "returning" /\ held[d] = {}
  /\ del' = [del EXCEPT ![d] = NoDelete]
  /\ UNCHANGED vars

\* The task is canceled or the storage stops.
DeleteStop(d) ==
  /\ del[d].pc \in {"flushing", "checking", "merging"}
  /\ ~del[d].stop
  /\ del' = [del EXCEPT ![d].stop = TRUE]
  /\ UNCHANGED vars

DeleteStep(d) ==
  \/ DeleteStart(d) \/ DeleteGetParts(d)
  \/ \E p \in Part : DeleteSkip(d, p) \/ DeleteClaim(d, p) \/ DeletePostpone(d, p)
  \/ DeleteMerge(d) \/ DeleteWrite(d) \/ DeleteInterrupt(d) \/ DeleteSwap(d)
  \/ DeletePanic(d) \/ DeleteReturn(d) \/ DeleteDecRef(d) \/ DeleteEnd(d)
  \/ DeleteStop(d)
  \/ UNCHANGED del /\ (MergeStart(d) \/ MergeNoSpace(d) \/ MergeDrop(d) \/ MergeRelease(d))

\* What others do meanwhile. A partition is closed only when no delete uses it.
OtherStep ==
  \/ \E s \in Shard : FlushRows(s) \/ \E R \in SUBSET Row : AddRows(s, R)
  \/ \E p \in Part : DeadlinePasses(p)
  \/ \E w \in Worker \ Deleter :
       MergerStart(w) \/ MergerPick(w) \/ MergerGiveUp(w) \/ MergeStep(w)
  \/ \E c \in Caller, w \in Worker \ Deleter : SpawnMerge(c, w)
  \/ FlusherTick \/ FlusherDone
  \/ \E f \in Forcer : ForceStart(f) \/ ForceCollect(f) \/ ForceDone(f)
  \/ \E q \in Query \ Deleter : QueryStart(q) \/ QueryRelease(q)
  \/ CloseBegin /\ \A d \in Deleter : del[d] = NoDelete
  \/ CloseStop \/ CloseFinalFlush \/ CloseEnd
  \/ Open

DeleteNext ==
  \/ \E d \in Deleter : DeleteStep(d)
  \/ OtherStep /\ UNCHANGED del
  \/ Crash /\ del' = [d \in Deleter |-> NoDelete]

DeleteSpec == DeleteInit /\ [][DeleteNext]_dvars

-----------------------------------------------------------------------------
\* deleteRows() which returned true without being stopped has deleted every
\* matching row accepted before it was called, although rows move between parts
\* while it looks for them: no merge carries a row past it.
DeleteIsComplete ==
  \A d \in Deleter :
    del[d].pc = "returning" /\ del[d].ok /\ ~del[d].stop => del[d].goal \cap RowsOf(listed) = {}

\* The same whether or not it was stopped: processDeleteTask() takes true for "done"
\* and is to postpone the task of a stopped storage ("the storage is stopped while
\* executing the delete task ...; postponing the task for later execution").
DeleteResultIsTrue ==
  \A d \in Deleter :
    del[d].pc = "returning" /\ del[d].ok => del[d].goal \cap RowsOf(listed) = {}

\* A row on disk leaves the disk only if a running delete matches it, even when
\* deletes of different parts, merges, crashes and the panic below interleave.
OnlyMatchingRowsAreDeleted ==
  [][ DurableRows \ DurableRows' \subseteq UNION {del[d].filter : d \in Deleter} ]_dvars

\* The parts a delete reads, or is going to read.
DeleteReads(d) ==
  del[d].todo \cup del[d].claimed \cup (IF wpc[d] \in {"claimed", "writing"} THEN src[d] ELSE {})

\* The parts a delete reads are open and have their files, although other merges
\* replace and drop them meanwhile.
ReadPartsStayOpen == \A d \in Deleter : \A p \in DeleteReads(d) : Usable(p)

\* Position and local variables of a delete, and of its merge, agree.
DeleteShape ==
  \A d \in Deleter :
    /\ wpc[d] # "picking" /\ owner[d] = "merger"
    /\ wpc[d] # "idle" => del[d].pc = "merging"
    /\ del[d].pc # "idle" => phase = "open"
    /\ del[d].pc \in {"idle", "flushing"} => held[d] = {}
    /\ del[d].pc # "checking" => del[d].todo = {} /\ del[d].claimed = {}
    /\ del[d].ok => del[d].pc \in {"merging", "returning"}

\* Until its swap a delete references every part it looks into and every part it merges.
DeleteHolds ==
  \A d \in Deleter :
    /\ del[d].todo \cup del[d].claimed \subseteq held[d]
    /\ d \in Unswapped => src[d] \subseteq held[d]

\* isInMerge is a lock for deletes, too: nobody else owns the parts a delete has
\* claimed one by one.
DeleteClaims ==
  /\ \A d \in Deleter :
       /\ del[d].claimed \subseteq isInMerge
       /\ \A e \in Deleter \ {d} : del[d].claimed \cap del[e].claimed = {}
       /\ \A w \in Worker : del[d].claimed \cap src[w] = {}
       /\ \A c \in Caller : del[d].claimed \cap claim[c] = {}
  /\ \A p \in isInMerge : \/ \E d \in Deleter : p \in del[d].claimed
                          \/ \E w \in Worker : p \in src[w]
                          \/ \E c \in Caller : p \in claim[c]

\* The part a merge has written holds the rows of the sources, without those the
\* delete matches.
DeleteCarries ==
  \A w \in Worker : wpc[w] = "written" =>
    RowsOf(NewPart(w)) = RowsOf(src[w]) \ (IF w \in Deleter THEN del[w].filter ELSE {})

\* Every row was accepted; the goal of a delete was accepted before it started and is
\* in no shard after its flush.
DeleteGoals ==
  /\ \A s \in Shard : buf[s] \subseteq added
  /\ \A p \in Part : rows[p] \subseteq added
  /\ \A d \in Deleter :
       /\ del[d].goal \subseteq del[d].filter \cap added
       /\ del[d].pc # "flushing" => \A s \in Shard : buf[s] \cap del[d].goal = {}

\* The parts a delete still has to look into or to merge.
Unfinished(d) == del[d].todo \cup del[d].claimed \cup src[d]

\* A listed part with a row to be deleted is before the delete, or the row came from
\* such a part, which was merged away: the swap is going to panic then. Once the
\* delete is done, there are no such parts.
DeleteCovers ==
  \A d \in Deleter : ~del[d].stop =>
    /\ del[d].pc = "checking" \/ d \in Unswapped =>
         \A q \in listed : \A r \in del[d].goal \cap rows[q] :
           \/ del[d].repeat \/ q \in Unfinished(d)
           \/ \E p \in Unfinished(d) \ listed : r \in rows[p]
    /\ del[d].ok => del[d].goal \cap RowsOf(listed) = {}

\* Types; the parts a delete reads stay open; what a delete claims, merges and drops
\* agrees with the lists while other merges and deletes change them.
DeleteInv ==
  /\ DeleteTypeOK /\ ReadPartsStayOpen /\ DeleteShape /\ DeleteHolds /\ DeleteClaims
  /\ DeleteCarries /\ DeleteGoals /\ DeleteCovers

\* "BUG: unexpected number of parts removed; got %d, want %d"
\* (swapSrcWithDstParts): every part a merge is about to replace is in the lists.
SwapFindsItsSources ==
  \A w \in Worker : wpc[w] = "written" => src[w] \subseteq listed
=============================================================================
