------------------------------- MODULE Datadb -------------------------------
(***************************************************************************)
(* The life of the parts of one per-day partition: lib/logstorage/         *)
(* datadb.go without deleteRows() (see DatadbDelete).                      *)
(*                                                                         *)
(* Rows gather in the shards of rowsBuffer, become in-memory parts, and    *)
(* are merged by background mergers, by the flusher, by snapshots, by      *)
(* forced merges and by the final flush of mustCloseDatadb().  A merge is  *)
(* a goroutine in several steps: it claims source parts under partsLock,   *)
(* writes the new part without the lock, swaps the lists and parts.json    *)
(* under the lock, drops the references to the sources and releases the    *)
(* claim.  Searches and snapshots hold references to parts meanwhile, and  *)
(* the process may crash between any two steps.                            *)
(*                                                                         *)
(* Part sizes, free disk space and time are abstracted to the choices they *)
(* lead to: which parts are merged together, whether the new part is       *)
(* in-memory, small or big, whether disk space could be reserved, whether  *)
(* a flush deadline has passed.                                            *)
(***************************************************************************)

EXTENDS Integers, FiniteSets

CONSTANTS
  Row,          \* log rows; a row is accepted at most once
  Shard,        \* the shards of rowsBuffer
  Part,         \* identities of partWrapper objects and names of part directories
  NoPart,       \* "no destination part yet"
  Worker,       \* goroutines that run mustMergePartsInternal()
  Query,        \* searches
  Snapshotter,  \* callers of mustCreateSnapshotAt()
  Forcer        \* callers of mustForceMergeAllParts()

\* Those who claim parts and have other goroutines merge them. "flusher" is
\* inmemoryPartsFlusher(), "closer" the goroutine inside mustCloseDatadb().
Caller == {"flusher", "closer"} \cup Snapshotter \cup Forcer

ASSUME PartAssumption == NoPart \notin Part

ASSUME CallerAssumption ==
  /\ {"merger", "flusher", "closer"} \cap (Snapshotter \cup Forcer) = {}
  /\ Snapshotter \cap Forcer = {}
  /\ Query \cap Snapshotter = {}

ASSUME ReaderAssumption == IsFiniteSet(Query) /\ IsFiniteSet(Snapshotter)

VARIABLES
  added,      \* rows passed to mustAddRows() so far (history)
  buf,        \* buf[s]: the rows of shard.lr
  phase,      \* where the datadb is between mustOpenDatadb() and mustCloseDatadb()
  \* parts in memory
  listed,     \* the parts in inmemoryParts, smallParts and bigParts
  ptype,      \* type of an open part: which list it belongs to, "none" if closed
  rows,       \* rows[p]: contents of the part
  refs,       \* partWrapper.refCount
  mustDrop,   \* parts with partWrapper.mustDrop set
  isInMerge,  \* parts with partWrapper.isInMerge set
  due,        \* in-memory parts whose flushDeadline has passed
  \* disk
  dir,        \* dir[p]: the part directory: "none", "partial" or "complete"
  partsJSON,  \* the names in parts.json
  \* merges in progress
  wpc,        \* position of a worker inside the merge
  owner,      \* on whose behalf it merges
  src,        \* its pws argument
  dst,        \* the part it creates
  todrop,     \* source parts it still has to drop after the swap
  \* callers and readers
  cpc,        \* position of a caller
  claim,      \* parts a caller has claimed, but not handed to a merge yet
  held,       \* parts a search or a snapshot holds references to
  linked,     \* parts a snapshot has hard-linked so far
  snapRows,   \* the rows in those links
  snapMust    \* rows it has to hold, known when it starts (history)

disk    == <<dir, partsJSON>>
parts   == <<listed, ptype, rows, refs, mustDrop, due>>
merges  == <<wpc, owner, src, dst, todrop>>
callers == <<cpc, claim>>
readers == <<held, linked, snapRows, snapMust>>

vars == <<added, buf, phase, parts, isInMerge, disk, merges, callers, readers>>

PartType == {"inmemory", "small", "big"}
FileType == {"small", "big"}
Reader   == Query \cup Snapshotter
Owner    == {"merger"} \cup Caller

WorkerPC == {"idle", "picking", "claimed", "writing", "written", "dropping", "releasing"}
CallerPC == {"idle", "flushing", "merging", "linking", "releasing"}
Phase    == {"open", "draining", "stopping", "final", "closed", "crashed"}

TypeOK ==
  /\ added \subseteq Row
  /\ buf \in [Shard -> SUBSET Row]
  /\ phase \in Phase
  /\ listed \subseteq Part
  /\ ptype \in [Part -> PartType \cup {"none"}]
  /\ rows \in [Part -> SUBSET Row]
  /\ refs \in [Part -> Int]
  /\ mustDrop \subseteq Part
  /\ isInMerge \subseteq Part
  /\ due \subseteq Part
  /\ dir \in [Part -> {"none", "partial", "complete"}]
  /\ partsJSON \subseteq Part
  /\ wpc \in [Worker -> WorkerPC]
  /\ owner \in [Worker -> Owner]
  /\ src \in [Worker -> SUBSET Part]
  /\ dst \in [Worker -> Part \cup {NoPart}]
  /\ todrop \in [Worker -> SUBSET Part]
  /\ cpc \in [Caller -> CallerPC]
  /\ claim \in [Caller -> SUBSET Part]
  /\ held \in [Reader -> SUBSET Part]
  /\ linked \in [Snapshotter -> SUBSET Part]
  /\ snapRows \in [Snapshotter -> SUBSET Row]
  /\ snapMust \in [Snapshotter -> SUBSET Row]

-----------------------------------------------------------------------------
(* Helpers *)

RowsOf(S) == UNION {rows[p] : p \in S}
OfType(T) == {p \in listed : ptype[p] \in T}
InmemoryParts == OfType({"inmemory"})
FileParts == OfType(FileType)

AtLeastTwo(S) == \E p, q \in S : p # q

\* nextMergeIdx() never repeats a directory name and a partWrapper is a new
\* object: a new part is any identity nothing refers to.
Fresh == {p \in Part : ptype[p] = "none" /\ dir[p] = "none" /\ p \notin isInMerge}

\* needStop(ddb.stopCh)
Stopped == phase \in {"stopping", "final"}

\* The isFinal argument of mustMergePartsInternal(): set for flushes, not set
\* for background merges and for the second half of a forced merge.
IsFinal(w) == owner[w] \in Caller /\ cpc[owner[w]] = "flushing"

\* (mutant) a type the switch of mustMergePartsInternal() doesn't know
DstTypesUnknown(w) == IF IsFinal(w) THEN FileType ELSE PartType \cup {"unknown"}

\* getDstPartType(): sizes may ask for a bigger type, never for a smaller one.
DstTypes(w) ==
  IF IsFinal(w) \/ ~(\A p \in src[w] : ptype[p] = "inmemory")
  THEN FileType
  ELSE PartType

\* pwNew: the part a merge has created, if it holds any rows.
NewPart(w) == {dst[w]} \ {NoPart}

\* (mutant) the new part gets a deadline of its own
DueAfterMergeAnew(w) == due \ src[w]

\* getFlushToDiskDeadline(): the new in-memory part takes the earliest
\* deadline of its sources, so it is due when one of them is.
DueAfterMerge(w) ==
  (due \ src[w]) \cup
    {p \in NewPart(w) : ptype[p] = "inmemory" /\ src[w] \cap due # {}}

\* (mutant) parts.json is written only when a file part left the lists
PartsJSONOnRemoval(removed, list) ==
  IF \E p \in removed : ptype[p] # "inmemory"
  THEN {p \in list : ptype[p] # "inmemory"}
  ELSE partsJSON

\* The contents of parts.json after the lists became `list`. The file is written
\* only if a file part left or entered the lists.
PartsJSONAfter(removed, list) ==
  LET files(S) == {p \in S : ptype[p] # "inmemory"}
  IN IF files(removed) # {} \/ files(list) # files(listed)
     THEN files(list)
     ELSE partsJSON

\* (mutant) the directories of dropped parts stay
DecRefKeepingDirs(P, drop) ==
  LET closed == {p \in P : refs[p] = 1}
  IN /\ refs' = [p \in Part |-> IF p \in P THEN refs[p] - 1 ELSE refs[p]]
     /\ ptype' = [p \in Part |-> IF p \in closed THEN "none" ELSE ptype[p]]
     /\ rows' = [p \in Part |-> IF p \in closed /\ dir[p] = "none" THEN {} ELSE rows[p]]
     /\ mustDrop' = drop \ closed
     /\ UNCHANGED dir

\* (mutant) every file part loses its directory with its last reference
DecRefRemovingDirs(P, drop) ==
  LET closed == {p \in P : refs[p] = 1}
  IN /\ refs' = [p \in Part |-> IF p \in P THEN refs[p] - 1 ELSE refs[p]]
     /\ ptype' = [p \in Part |-> IF p \in closed THEN "none" ELSE ptype[p]]
     /\ rows' = [p \in Part |-> IF p \in closed THEN {} ELSE rows[p]]
     /\ dir' = [p \in Part |-> IF p \in closed THEN "none" ELSE dir[p]]
     /\ mustDrop' = drop \ closed

\* decRef() on the parts of P, one reference each; `drop` are the parts with
\* mustDrop set.  A part without references is closed, and a file part which must
\* be dropped loses its directory.
DecRef(P, drop) ==
  LET closed == {p \in P : refs[p] = 1}
      removed == {p \in closed \cap drop : ptype[p] # "inmemory"}
  IN /\ refs' = [p \in Part |-> IF p \in P THEN refs[p] - 1 ELSE refs[p]]
     /\ ptype' = [p \in Part |-> IF p \in closed THEN "none" ELSE ptype[p]]
     /\ dir' = [p \in Part |-> IF p \in removed THEN "none" ELSE dir[p]]
     /\ rows' = [p \in Part |->
                   IF p \in closed /\ dir'[p] = "none" THEN {} ELSE rows[p]]
     /\ mustDrop' = drop \ closed

Init ==
  /\ added = {}
  /\ buf = [s \in Shard |-> {}]
  /\ phase = "open"
  /\ listed = {} /\ mustDrop = {} /\ due = {} /\ isInMerge = {}
  /\ ptype = [p \in Part |-> "none"]
  /\ rows = [p \in Part |-> {}]
  /\ refs = [p \in Part |-> 0]
  /\ dir = [p \in Part |-> "none"]
  /\ partsJSON = {}
  /\ wpc = [w \in Worker |-> "idle"]
  /\ owner = [w \in Worker |-> "merger"]
  /\ src = [w \in Worker |-> {}]
  /\ dst = [w \in Worker |-> NoPart]
  /\ todrop = [w \in Worker |-> {}]
  /\ cpc = [c \in Caller |-> "idle"]
  /\ claim = [c \in Caller |-> {}]
  /\ held = [r \in Reader |-> {}]
  /\ linked = [s \in Snapshotter |-> {}]
  /\ snapRows = [s \in Snapshotter |-> {}]
  /\ snapMust = [s \in Snapshotter |-> {}]

-----------------------------------------------------------------------------
(* Adding rows *)

\* mustFlushLogRows(): rows R become a new in-memory part.
NewInmemoryPart(p, R) ==
  /\ p \in Fresh
  /\ listed' = listed \cup {p}
  /\ ptype' = [ptype EXCEPT ![p] = "inmemory"]
  /\ rows' = [rows EXCEPT ![p] = R]
  /\ refs' = [refs EXCEPT ![p] = 1]
  /\ UNCHANGED <<mustDrop, due>>

\* rowsBuffer.mustAddRows(): the rows stay in the shard, or the shard is full and
\* is flushed before its lock is released.
AddRows(s, R) ==
  /\ phase = "open"
  /\ R # {} /\ R \cap added = {}
  /\ added' = added \cup R
  /\ \/ /\ buf' = [buf EXCEPT ![s] = @ \cup R]
        /\ UNCHANGED parts
     \/ /\ buf' = [buf EXCEPT ![s] = {}]
        /\ \E p \in Fresh : NewInmemoryPart(p, buf[s] \cup R)
  /\ UNCHANGED <<phase, isInMerge, disk, merges, callers, readers>>

\* flushLocked(): called by the timer of the shard and by rowsBuffer.flush().
FlushRows(s) ==
  /\ phase \in {"open", "draining"}
  /\ buf[s] # {}
  /\ buf' = [buf EXCEPT ![s] = {}]
  /\ \E p \in Fresh : NewInmemoryPart(p, buf[s])
  /\ UNCHANGED <<added, phase, isInMerge, disk, merges, callers, readers>>

\* Time passes the flushDeadline of an in-memory part.
DeadlinePasses(p) ==
  /\ phase \in {"open", "draining", "stopping"}
  /\ p \in InmemoryParts \ due
  /\ due' = due \cup {p}
  /\ UNCHANGED <<added, buf, phase, listed, ptype, rows, refs, mustDrop, isInMerge,
                 disk, merges, callers, readers>>

-----------------------------------------------------------------------------
(* Claiming parts for a merge *)

\* (mutant) the loop doesn't look at stopCh
MergerStartStopped(w) ==
  /\ phase \in {"open", "draining", "stopping"}
  /\ wpc[w] = "idle"
  /\ wpc' = [wpc EXCEPT ![w] = "picking"]
  /\ UNCHANGED <<added, buf, phase, parts, isInMerge, disk, owner, src, dst, todrop,
                 callers, readers>>

\* A background merger passed the check of stopCh at the top of its loop.
MergerStart(w) ==
  /\ phase \in {"open", "draining"}
  /\ wpc[w] = "idle"
  /\ wpc' = [wpc EXCEPT ![w] = "picking"]
  /\ UNCHANGED <<added, buf, phase, parts, isInMerge, disk, owner, src, dst, todrop,
                 callers, readers>>

\* getPartsToMergeLocked(): at least two parts of one list, none of them in merge.
MergerPick(w) ==
  /\ wpc[w] = "picking"
  /\ \E t \in PartType : \E S \in SUBSET (OfType({t}) \ isInMerge) :
       /\ AtLeastTwo(S)
       /\ src' = [src EXCEPT ![w] = S]
       /\ isInMerge' = isInMerge \cup S
  /\ wpc' = [wpc EXCEPT ![w] = "claimed"]
  /\ UNCHANGED <<added, buf, phase, parts, disk, owner, dst, todrop, callers, readers>>

\* appendPartsToMerge() found nothing worth merging: the merger ends.
MergerGiveUp(w) ==
  /\ wpc[w] = "picking"
  /\ wpc' = [wpc EXCEPT ![w] = "idle"]
  /\ UNCHANGED <<added, buf, phase, parts, isInMerge, disk, owner, src, dst, todrop,
                 callers, readers>>

\* (mutant) parts in merge are taken too
ToFlushInMerge(isFinal) == {p \in InmemoryParts : isFinal \/ p \in due}

\* The parts mustFlushInmemoryPartsToFiles(isFinal) takes.
ToFlush(isFinal) ==
  {p \in InmemoryParts \ isInMerge : isFinal \/ p \in due}

\* (mutant) isInMerge isn't set
ClaimWithoutFlag(c, S) ==
  /\ claim' = [claim EXCEPT ![c] = S]
  /\ UNCHANGED isInMerge

Claim(c, S) ==
  /\ claim' = [claim EXCEPT ![c] = S]
  /\ isInMerge' = isInMerge \cup S

\* The loop of mustMergePartsToFiles(): getPartsForOptimalMerge() splits off some
\* of the claimed parts, or returns all of them, and a goroutine merges them.
SpawnMerge(c, w) ==
  /\ wpc[w] = "idle"
  /\ \E S \in SUBSET claim[c] :
       /\ S # {}
       /\ AtLeastTwo(S) \/ S = claim[c]
       /\ claim' = [claim EXCEPT ![c] = @ \ S]
       /\ src' = [src EXCEPT ![w] = S]
  /\ owner' = [owner EXCEPT ![w] = c]
  /\ wpc' = [wpc EXCEPT ![w] = "claimed"]
  /\ UNCHANGED <<added, buf, phase, parts, isInMerge, disk, dst, todrop, cpc, readers>>

\* (mutant) nobody waits for the merges
AllSpawned(c) == claim[c] = {}

\* wg.Wait() at the end of that loop.
AllMerged(c) ==
  /\ claim[c] = {}
  /\ \A w \in Worker : owner[w] = c => wpc[w] = "idle"

-----------------------------------------------------------------------------
(* mustMergePartsInternal() *)

\* Disk space is reserved, or isn't needed, or the merge is final and goes on
\* without it; the destination part is created.
MergeStart(w) ==
  /\ wpc[w] = "claimed"
  /\ \E t \in DstTypes(w), p \in Fresh :
       /\ dst' = [dst EXCEPT ![w] = p]
       /\ ptype' = [ptype EXCEPT ![p] = t]
       /\ dir' = [dir EXCEPT ![p] = IF t = "inmemory" THEN "none" ELSE "partial"]
  /\ wpc' = [wpc EXCEPT ![w] = "writing"]
  /\ UNCHANGED <<added, buf, phase, listed, rows, refs, mustDrop, due, isInMerge,
                 partsJSON, owner, src, todrop, callers, readers>>

\* (mutant) returns without releasing the parts
MergeNoSpaceLeak(w) ==
  /\ wpc[w] = "claimed"
  /\ ~IsFinal(w)
  /\ src' = [src EXCEPT ![w] = {}]
  /\ owner' = [owner EXCEPT ![w] = "merger"]
  /\ wpc' = [wpc EXCEPT ![w] = "idle"]
  /\ UNCHANGED <<added, buf, phase, parts, isInMerge, disk, dst, todrop, callers, readers>>

\* tryReserveDiskSpace() failed and the merge isn't final.
MergeNoSpace(w) ==
  /\ wpc[w] = "claimed"
  /\ ~IsFinal(w)
  /\ wpc' = [wpc EXCEPT ![w] = "releasing"]
  /\ UNCHANGED <<added, buf, phase, parts, isInMerge, disk, owner, src, dst, todrop,
                 callers, readers>>

\* The rows R are written to the new part and its files are synced; stopCh wasn't
\* closed when it was checked. openCreatedPart() opens the part, or removes it if
\* the merge dropped all the rows.
MergeWriteRows(w, R, stop) ==
  /\ wpc[w] = "writing"
  /\ IsFinal(w) \/ ~stop
  /\ wpc' = [wpc EXCEPT ![w] = "written"]
  /\ \/ /\ R # {}
        /\ rows' = [rows EXCEPT ![dst[w]] = R]
        /\ dir' = [dir EXCEPT ![dst[w]] = IF @ = "partial" THEN "complete" ELSE @]
        /\ refs' = [refs EXCEPT ![dst[w]] = 1]
        /\ UNCHANGED <<ptype, dst>>
     \/ /\ R = {}
        /\ ptype' = [ptype EXCEPT ![dst[w]] = "none"]
        /\ dir' = [dir EXCEPT ![dst[w]] = "none"]
        /\ dst' = [dst EXCEPT ![w] = NoPart]
        /\ UNCHANGED <<rows, refs>>
  /\ UNCHANGED <<added, buf, phase, listed, mustDrop, due, isInMerge, partsJSON, owner,
                 src, todrop, callers, readers>>

MergeWrite(w) == MergeWriteRows(w, RowsOf(src[w]), Stopped)

\* stopCh is closed: the incomplete destination part is removed.
MergeStop(w, stop) ==
  /\ wpc[w] = "writing"
  /\ stop /\ ~IsFinal(w)
  /\ ptype' = [ptype EXCEPT ![dst[w]] = "none"]
  /\ dir' = [dir EXCEPT ![dst[w]] = "none"]
  /\ dst' = [dst EXCEPT ![w] = NoPart]
  /\ wpc' = [wpc EXCEPT ![w] = "releasing"]
  /\ UNCHANGED <<added, buf, phase, listed, rows, refs, mustDrop, due, isInMerge,
                 partsJSON, owner, src, todrop, callers, readers>>

MergeInterrupt(w) == MergeStop(w, Stopped)

\* The locked half of swapSrcWithDstParts().
MergeSwap(w) ==
  /\ wpc[w] = "written"
  /\ listed' = (listed \ src[w]) \cup NewPart(w)
  /\ partsJSON' = PartsJSONAfter(src[w] \cap listed, listed')
  /\ due' = DueAfterMerge(w)
  /\ dst' = [dst EXCEPT ![w] = NoPart]
  /\ todrop' = [todrop EXCEPT ![w] = src[w]]
  /\ wpc' = [wpc EXCEPT ![w] = "dropping"]
  /\ UNCHANGED <<added, buf, phase, ptype, rows, refs, mustDrop, isInMerge, dir, owner,
                 src, callers, readers>>

\* The loop at the end of swapSrcWithDstParts(), one part at a time.
MergeDrop(w) ==
  /\ wpc[w] = "dropping"
  /\ \E p \in todrop[w] :
       /\ DecRef({p}, mustDrop \cup {p})
       /\ todrop' = [todrop EXCEPT ![w] = @ \ {p}]
       /\ wpc' = [wpc EXCEPT ![w] = IF todrop[w] = {p} THEN "releasing" ELSE @]
  /\ UNCHANGED <<added, buf, phase, listed, due, isInMerge, partsJSON, owner, src, dst,
                 callers, readers>>

\* The deferred releasePartsToMerge().
MergeRelease(w) ==
  /\ wpc[w] = "releasing"
  /\ isInMerge' = isInMerge \ src[w]
  /\ src' = [src EXCEPT ![w] = {}]
  /\ owner' = [owner EXCEPT ![w] = "merger"]
  /\ wpc' = [wpc EXCEPT ![w] = "idle"]
  /\ UNCHANGED <<added, buf, phase, parts, disk, dst, todrop, callers, readers>>

MergeStep(w) ==
  \/ MergeStart(w) \/ MergeNoSpace(w) \/ MergeWrite(w) \/ MergeInterrupt(w)
  \/ MergeSwap(w) \/ MergeDrop(w) \/ MergeRelease(w)

-----------------------------------------------------------------------------
(* The flusher, forced merges *)

\* A tick of inmemoryPartsFlusher().  When the ticker and stopCh are both ready,
\* select may still choose the tick.
FlusherTick ==
  /\ phase \in {"open", "draining", "stopping"}
  /\ cpc["flusher"] = "idle"
  /\ ToFlush(FALSE) # {}
  /\ Claim("flusher", ToFlush(FALSE))
  /\ cpc' = [cpc EXCEPT !["flusher"] = "flushing"]
  /\ UNCHANGED <<added, buf, phase, parts, disk, merges, readers>>

FlusherDone ==
  /\ cpc["flusher"] = "flushing"
  /\ AllMerged("flusher")
  /\ cpc' = [cpc EXCEPT !["flusher"] = "idle"]
  /\ UNCHANGED <<added, buf, phase, parts, isInMerge, disk, merges, claim, readers>>

\* mustForceMergeAllParts(): first all in-memory parts are flushed ...
ForceStart(f) ==
  /\ phase = "open"
  /\ cpc[f] = "idle"
  /\ Claim(f, ToFlush(TRUE))
  /\ cpc' = [cpc EXCEPT ![f] = "flushing"]
  /\ UNCHANGED <<added, buf, phase, parts, disk, merges, readers>>

\* ... then all file parts which aren't in merge are claimed and merged.
ForceCollect(f) ==
  /\ cpc[f] = "flushing"
  /\ AllMerged(f)
  /\ Claim(f, FileParts \ isInMerge)
  /\ cpc' = [cpc EXCEPT ![f] = "merging"]
  /\ UNCHANGED <<added, buf, phase, parts, disk, merges, readers>>

ForceDone(f) ==
  /\ cpc[f] = "merging"
  /\ AllMerged(f)
  /\ cpc' = [cpc EXCEPT ![f] = "idle"]
  /\ UNCHANGED <<added, buf, phase, parts, isInMerge, disk, merges, claim, readers>>

-----------------------------------------------------------------------------
(* Searches and snapshots hold references to parts *)

\* (mutant) no reference is taken
IncRefNot(S) == UNCHANGED refs

IncRef(S) == refs' = [p \in Part |-> IF p \in S THEN refs[p] + 1 ELSE refs[p]]

\* getPartsForTimeRange(): under partsLock, the parts which overlap the range.
QueryStart(q) ==
  /\ phase = "open"
  /\ held[q] = {}
  /\ \E S \in SUBSET listed :
       /\ S # {}
       /\ held' = [held EXCEPT ![q] = S]
       /\ IncRef(S)
  /\ UNCHANGED <<added, buf, phase, listed, ptype, rows, mustDrop, due, isInMerge, disk,
                 merges, callers, linked, snapRows, snapMust>>

\* pwsDecRef(), one part at a time.
ReleaseOne(r) ==
  /\ \E p \in held[r] :
       /\ held' = [held EXCEPT ![r] = @ \ {p}]
       /\ DecRef({p}, mustDrop)
  /\ UNCHANGED <<added, buf, phase, listed, due, isInMerge, partsJSON, merges, callers,
                 linked, snapRows, snapMust>>

QueryRelease(q) == ReleaseOne(q)

\* Rows a snapshot has to hold: those on disk when it starts, and those in
\* in-memory parts which nobody is merging.
SnapshotGoal == RowsOf(FileParts) \cup RowsOf(ToFlush(TRUE))

\* mustCreateSnapshotAt() flushes the in-memory parts first. snapshotLock of the
\* partition lets one snapshot run at a time.
SnapshotStart(s) ==
  /\ phase = "open"
  /\ \A t \in Snapshotter : cpc[t] = "idle"
  /\ Claim(s, ToFlush(TRUE))
  /\ cpc' = [cpc EXCEPT ![s] = "flushing"]
  /\ snapMust' = [snapMust EXCEPT ![s] = SnapshotGoal]
  /\ UNCHANGED <<added, buf, phase, parts, disk, merges, held, linked, snapRows>>

\* All file parts are referenced under partsLock; their names are written to
\* parts.json of the snapshot.
SnapshotGrab(s) ==
  /\ cpc[s] = "flushing"
  /\ AllMerged(s)
  /\ held' = [held EXCEPT ![s] = FileParts]
  /\ IncRef(FileParts)
  /\ cpc' = [cpc EXCEPT ![s] = "linking"]
  /\ UNCHANGED <<added, buf, phase, listed, ptype, rows, mustDrop, due, isInMerge, disk,
                 merges, claim, linked, snapRows, snapMust>>

\* One part directory is hard-linked into the snapshot.
SnapshotLink(s) ==
  /\ cpc[s] = "linking"
  /\ \E p \in held[s] \ linked[s] :
       /\ dir[p] = "complete"
       /\ linked' = [linked EXCEPT ![s] = @ \cup {p}]
       /\ snapRows' = [snapRows EXCEPT ![s] = @ \cup rows[p]]
  /\ UNCHANGED <<added, buf, phase, parts, isInMerge, disk, merges, callers, held,
                 snapMust>>

SnapshotLinked(s) ==
  /\ cpc[s] = "linking"
  /\ linked[s] = held[s]
  /\ cpc' = [cpc EXCEPT ![s] = "releasing"]
  /\ UNCHANGED <<added, buf, phase, parts, isInMerge, disk, merges, claim, readers>>

SnapshotRelease(s) ==
  /\ cpc[s] = "releasing"
  /\ ReleaseOne(s)

SnapshotDone(s) ==
  /\ cpc[s] = "releasing"
  /\ held[s] = {}
  /\ cpc' = [cpc EXCEPT ![s] = "idle"]
  /\ linked' = [linked EXCEPT ![s] = {}]
  /\ snapRows' = [snapRows EXCEPT ![s] = {}]
  /\ snapMust' = [snapMust EXCEPT ![s] = {}]
  /\ UNCHANGED <<added, buf, phase, parts, isInMerge, disk, merges, claim, held>>

-----------------------------------------------------------------------------
(* Closing, crashing and opening *)

\* mustCloseDatadb() is called when nobody accesses the datadb: no searches, no
\* snapshots and no forced merges. Background mergers and the flusher may run.
CloseBegin ==
  /\ phase = "open"
  /\ \A r \in Reader : held[r] = {}
  /\ \A c \in Snapshotter \cup Forcer : cpc[c] = "idle"
  /\ phase' = "draining"
  /\ UNCHANGED <<added, buf, parts, isInMerge, disk, merges, callers, readers>>

\* rb.flush() has emptied every shard; stopCh is closed under partsLock.
CloseStop ==
  /\ phase = "draining"
  /\ \A s \in Shard : buf[s] = {}
  /\ phase' = "stopping"
  /\ UNCHANGED <<added, buf, parts, isInMerge, disk, merges, callers, readers>>

\* ddb.wg.Wait() returned; the remaining in-memory parts are flushed.
CloseFinalFlush ==
  /\ phase = "stopping"
  /\ cpc["flusher"] = "idle"
  /\ \A w \in Worker : wpc[w] = "idle"
  /\ phase' = "final"
  /\ Claim("closer", ToFlush(TRUE))
  /\ cpc' = [cpc EXCEPT !["closer"] = "flushing"]
  /\ UNCHANGED <<added, buf, parts, disk, merges, readers>>

\* The file parts lose the reference of the lists, and the lists are emptied.
CloseEnd ==
  /\ phase = "final"
  /\ AllMerged("closer")
  /\ phase' = "closed"
  /\ listed' = {}
  /\ DecRef(FileParts, mustDrop)
  /\ cpc' = [cpc EXCEPT !["closer"] = "idle"]
  /\ UNCHANGED <<added, buf, due, isInMerge, partsJSON, merges, claim, readers>>

\* What the process forgets when it dies; directories which weren't complete hold
\* nothing of use.
LoseMemory ==
  /\ buf' = [s \in Shard |-> {}]
  /\ listed' = {} /\ mustDrop' = {} /\ due' = {} /\ isInMerge' = {}
  /\ ptype' = [p \in Part |-> "none"]
  /\ refs' = [p \in Part |-> 0]
  /\ rows' = [p \in Part |-> IF dir[p] = "complete" THEN rows[p] ELSE {}]
  /\ wpc' = [w \in Worker |-> "idle"]
  /\ owner' = [w \in Worker |-> "merger"]
  /\ src' = [w \in Worker |-> {}]
  /\ dst' = [w \in Worker |-> NoPart]
  /\ todrop' = [w \in Worker |-> {}]
  /\ cpc' = [c \in Caller |-> "idle"]
  /\ claim' = [c \in Caller |-> {}]
  /\ held' = [r \in Reader |-> {}]
  /\ linked' = [s \in Snapshotter |-> {}]
  /\ snapRows' = [s \in Snapshotter |-> {}]
  /\ snapMust' = [s \in Snapshotter |-> {}]

\* The process is killed, or the machine stops: only the disk survives.
Crash ==
  /\ phase \notin {"closed", "crashed"}
  /\ phase' = "crashed"
  /\ LoseMemory
  /\ UNCHANGED <<added, disk>>

\* mustRemoveUnusedDirs()
UnusedDirs == {p \in Part : dir[p] # "none" /\ p \notin partsJSON}

\* mustOpenDatadb() reads parts.json, removes the directories it doesn't list and
\* opens the others as small or big parts by their size. A missing directory is a
\* fatal error.
Open ==
  /\ phase \in {"closed", "crashed"}
  /\ \A p \in partsJSON : dir[p] # "none"
  /\ phase' = "open"
  /\ listed' = partsJSON
  /\ \E B \in SUBSET partsJSON :
       ptype' = [p \in Part |-> IF p \in B THEN "big"
                                ELSE IF p \in partsJSON THEN "small" ELSE "none"]
  /\ refs' = [p \in Part |-> IF p \in partsJSON THEN 1 ELSE 0]
  /\ dir' = [p \in Part |-> IF p \in UnusedDirs THEN "none" ELSE dir[p]]
  /\ rows' = [p \in Part |-> IF p \in UnusedDirs THEN {} ELSE rows[p]]
  /\ UNCHANGED <<added, buf, mustDrop, due, isInMerge, partsJSON, merges, callers,
                 readers>>

Next ==
  \/ \E s \in Shard : FlushRows(s) \/ \E R \in SUBSET Row : AddRows(s, R)
  \/ \E p \in Part : DeadlinePasses(p)
  \/ \E w \in Worker : MergerStart(w) \/ MergerPick(w) \/ MergerGiveUp(w) \/ MergeStep(w)
  \/ \E c \in Caller, w \in Worker : SpawnMerge(c, w)
  \/ FlusherTick \/ FlusherDone
  \/ \E f \in Forcer : ForceStart(f) \/ ForceCollect(f) \/ ForceDone(f)
  \/ \E q \in Query : QueryStart(q) \/ QueryRelease(q)
  \/ \E s \in Snapshotter :
       \/ SnapshotStart(s) \/ SnapshotGrab(s) \/ SnapshotLink(s)
       \/ SnapshotLinked(s) \/ SnapshotRelease(s) \/ SnapshotDone(s)
  \/ CloseBegin \/ CloseStop \/ CloseFinalFlush \/ CloseEnd
  \/ Crash
  \/ Open

Spec == Init /\ [][Next]_vars

-----------------------------------------------------------------------------
(* Safety *)

DurableRows == UNION {rows[p] : p \in {q \in partsJSON : dir[q] = "complete"}}
Running == phase \notin {"closed", "crashed"}
Active(w) == wpc[w] \in WorkerPC \ {"idle", "picking"}

\* Whatever is written to or deleted from the disk by merges, searches which end,
\* closes and crashes, every part named in parts.json has its complete directory,
\* so mustOpenDatadb() never meets "part ... is listed in ..., but is missing on
\* disk". While the datadb is open, parts.json names exactly its file parts.
PartsFileIsTrue ==
  /\ \A p \in partsJSON : dir[p] = "complete"
  /\ Running => partsJSON = FileParts

\* A row is never in two shards, in two listed parts, or in a shard and a listed
\* part: searches never return it twice, whatever merges run.
RowStoredOnce ==
  /\ \A s, t \in Shard : s # t => buf[s] \cap buf[t] = {}
  /\ \A p, q \in listed : p # q => rows[p] \cap rows[q] = {}
  /\ \A s \in Shard : buf[s] \cap RowsOf(listed) = {}

\* No part has two owners, and an owner's parts have the flag set.
ClaimsAreDisjoint ==
  /\ \A w \in Worker : src[w] \subseteq isInMerge
  /\ \A w, v \in Worker : w # v => src[w] \cap src[v] = {}
  /\ \A c \in Caller, w \in Worker : claim[c] \cap src[w] = {}
  /\ \A c, d \in Caller : c # d => claim[c] \cap claim[d] = {}
  /\ \A c \in Caller : claim[c] \subseteq isInMerge \cap listed

\* The sources of these merges are in the lists until the swap.
SourcesListed(W) ==
  \A w \in W : wpc[w] \in {"claimed", "writing", "written"} => src[w] \subseteq listed

\* isInMerge works as a lock: no part has two owners, each owner's parts have the
\* flag set until they are released ("BUG: partWrapper.isInMerge unexpectedly set
\* to false", "BUG: missing isInMerge flag"), and nobody else takes them out of
\* the lists before the swap ("BUG: unexpected number of parts removed").
ClaimsAreExclusive == ClaimsAreDisjoint /\ SourcesListed(Worker)

Usable(p) == ptype[p] # "none" /\ (ptype[p] \in FileType => dir[p] = "complete")

\* A part isn't closed and its directory isn't removed while a search or
\* a snapshot holds it, or while it is listed, or while a merge reads it.
UsedPartsStayOpen ==
  /\ \A p \in listed : Usable(p)
  /\ \A r \in Reader : \A p \in held[r] : Usable(p)
  /\ \A w \in Worker : wpc[w] \in {"claimed", "writing"} => \A p \in src[w] : Usable(p)

\* mustCloseDatadb(): once the final flush is over, no in-memory part is left and
\* nobody but the lists references a part ("BUG: the number of in-memory parts
\* must be zero", "BUG: there are %d references to smallPart").
CloseFindsNothingLeft ==
  phase = "final" /\ AllMerged("closer") =>
    /\ InmemoryParts = {}
    /\ \A p \in listed : refs[p] = 1

\* An orderly close leaves no directory behind which parts.json doesn't list: every
\* merged or interrupted part was removed, so no reference was leaked.
CloseLeavesNoGarbage == phase = "closed" => UnusedDirs = {}

\* mustCloseDatadb() neither panics nor leaks a part.
CloseIsClean == CloseFindsNothingLeft /\ CloseLeavesNoGarbage

\* A finished snapshot holds every row which was on disk, or in an in-memory part
\* nobody was merging, when it started; merges which replace and delete those
\* parts while they are linked don't matter.
SnapshotIsComplete ==
  \A s \in Snapshotter : cpc[s] = "releasing" => snapMust[s] \subseteq snapRows[s]

-----------------------------------------------------------------------------
(* What makes these invariants inductive *)

\* Position and local variables of a merge agree.
MergeShape ==
  \A w \in Worker :
    /\ wpc[w] \in {"idle", "picking"} => src[w] = {}
    /\ todrop[w] \subseteq src[w]
    /\ todrop[w] # {} => wpc[w] = "dropping"
    /\ wpc[w] \notin {"writing", "written"} => dst[w] = NoPart
    /\ wpc[w] = "writing" => dst[w] \in Part

\* Position of a caller, its claim and the merges made for it agree, and so do the
\* phases of the datadb with all of them.
CallerShape ==
  /\ \A w \in Worker : wpc[w] \in {"idle", "picking"} => owner[w] = "merger"
  /\ \A w \in Worker : owner[w] \in Caller => cpc[owner[w]] \in {"flushing", "merging"}
  /\ \A c \in Caller : claim[c] # {} => cpc[c] \in {"flushing", "merging"}
  /\ cpc["closer"] # "idle" => phase = "final"
  /\ phase \in {"draining", "stopping", "final"} =>
       /\ \A c \in Snapshotter \cup Forcer : cpc[c] = "idle"
       /\ \A r \in Reader : held[r] = {}
  /\ phase = "final" =>
       /\ cpc["flusher"] = "idle"
       /\ \A w \in Worker : owner[w] = "merger" => wpc[w] = "idle"
  /\ ~Running =>
       /\ \A c \in Caller : cpc[c] = "idle"
       /\ \A w \in Worker : wpc[w] = "idle"
       /\ \A r \in Reader : held[r] = {}
       /\ listed = {}

\* No part keeps isInMerge without somebody who is going to clear it.
FlagsHaveOwners ==
  \A p \in isInMerge : \/ \E w \in Worker : p \in src[w]
                       \/ \E c \in Caller : p \in claim[c]

Holders(p) == {r \in Reader : p \in held[r]}

\* The reference every part has from the lists; newPartWrapper() takes it before
\* the part is listed, and a merge gives it back after the part left the lists.
HasOwner(p) ==
  \/ p \in listed
  \/ \E w \in Worker : p \in todrop[w] \/ (wpc[w] = "written" /\ dst[w] = p)

\* refCount counts exactly the lists and the readers, no reference is leaked or
\* given back twice, and a part somebody references is open.
RefsAreExact ==
  \A p \in Part :
    /\ refs[p] = (IF HasOwner(p) THEN 1 ELSE 0) + Cardinality(Holders(p))
    /\ ptype[p] # "none" <=> \/ HasOwner(p) \/ Holders(p) # {}
                            \/ \E w \in Worker : wpc[w] = "writing" /\ dst[w] = p

\* The part a merge creates is known to nobody else until the swap.
DstIsPrivate ==
  \A w \in Worker : dst[w] # NoPart =>
    /\ dst[w] \notin listed \cup isInMerge \cup mustDrop \cup partsJSON
    /\ \A r \in Reader : dst[w] \notin held[r]
    /\ ptype[dst[w]] # "none"
    /\ \A v \in Worker \ {w} : dst[v] # dst[w]
    /\ ptype[dst[w]] \in FileType =>
         dir[dst[w]] = IF wpc[w] = "writing" THEN "partial" ELSE "complete"

\* Only parts which left the lists are deleted with their last reference, and every
\* part which left them is.
DroppedPartsAreUnlisted ==
  /\ \A p \in mustDrop : ~HasOwner(p) /\ Holders(p) # {}
  /\ \A w \in Worker : todrop[w] \cap listed = {}
  /\ \A r \in Reader : \A p \in held[r] : HasOwner(p) \/ p \in mustDrop

\* While the datadb is open, a directory belongs to an open file part.
DirsHaveParts == Running => \A p \in Part : dir[p] # "none" => ptype[p] \in FileType

\* Neither a flush nor a merge of file parts creates an in-memory part.
DstTypeFits ==
  \A w \in Worker : dst[w] # NoPart /\ ptype[dst[w]] = "inmemory" =>
    ~IsFinal(w) /\ \A p \in src[w] : ptype[p] = "inmemory"

\* The merges whose sources are still in the lists.
Unswapped == {w \in Worker : wpc[w] \in {"claimed", "writing", "written"}}

\* mustCloseDatadb() has claimed every in-memory part which isn't flushed for it yet.
FinalFlushTakesAll ==
  phase = "final" =>
    /\ cpc["closer"] = "flushing"
    /\ InmemoryParts \subseteq claim["closer"] \cup UNION {src[w] : w \in Unswapped}

\* A source which left the lists before its own swap is still held by a reader: only
\* deletes merge such parts (see DatadbDelete).
SourcesKept == \A w \in Unswapped : \A p \in src[w] : p \in listed \/ Holders(p) # {}

\* What claims of every kind, those of deletes included, have in common.
ClaimCore == MergeShape /\ CallerShape /\ ClaimsAreDisjoint
LockInv == ClaimCore /\ SourcesKept

\* The inductive invariant of claims: isInMerge works as a lock, since whoever sets
\* it is known until he clears it.
ClaimInv == MergeShape /\ CallerShape /\ FlagsHaveOwners /\ ClaimsAreExclusive

\* A snapshot takes references only after its flush, and gives them back before it ends.
SnapshotShape ==
  \A s \in Snapshotter :
    cpc[s] \in {"idle", "flushing"} => held[s] = {} /\ linked[s] = {}

\* decRef(): references are counted exactly, so what is used stays open, and what was
\* replaced is deleted with its last user.
RefInv ==
  /\ RefsAreExact /\ DstIsPrivate /\ DroppedPartsAreUnlisted /\ UsedPartsStayOpen
  /\ DirsHaveParts /\ DstTypeFits /\ FinalFlushTakesAll /\ SnapshotShape

\* Every row of a shard or a part was accepted; the rows of a closed or a crashed
\* datadb are in the parts of parts.json, in one part each.
RowsAreAccounted ==
  /\ \A s \in Shard : buf[s] \subseteq added
  /\ \A p \in listed \cup partsJSON : rows[p] \subseteq added
  /\ \A p, q \in partsJSON : p # q => rows[p] \cap rows[q] = {}
  /\ phase \notin {"open", "draining"} => \A s \in Shard : buf[s] = {}

\* The part a merge has written holds the rows of the sources, which are still listed.
MergesCarryRows ==
  \A w \in Worker : wpc[w] = "written" => RowsOf(NewPart(w)) = RowsOf(src[w])

DueAreInMemory == due \subseteq InmemoryParts

\* The parts whose rows will be in file parts when the flush of a snapshot is over.
ComingParts(s) ==
  FileParts \cup claim[s] \cup UNION {src[w] : w \in {v \in Unswapped : owner[v] = s}}

\* Where the rows a snapshot has to hold are until it is done.
SnapshotGathers ==
  \A s \in Snapshotter :
    /\ cpc[s] = "flushing" => snapMust[s] \subseteq RowsOf(ComingParts(s))
    /\ cpc[s] = "linking" => /\ linked[s] \subseteq held[s]
                             /\ snapMust[s] \subseteq snapRows[s] \cup RowsOf(held[s] \ linked[s])

\* Rows: each has one place, and every step which moves it puts it into the next one.
RowInv ==
  /\ RowStoredOnce /\ RowsAreAccounted /\ MergesCarryRows /\ DueAreInMemory
  /\ SnapshotIsComplete /\ SnapshotGathers

-----------------------------------------------------------------------------
(* Steps *)

\* Merging in-memory parts never extends the time a row stays volatile: a row whose
\* flush deadline has passed is in an overdue part until it is durable, or the
\* process crashes.
DeadlineIsKept ==
  [][ phase' = "crashed" \/ RowsOf(due) \subseteq RowsOf(due)' \cup DurableRows' ]_vars

\* The rows promised by RowStore: rows become visible, then durable, and never go
\* back; crashes take volatile rows only; a close takes nothing.
Store == INSTANCE RowStore WITH
  accepted <- added,
  pending  <- UNION {buf[s] : s \in Shard},
  volatile <- RowsOf(InmemoryParts),
  durable  <- DurableRows,
  mode     <- IF Running THEN "open" ELSE phase

RefinesRowStore == Store!StoreSpec

-----------------------------------------------------------------------------
(* Liveness *)

\* Merge goroutines, callers and readers run on; mustCloseDatadb() goes on once
\* called. A tick of the flusher isn't synchronized with the mergers, and waiting
\* for a merge slot is first come, first served: neither misses forever. Nothing
\* makes rows arrive, a search start, the datadb close or the process crash.
Fairness ==
  /\ \A w \in Worker : WF_vars(MergeStep(w)) /\ WF_vars(MergerPick(w) \/ MergerGiveUp(w))
  /\ \A s \in Shard : WF_vars(FlushRows(s))
  /\ \A p \in Part : WF_vars(DeadlinePasses(p))
  /\ \A p \in Part : SF_vars(FlusherTick /\ p \in ToFlush(FALSE))
  /\ WF_vars(FlusherDone)
  /\ \A c \in Caller : SF_vars(\E w \in Worker : SpawnMerge(c, w))
  /\ \A f \in Forcer : WF_vars(ForceCollect(f)) /\ WF_vars(ForceDone(f))
  /\ \A q \in Query : WF_vars(QueryRelease(q))
  /\ \A s \in Snapshotter : WF_vars(\/ SnapshotGrab(s) \/ SnapshotLink(s) \/ SnapshotLinked(s)
                                     \/ SnapshotRelease(s) \/ SnapshotDone(s))
  /\ WF_vars(CloseStop) /\ WF_vars(CloseFinalFlush) /\ WF_vars(CloseEnd)

FairSpec == Spec /\ Fairness

\* Every accepted row reaches the disk, unless the process crashes first: no row
\* stays in a shard, and mergers can't keep a part from the flusher forever.
EventuallyDurable ==
  \A r \in Row :
    (\E s \in Shard : r \in buf[s]) \/ r \in RowsOf(InmemoryParts)
      ~> r \in DurableRows \/ phase = "crashed"

\* mustCloseDatadb() returns, unless the process crashes first.
CloseTerminates == (phase = "draining") ~> (phase \in {"closed", "crashed"})
=============================================================================
