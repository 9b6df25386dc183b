----------------------------- MODULE Partition -----------------------------
(***************************************************************************)
(* One per-day partition as its users see it: the stream index (indexdb)   *)
(* and the rows (datadb) together, the two caches of the storage which are *)
(* keyed by partition, and the directory of the partition.                 *)
(*                                                                         *)
(* Writers register a stream in the index before they add its first row,   *)
(* unless streamIDCache says it is there; searches keep the stream ids of  *)
(* a filter in filterStreamCache; snapshots copy the index and then the    *)
(* rows; the partition is created by a writer, detached, attached, dropped *)
(* and closed, and the process may crash between any two steps.            *)
(*                                                                         *)
(* What datadb does with the rows is RowStore, which Datadb implements     *)
(* (rows which aren't searchable yet are counted as volatile).  Index      *)
(* items are abstracted to the streams they register.  A stream filter     *)
(* is one which matches every stream.                                      *)
(***************************************************************************)
EXTENDS Naturals, FiniteSets

CONSTANTS
  Stream,       \* stream ids
  PerStream,    \* how many rows a stream has
  Writer,       \* callers of mustAddRows()
  Query,        \* callers of searchStreamIDs()
  Snapshotter,  \* callers of mustCreateSnapshot()
  MaxUsers,     \* bound on the users of the partition at a time
  MaxOps        \* bound on detaches, drops, closes, crashes and events elsewhere

ASSUME BoundAssumption == MaxOps \in Nat /\ MaxUsers \in Nat

ASSUME UserAssumption ==
  /\ Writer \cap (Query \cup Snapshotter) = {}
  /\ Query \cap Snapshotter = {}

Row == Stream \X (1..PerStream)
StreamOf(r) == r[1]

VARIABLES
  \* the directory of the partition and the object in memory
  dir,        \* what exists on disk: "partition", "indexdb", "datadb", "marker"
  life,       \* where the partition is between its creation and its end
  deleted,    \* the day is in deletedPartitions
  refs,       \* users of the partitionWrapper
  ops,        \* events counted by MaxOps so far
  \* indexdb: the streams registered in
  raw,        \*   rawItems, invisible to searches,
  flushing,   \*   blocks taken from rawItems, which are in no part yet,
  imem,       \*   inmemoryParts,
  file,       \*   and parts on disk
  merging,    \* streams in in-memory parts claimed by background merges
  unflagged,  \* streams in new parts whose flusher hasn't set needFlushCallbackCall yet
  needCall,   \* needFlushCallbackCall
  calling,    \* the callback worker has cleared the flag and calls the callback
  generation, \* filterStreamCacheGeneration
  settled,    \* streams which were visible when it was incremented last (history)
  \* the caches; a new partitionCacheGeneration makes all their entries unreachable
  streamIDCache,
  filterStreamCache,
  overtaken,  \* searches with an invalidation since they read the index (history)
  \* datadb
  accepted, volatile, durable, mode,
  orphans,    \* rows whose stream was lost in a crash (history)
  \* users
  wpc, wrow,
  qpc, found,
  npc, snap

disk   == <<dir, file, durable>>
index  == <<raw, flushing, imem, file, merging, unflagged, needCall, calling, generation, settled>>
caches == <<streamIDCache, filterStreamCache, overtaken>>
store  == <<accepted, volatile, durable, mode, orphans>>
object == <<dir, life, deleted, refs, ops>>
users  == <<wpc, wrow, qpc, found, npc, snap>>
vars   == <<object, index, caches, store, users>>

NewUser(u) ==
  /\ Cardinality(refs) < MaxUsers
  /\ refs' = refs \cup {u}

Store == INSTANCE RowStore WITH pending <- {}

Visible    == imem \cup file
Claimed    == UNION {snap[n].claim : n \in Snapshotter}
Registered == raw \cup flushing \cup imem \cup file
Closing    == {"detaching", "dropping", "stopping"}
Opened     == {"open"} \cup Closing

AnswerType == [at : {0, 1}, ids : SUBSET Stream, late : BOOLEAN]
NoSnap == [before |-> {}, claim |-> {}, skipped |-> {}, ids |-> {}, rows |-> {}]

-----------------------------------------------------------------------------
(* Indexdb *)

\* mustOpenIndexdb() finds the parts on disk, and generation starts from zero.
OpenIndexdb(F) ==
  /\ raw' = {} /\ flushing' = {} /\ imem' = {} /\ merging' = {} /\ unflagged' = {}
  /\ needCall' = FALSE /\ calling' = FALSE /\ generation' = 0
  /\ file' = F /\ settled' = F

Init ==
  /\ dir = {} /\ life = "absent" /\ deleted = FALSE /\ refs = {} /\ ops = 0
  /\ raw = {} /\ flushing = {} /\ imem = {} /\ file = {} /\ merging = {} /\ unflagged = {}
  /\ needCall = FALSE /\ calling = FALSE /\ generation = 0 /\ settled = {}
  /\ streamIDCache = {} /\ filterStreamCache = {}
  /\ accepted = {} /\ volatile = {} /\ durable = {} /\ mode = "closed" /\ orphans = {}
  /\ wpc = [w \in Writer |-> "idle"] /\ wrow = [w \in Writer |-> <<>>]
  /\ qpc = [q \in Query |-> "idle"] /\ found = [q \in Query |-> {}]
  /\ overtaken = {}
  /\ npc = [n \in Snapshotter |-> "idle"] /\ snap = [n \in Snapshotter |-> NoSnap]

\* A flusher, or a writer which fills a shard of rawItems, takes raw items ...
FlushItems(s) ==
  /\ mode = "open"
  /\ s \in raw
  /\ raw' = raw \ {s}
  /\ flushing' = flushing \cup {s}
  /\ UNCHANGED <<imem, file, merging, unflagged, needCall, calling, generation, settled,
                 object, caches, store, users>>

\* (mutant) the new part asks for no callback
AddPartSilently(s) ==
  /\ s \in flushing
  /\ flushing' = flushing \ {s}
  /\ imem' = imem \cup {s}
  /\ UNCHANGED <<raw, file, merging, unflagged, needCall, calling, generation, settled,
                 object, caches, store, users>>

\* ... and makes a searchable part of them.
AddPart(s) ==
  /\ s \in flushing
  /\ flushing' = flushing \ {s}
  /\ imem' = imem \cup {s}
  /\ unflagged' = unflagged \cup {s}
  /\ UNCHANGED <<raw, file, merging, needCall, calling, generation, settled,
                 object, caches, store, users>>

\* It asks for the callback after the part became visible.
SetFlag(s) ==
  /\ s \in unflagged
  /\ unflagged' = unflagged \ {s}
  /\ needCall' = TRUE
  /\ UNCHANGED <<raw, flushing, imem, file, merging, calling, generation, settled,
                 object, caches, store, users>>

\* Once per second the callback worker looks at the flag ...
TakeFlag ==
  /\ mode = "open" /\ needCall /\ ~calling
  /\ needCall' = FALSE
  /\ calling' = TRUE
  /\ UNCHANGED <<raw, flushing, imem, file, merging, unflagged, generation, settled,
                 object, caches, store, users>>

\* ... and calls invalidateStreamFilterCache().
\* Entries of the old generation can't be read any more and are forgotten here, so
\* it matters only whether generation is still the one mustOpenIndexdb() starts with.
InvalidateStreamFilterCache ==
  /\ generation' = 1
  /\ overtaken' = {q \in Query : qpc[q] = "store"}
  /\ filterStreamCache' = {}
  /\ settled' = Visible

CallFlushCallback ==
  /\ calling
  /\ calling' = FALSE
  /\ InvalidateStreamFilterCache
  /\ UNCHANGED <<raw, flushing, imem, file, merging, unflagged, needCall, object,
                 streamIDCache, store, users>>

\* A background merge, or the flusher of in-memory parts, claims parts ...
StartMerge ==
  /\ mode = "open"
  /\ merging = {}
  /\ \E S \in SUBSET (imem \ Claimed) \ {{}} : merging' = S
  /\ UNCHANGED <<raw, flushing, imem, file, unflagged, needCall, calling, generation, settled,
                 object, caches, store, users>>

\* ... and replaces them with a part in memory or on disk.
FinishMerge ==
  /\ merging # {}
  /\ merging' = {}
  /\ \/ UNCHANGED <<imem, file>>
     \/ imem' = imem \ merging /\ file' = file \cup merging
  /\ UNCHANGED <<raw, flushing, unflagged, needCall, calling, generation, settled,
                 object, caches, store, users>>

-----------------------------------------------------------------------------
(* Datadb: parts reach the disk at any time while it is open *)

PersistRows ==
  /\ mode = "open"
  /\ volatile # {}
  /\ Store!Persist(volatile)
  /\ UNCHANGED <<orphans, object, index, caches, users>>

-----------------------------------------------------------------------------
(* Writers *)

\* getPartitionForWriting() with a partition in the list.
GetPartition(w, r) ==
  /\ life = "open"
  /\ wpc[w] = "idle" /\ r \notin accepted
  /\ \A v \in Writer : wrow[v] # r
  /\ NewUser(w)
  /\ wpc' = [wpc EXCEPT ![w] = "check"]
  /\ wrow' = [wrow EXCEPT ![w] = r]
  /\ UNCHANGED <<dir, life, deleted, ops, index, caches, store,
                 qpc, found, npc, snap>>

\* It creates a missing partition, unless the day was dropped or there is a
\* directory; the other callers wait for partitionsLock.
CreatePartition(w, r) ==
  /\ life = "absent" /\ ~deleted /\ dir = {}
  /\ wpc[w] = "idle" /\ r \notin accepted
  /\ \A v \in Writer : wrow[v] # r
  /\ life' = "creating"
  /\ dir' = {"partition"}
  /\ wpc' = [wpc EXCEPT ![w] = "creating"]
  /\ wrow' = [wrow EXCEPT ![w] = r]
  /\ UNCHANGED <<deleted, refs, ops, index, caches, store, qpc, found, npc, snap>>

\* mustCreatePartition() makes the directory of indexdb first.
CreateDirs(w) ==
  /\ wpc[w] = "creating"
  /\ dir' = IF "indexdb" \in dir THEN dir \cup {"datadb"} ELSE dir \cup {"indexdb"}
  /\ dir' # dir
  /\ UNCHANGED <<life, deleted, refs, ops, index, caches, store, users>>

OpenCreated(w) ==
  /\ wpc[w] = "creating" /\ {"indexdb", "datadb"} \subseteq dir
  /\ life' = "open"
  /\ OpenIndexdb({})
  /\ Store!Reopen
  /\ refs' = {w}
  /\ wpc' = [wpc EXCEPT ![w] = "check"]
  /\ UNCHANGED <<dir, deleted, ops, caches, orphans, wrow, qpc, found, npc, snap>>

WriterAt(w, from, to) ==
  /\ wpc[w] = from
  /\ wpc' = [wpc EXCEPT ![w] = to]
  /\ UNCHANGED <<object, wrow, qpc, found, npc, snap>>

\* mustAddRows(): hasStreamIDInCache()
CheckCache(w) ==
  /\ WriterAt(w, "check", IF StreamOf(wrow[w]) \in streamIDCache THEN "add" ELSE "register")
  /\ UNCHANGED <<index, caches, store>>

\* hasStreamID() sees searchable items only; mustRegisterStream() adds them again
\* if it misses them.
RegisterStream(w) ==
  /\ WriterAt(w, "register", "put")
  /\ raw' = IF StreamOf(wrow[w]) \in Visible THEN raw ELSE raw \cup {StreamOf(wrow[w])}
  /\ UNCHANGED <<flushing, imem, file, merging, unflagged, needCall, calling, generation,
                 settled, caches, store>>

PutToCache(w) ==
  /\ WriterAt(w, "put", "add")
  /\ streamIDCache' = streamIDCache \cup {StreamOf(wrow[w])}
  /\ UNCHANGED <<filterStreamCache, overtaken, index, store>>

\* ddb.mustAddRows(), and the writer gives the partition back.
AddRow(w) ==
  /\ wpc[w] = "add"
  /\ Store!AcceptVisible({wrow[w]}, {wrow[w]})
  /\ refs' = refs \ {w}
  /\ wpc' = [wpc EXCEPT ![w] = "idle"]
  /\ wrow' = [wrow EXCEPT ![w] = <<>>]
  /\ UNCHANGED <<dir, life, deleted, ops, index, caches, orphans,
                 qpc, found, npc, snap>>

-----------------------------------------------------------------------------
(* Searches by a stream filter *)

Answers == {a \in filterStreamCache : a.at = generation}

\* loadStreamIDsFromCache() finds nothing under the current generations.
MissCache(q) ==
  /\ life = "open"
  /\ qpc[q] = "idle" /\ Answers = {}
  /\ NewUser(q)
  /\ qpc' = [qpc EXCEPT ![q] = "search"]
  /\ UNCHANGED <<dir, life, deleted, ops, index, caches, store, wpc, wrow,
                 found, npc, snap>>

SearchIndex(q) ==
  /\ qpc[q] = "search"
  /\ found' = [found EXCEPT ![q] = Visible]
  /\ qpc' = [qpc EXCEPT ![q] = "store"]
  /\ UNCHANGED <<object, index, caches, store, wpc, wrow, npc, snap>>

\* storeStreamIDsToCache() builds its key from the generations of now: "late" says
\* that generation has changed since the search.
StoreToCache(q) ==
  /\ qpc[q] = "store"
  /\ filterStreamCache' =
       {[at |-> generation, ids |-> found[q], late |-> q \in overtaken]}
  /\ refs' = refs \ {q}
  /\ qpc' = [qpc EXCEPT ![q] = "idle"]
  /\ found' = [found EXCEPT ![q] = {}]
  /\ overtaken' = overtaken \ {q}
  /\ UNCHANGED <<dir, life, deleted, ops, index, streamIDCache, store, wpc, wrow, npc, snap>>

\* clean() forgets entries which weren't used for a while.
CleanCaches ==
  /\ \/ /\ \E s \in streamIDCache : streamIDCache' = streamIDCache \ {s}
        /\ UNCHANGED filterStreamCache
     \/ /\ filterStreamCache # {} /\ filterStreamCache' = {}
        /\ UNCHANGED streamIDCache
  /\ UNCHANGED <<overtaken, object, index, store, users>>

-----------------------------------------------------------------------------
(* Snapshots *)

SnapshotAt(n, from, to) ==
  /\ npc[n] = from
  /\ npc' = [npc EXCEPT ![n] = to]
  /\ UNCHANGED <<wpc, wrow, qpc, found>>

StartSnapshot(n) ==
  /\ life = "open"
  /\ SnapshotAt(n, "idle", "items")
  /\ NewUser(n)
  /\ snap' = [snap EXCEPT ![n].before = volatile \cup durable]
  /\ UNCHANGED <<dir, life, deleted, ops, index, caches, store>>

\* (mutant) the raw items aren't flushed
SnapshotItemsNot(n) ==
  /\ SnapshotAt(n, "items", "parts")
  /\ UNCHANGED <<index, object, caches, store, snap>>

\* MustCreateSnapshotAt() of the index: flushPendingItems(true) makes parts of all
\* the raw items ...
SnapshotItems(n) ==
  /\ SnapshotAt(n, "items", IF raw = {} THEN "parts" ELSE "call")
  /\ raw' = {}
  /\ imem' = imem \cup raw
  /\ snap' = [snap EXCEPT ![n].skipped = flushing]
  /\ UNCHANGED <<flushing, file, merging, unflagged, needCall, calling, generation, settled,
                 object, caches, store>>

\* ... and calls the callback at once.
SnapshotCallback(n) ==
  /\ SnapshotAt(n, "call", "parts")
  /\ InvalidateStreamFilterCache
  /\ UNCHANGED <<raw, flushing, imem, file, merging, unflagged, needCall, calling,
                 object, streamIDCache, store, snap>>

\* flushInmemoryPartsToFiles(true) takes the parts which aren't being merged ...
SnapshotClaim(n) ==
  /\ SnapshotAt(n, "parts", "merge")
  /\ LET taken == merging \cup Claimed
     IN snap' = [snap EXCEPT ![n].claim = imem \ taken, ![n].skipped = @ \cup (imem \cap taken)]
  /\ UNCHANGED <<index, object, caches, store>>

\* ... and writes them to disk.
SnapshotMerge(n) ==
  /\ SnapshotAt(n, "merge", "link")
  /\ imem' = imem \ snap[n].claim
  /\ file' = file \cup snap[n].claim
  /\ snap' = [snap EXCEPT ![n].claim = {}]
  /\ UNCHANGED <<raw, flushing, merging, unflagged, needCall, calling, generation, settled,
                 object, caches, store>>

SnapshotIndex(n) ==
  /\ SnapshotAt(n, "link", "rows")
  /\ snap' = [snap EXCEPT ![n].ids = file]
  /\ UNCHANGED <<index, object, caches, store>>

\* Then datadb: the rows on disk, and those its own flush takes there.
SnapshotRows(n) ==
  /\ SnapshotAt(n, "rows", "done")
  /\ \E R \in SUBSET volatile :
       /\ snap' = [snap EXCEPT ![n].rows = durable \cup R]
       /\ Store!Persist(R)
  /\ UNCHANGED <<orphans, index, object, caches>>

EndSnapshot(n) ==
  /\ SnapshotAt(n, "done", "idle")
  /\ snap' = [snap EXCEPT ![n] = NoSnap]
  /\ refs' = refs \ {n}
  /\ UNCHANGED <<dir, life, deleted, ops, index, caches, store>>

-----------------------------------------------------------------------------
(* The life of the partition *)

NextOp == ops < MaxOps /\ ops' = ops + 1

\* (mutants) one of the caches has keys without partitionCacheGeneration
BumpForFilters == filterStreamCache' = {} /\ UNCHANGED <<streamIDCache, overtaken>>
BumpForStreamIDs == streamIDCache' = {} /\ UNCHANGED <<filterStreamCache, overtaken>>

BumpPartitionCacheGeneration ==
  streamIDCache' = {} /\ filterStreamCache' = {} /\ UNCHANGED overtaken

\* PartitionDetach(), a watcher and MustClose() take the partition from the list.
Unlist(to) ==
  /\ NextOp
  /\ life = "open"
  /\ life' = to
  /\ deleted' = (deleted \/ to = "dropping")
  /\ UNCHANGED <<dir, refs, index, caches, store, users>>

\* The last user closes it, datadb first.
CloseDatadb ==
  /\ life \in Closing /\ refs = {} /\ mode = "open"
  /\ volatile' = {} /\ durable' = durable \cup volatile /\ mode' = "closed"
  /\ UNCHANGED <<accepted, orphans, object, index, caches, users>>

\* MustClose() of the index waits for its goroutines and flushes what is left.
CloseIndexdb ==
  /\ life \in Closing /\ refs = {} /\ mode = "closed"
  /\ OpenIndexdb(Registered)
  /\ life' = CASE life = "detaching" -> "detached"
               [] life = "dropping"  -> "removing"
               [] life = "stopping"  -> "down"
  /\ dir' = IF life = "dropping" THEN dir \cup {"marker"} ELSE dir
  /\ UNCHANGED <<deleted, refs, ops, caches, store, users>>

\* PartitionDetach() makes the cache entries unreachable before it returns.
EndDetach ==
  /\ life = "detached"
  /\ life' = "absent"
  /\ BumpPartitionCacheGeneration
  /\ UNCHANGED <<dir, deleted, refs, ops, index, store, users>>

\* The contents are gone with the directory.
ForgetContents ==
  /\ OpenIndexdb({})
  /\ durable' = {}
  /\ UNCHANGED <<accepted, volatile, mode, orphans>>

\* MustRemoveDir() removes the entries in any order, but the marker.
RemoveEntry ==
  /\ life = "removing"
  /\ \E e \in dir \cap {"indexdb", "datadb"} : dir' = dir \ {e}
  /\ UNCHANGED <<life, deleted, refs, ops, index, caches, store, users>>

RemoveDir ==
  /\ life = "removing" /\ dir = {"partition", "marker"}
  /\ dir' = {} /\ life' = "absent"
  /\ ForgetContents
  /\ UNCHANGED <<deleted, refs, ops, caches, users>>

\* An external tool removes the directory of a detached partition.
RemoveDetached ==
  /\ life = "absent" /\ dir # {}
  /\ dir' = {}
  /\ ForgetContents
  /\ UNCHANGED <<life, deleted, refs, ops, caches, users>>

\* mustOpenPartition() creates what is missing.
OpenPartition ==
  /\ life' = "open"
  /\ dir' = {"partition", "indexdb", "datadb"}
  /\ OpenIndexdb(file)
  /\ Store!Reopen
  /\ UNCHANGED orphans

PartitionAttach ==
  /\ life = "absent" /\ ~deleted /\ dir # {}
  /\ OpenPartition
  /\ BumpPartitionCacheGeneration
  /\ UNCHANGED <<deleted, refs, ops, users>>

\* Attaching or detaching another partition changes partitionCacheGeneration too.
OtherPartition ==
  /\ NextOp
  /\ life \in Opened
  /\ BumpPartitionCacheGeneration
  /\ UNCHANGED <<dir, life, deleted, refs, index, store, users>>

\* What is in memory is lost, and with it every caller.
Crash ==
  /\ NextOp
  /\ life # "down"
  /\ life' = "down" /\ refs' = {}
  /\ OpenIndexdb(file)
  /\ IF mode = "open" THEN Store!Crash ELSE UNCHANGED <<accepted, volatile, durable, mode>>
  /\ orphans' = orphans \cup {r \in durable : StreamOf(r) \notin file}
  /\ wpc' = [w \in Writer |-> "idle"] /\ wrow' = [w \in Writer |-> <<>>]
  /\ qpc' = [q \in Query |-> "idle"] /\ found' = [q \in Query |-> {}]
  /\ overtaken' = {}
  /\ npc' = [n \in Snapshotter |-> "idle"] /\ snap' = [n \in Snapshotter |-> NoSnap]
  /\ UNCHANGED <<dir, deleted, streamIDCache, filterStreamCache>>

\* MustOpenStorage(): empty and partially removed directories are deleted.
Restart ==
  /\ life = "down"
  /\ deleted' = FALSE
  /\ BumpPartitionCacheGeneration
  /\ IF "marker" \in dir \/ dir \subseteq {"partition"}
     THEN dir' = {} /\ life' = "absent" /\ ForgetContents
     ELSE OpenPartition
  /\ UNCHANGED <<refs, ops, users>>

-----------------------------------------------------------------------------

IndexStep ==
  \/ \E s \in Stream : FlushItems(s) \/ AddPart(s) \/ SetFlag(s)
  \/ TakeFlag \/ CallFlushCallback
  \/ StartMerge \/ FinishMerge
  \/ PersistRows

WriterStep(w) ==
  \/ \E r \in Row : GetPartition(w, r) \/ CreatePartition(w, r)
  \/ CreateDirs(w) \/ OpenCreated(w)
  \/ CheckCache(w) \/ RegisterStream(w) \/ PutToCache(w) \/ AddRow(w)

SnapshotStep(n) ==
  \/ StartSnapshot(n) \/ SnapshotItems(n) \/ SnapshotCallback(n) \/ SnapshotClaim(n)
  \/ SnapshotMerge(n) \/ SnapshotIndex(n) \/ SnapshotRows(n) \/ EndSnapshot(n)

LifeStep ==
  \/ \E to \in Closing : Unlist(to)
  \/ CloseDatadb \/ CloseIndexdb \/ EndDetach
  \/ RemoveEntry \/ RemoveDir \/ RemoveDetached
  \/ PartitionAttach \/ OtherPartition \/ Crash \/ Restart

Next ==
  \/ IndexStep
  \/ \E w \in Writer : WriterStep(w)
  \/ \E q \in Query : MissCache(q) \/ SearchIndex(q) \/ StoreToCache(q)
  \/ CleanCaches
  \/ \E n \in Snapshotter : SnapshotStep(n)
  \/ LifeStep

Spec == Init /\ [][Next]_vars

\* Tickers keep the flushers and the callback worker running.
FairSpec ==
  /\ Spec
  /\ \A s \in Stream : WF_vars(FlushItems(s)) /\ WF_vars(AddPart(s)) /\ WF_vars(SetFlag(s))
  /\ WF_vars(TakeFlag) /\ WF_vars(CallFlushCallback)
  /\ \A n \in Snapshotter : WF_vars(SnapshotCallback(n))

-----------------------------------------------------------------------------
(* Properties *)

PartitionTypeOK ==
  /\ dir \subseteq {"partition", "indexdb", "datadb", "marker"}
  /\ life \in Opened \cup {"absent", "creating", "detached", "removing", "down"}
  /\ deleted \in BOOLEAN /\ refs \subseteq Writer \cup Query \cup Snapshotter /\ ops \in Nat
  /\ raw \subseteq Stream /\ flushing \subseteq Stream /\ imem \subseteq Stream /\ file \subseteq Stream
  /\ merging \subseteq imem /\ unflagged \subseteq Stream /\ settled \subseteq Stream
  /\ needCall \in BOOLEAN /\ calling \in BOOLEAN /\ generation \in {0, 1}
  /\ streamIDCache \subseteq Stream /\ filterStreamCache \subseteq AnswerType
  /\ accepted \subseteq Row /\ volatile \subseteq accepted /\ durable \subseteq accepted
  /\ mode \in {"open", "closed", "crashed"} /\ orphans \subseteq Row
  /\ wpc \in [Writer -> {"idle", "creating", "check", "register", "put", "add"}]
  /\ wrow \in [Writer -> Row \cup {<<>>}]
  /\ qpc \in [Query -> {"idle", "search", "store"}]
  /\ found \in [Query -> SUBSET Stream] /\ overtaken \subseteq Query
  /\ npc \in [Snapshotter -> {"idle", "items", "call", "parts", "merge", "link", "rows", "done"}]
  /\ snap \in [Snapshotter -> [before : SUBSET Row, claim : SUBSET Stream,
                               skipped : SUBSET Stream, ids : SUBSET Stream, rows : SUBSET Row]]

\* A row in the partition can be found by its stream: the stream is registered, unless
\* a crash took it.  streamIDCache must never say otherwise.
RowsHaveStreams ==
  \A r \in (volatile \cup durable) \ orphans : StreamOf(r) \in Registered

\* A cached answer misses a stream which was searchable at the last invalidation
\* only if the search which stored it had been overtaken by that invalidation.
CachedAnswersAreFresh ==
  life = "open" => \A a \in Answers : ~a.late => settled \subseteq a.ids

\* The rows of a snapshot, which were accepted before it started, can be found by
\* their streams in the snapshot, unless the index was flushing or merging the
\* stream when it took its parts: MustCreateSnapshotAt() doesn't wait for those.
SnapshotRowsHaveStreams ==
  \A n \in Snapshotter : npc[n] = "done" =>
    \A r \in (snap[n].rows \cap snap[n].before) \ orphans :
      StreamOf(r) \in snap[n].ids \cup snap[n].skipped

\* Whatever a crash left, mustOpenPartition() doesn't meet datadb without indexdb.
OpenNeverPanics ==
  life \in {"absent", "down"} /\ "marker" \notin dir /\ "datadb" \in dir => "indexdb" \in dir

\* Types; datadb and indexdb agree, in memory and on disk.
PartitionInv == PartitionTypeOK /\ RowsHaveStreams /\ OpenNeverPanics

\* "The stream tags must become visible in a few seconds", in filters too.
StreamsSettle ==
  \A s \in Stream : s \in raw ~> (s \in settled \/ mode # "open")
=============================================================================
