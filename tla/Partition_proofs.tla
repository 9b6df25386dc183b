-------------------------- MODULE Partition_proofs --------------------------
(***************************************************************************)
(* Theorems about Partition, for every set of streams, rows, writers,      *)
(* searches and snapshots and for every bound: rows can be found by their  *)
(* streams, in the partition and in its snapshots, and cached answers are  *)
(* fresh.  The inductive invariant IInv says what a user of the partition  *)
(* may rely on at each of its steps.                                       *)
(***************************************************************************)
EXTENDS Partition, TLAPS

\* datadb is open exactly while somebody may use it, and what isn't open has
\* nothing in memory.
LifeInv ==
  /\ life = "open" => mode = "open"
  /\ mode = "open" => life \in Opened
  /\ refs # {} => mode = "open"
  /\ mode # "open" => volatile = {}
  /\ life \notin Opened => raw = {} /\ flushing = {} /\ imem = {}
  /\ life \in {"dropping", "removing"} => deleted

\* Searches and snapshots hold the partition until they have finished.
HoldInv ==
  /\ \A q \in Query : qpc[q] # "idle" => q \in refs
  /\ \A n \in Snapshotter : npc[n] # "idle" => n \in refs

\* Directories are made and removed so that datadb is never without indexdb, and
\* there are no rows without a directory.
DirInv ==
  /\ life \in Opened => dir # {}
  /\ "datadb" \in dir /\ "marker" \notin dir => "indexdb" \in dir
  /\ life = "removing" => "marker" \in dir
  /\ dir = {} \/ life = "creating" => durable = {}

\* The caches of a partition which is about to be created are empty, and
\* streamIDCache has only streams which indexdb has.
CacheInv ==
  /\ life = "creating" \/ (life = "absent" /\ ~deleted) =>
       streamIDCache = {} /\ filterStreamCache = {}
  /\ life \in Opened => streamIDCache \subseteq Registered

\* Writers hold the partition, and have registered the stream of the row they add;
\* one writer at most creates the partition.
WriterInv ==
  \A w \in Writer :
    /\ wpc[w] # "idle" => wrow[w] \in Row
    /\ wpc[w] \in {"check", "register", "put", "add"} => w \in refs
    /\ wpc[w] \in {"put", "add"} => StreamOf(wrow[w]) \in Registered
    /\ wpc[w] = "creating" =>
         life = "creating" /\ \A v \in Writer : wpc[v] = "creating" => v = w

\* No two merges have the same part.
MergeInv == \A n \in Snapshotter : snap[n].claim \cap merging = {}

\* The inductive invariant of PartitionCorrect.
IInv == PartitionInv /\ LifeInv /\ HoldInv /\ DirInv /\ CacheInv /\ WriterInv /\ MergeInv

\* An answer in the cache, or about to be stored there, which no invalidation has
\* overtaken has every stream which was searchable at the last invalidation.
AnswerInv ==
  life \in Opened =>
    /\ settled \subseteq Visible
    /\ \A a \in Answers : ~a.late => settled \subseteq a.ids
    /\ \A q \in Query : qpc[q] = "store" /\ q \notin overtaken => settled \subseteq found[q]

\* Where the streams of the rows which were accepted before the snapshot are at each
\* of its steps.
SnapshotInv ==
  \A n \in Snapshotter :
    /\ npc[n] \in {"idle", "items"} => snap[n].skipped = {}
    /\ \A r \in snap[n].before \ orphans :
         \/ StreamOf(r) \in snap[n].skipped
         \/ npc[n] = "items" /\ StreamOf(r) \in Registered
         \/ npc[n] \in {"call", "parts"} /\ StreamOf(r) \in Visible
         \/ npc[n] = "merge" /\ StreamOf(r) \in snap[n].claim \cup file
         \/ npc[n] = "link" /\ StreamOf(r) \in file
         \/ npc[n] \in {"rows", "done"} /\ StreamOf(r) \in snap[n].ids
-----------------------------------------------------------------------------

\* What a snapshot keeps.
SnapType == [before : SUBSET Row, claim : SUBSET Stream,
             skipped : SUBSET Stream, ids : SUBSET Stream, rows : SUBSET Row]

\* No action of users, merges, restarts or crashes breaks the types.
LEMMA TypeNext ==
  PartitionTypeOK /\ WriterInv /\ MergeInv /\ [Next]_vars => PartitionTypeOK'
<1> SUFFICES ASSUME PartitionTypeOK, WriterInv, MergeInv, [Next]_vars PROVE PartitionTypeOK'
  OBVIOUS
<1> USE DEF PartitionTypeOK, WriterInv, MergeInv, AnswerType, Answers, disk, index, caches,
            store, object, users, Opened, Closing, Visible, Registered
<1>1. ASSUME NEW s \in Stream, FlushItems(s) PROVE PartitionTypeOK'
  BY <1>1 DEF FlushItems
<1>2. ASSUME NEW s \in Stream, AddPart(s) PROVE PartitionTypeOK'
  BY <1>2 DEF AddPart
<1>3. ASSUME NEW s \in Stream, SetFlag(s) PROVE PartitionTypeOK'
  BY <1>3 DEF SetFlag
<1>4. CASE TakeFlag
  BY <1>4 DEF TakeFlag
<1>5. CASE CallFlushCallback
  BY <1>5 DEF CallFlushCallback, InvalidateStreamFilterCache
<1>6. CASE StartMerge
  BY <1>6 DEF StartMerge
<1>7. CASE FinishMerge
  BY <1>7 DEF FinishMerge
<1>8. CASE PersistRows
  BY <1>8 DEF PersistRows, Store!Persist
<1>9. ASSUME NEW w \in Writer, NEW r \in Row, GetPartition(w, r) PROVE PartitionTypeOK'
  BY <1>9 DEF GetPartition, NewUser
<1>10. ASSUME NEW w \in Writer, NEW r \in Row, CreatePartition(w, r) PROVE PartitionTypeOK'
  BY <1>10 DEF CreatePartition
<1>11. ASSUME NEW w \in Writer, CreateDirs(w) PROVE PartitionTypeOK'
  BY <1>11 DEF CreateDirs
<1>12. ASSUME NEW w \in Writer, OpenCreated(w) PROVE PartitionTypeOK'
  BY <1>12 DEF OpenCreated, OpenIndexdb, Store!Reopen
<1>13. ASSUME NEW w \in Writer, CheckCache(w) PROVE PartitionTypeOK'
  BY <1>13 DEF CheckCache, WriterAt
<1>14. ASSUME NEW w \in Writer, RegisterStream(w) PROVE PartitionTypeOK'
  BY <1>14 DEF RegisterStream, WriterAt, Row, StreamOf
<1>15. ASSUME NEW w \in Writer, PutToCache(w) PROVE PartitionTypeOK'
  BY <1>15 DEF PutToCache, WriterAt
<1>16. ASSUME NEW w \in Writer, AddRow(w) PROVE PartitionTypeOK'
  BY <1>16 DEF AddRow, Store!AcceptVisible
<1>17. ASSUME NEW q \in Query, MissCache(q) PROVE PartitionTypeOK'
  BY <1>17 DEF MissCache, NewUser
<1>18. ASSUME NEW q \in Query, SearchIndex(q) PROVE PartitionTypeOK'
  BY <1>18 DEF SearchIndex
<1>19. ASSUME NEW q \in Query, StoreToCache(q) PROVE PartitionTypeOK'
  BY <1>19 DEF StoreToCache
<1>20. CASE CleanCaches
  BY <1>20 DEF CleanCaches
<1>21. ASSUME NEW n \in Snapshotter, StartSnapshot(n) PROVE PartitionTypeOK'
  BY <1>21 DEF StartSnapshot, SnapshotAt, NewUser
<1>22. ASSUME NEW n \in Snapshotter, SnapshotItems(n) PROVE PartitionTypeOK'
  BY <1>22, SMTT(30) DEF SnapshotItems, SnapshotAt
<1>23. ASSUME NEW n \in Snapshotter, SnapshotCallback(n) PROVE PartitionTypeOK'
  BY <1>23 DEF SnapshotCallback, SnapshotAt, InvalidateStreamFilterCache
<1>24. ASSUME NEW n \in Snapshotter, SnapshotClaim(n) PROVE PartitionTypeOK'
  <2>1. PICK C \in SUBSET Stream, K \in SUBSET Stream :
          snap' = [snap EXCEPT ![n].claim = C, ![n].skipped = K]
    BY <1>24 DEF SnapshotClaim
  <2>2. snap' \in [Snapshotter -> SnapType]
    <3> DEFINE claimed == [snap EXCEPT ![n].claim = C]
    <3>1. claimed \in [Snapshotter -> SnapType]
      BY DEF SnapType
    <3>2. snap' = [claimed EXCEPT ![n].skipped = K]
      BY <2>1
    <3> HIDE DEF claimed
    <3>3. claimed[n] \in SnapType
      BY <3>1
    <3>4. [claimed[n] EXCEPT !.skipped = K] \in SnapType
      BY <3>3 DEF SnapType
    <3> QED BY <3>1, <3>2, <3>4
  <2>3. QED BY <1>24, <2>2 DEF SnapshotClaim, SnapshotAt, SnapType
<1>25. ASSUME NEW n \in Snapshotter, SnapshotMerge(n) PROVE PartitionTypeOK'
  BY <1>25, SMTT(30) DEF SnapshotMerge, SnapshotAt
<1>26. ASSUME NEW n \in Snapshotter, SnapshotIndex(n) PROVE PartitionTypeOK'
  <2>1. snap' \in [Snapshotter -> SnapType]
    BY <1>26 DEF SnapshotIndex, SnapshotAt, SnapType
  <2>2. QED BY <1>26, <2>1 DEF SnapshotIndex, SnapshotAt, SnapType
<1>27. ASSUME NEW n \in Snapshotter, SnapshotRows(n) PROVE PartitionTypeOK'
  BY <1>27 DEF SnapshotRows, SnapshotAt, Store!Persist
<1>28. ASSUME NEW n \in Snapshotter, EndSnapshot(n) PROVE PartitionTypeOK'
  BY <1>28 DEF EndSnapshot, SnapshotAt, NoSnap
<1>29. ASSUME NEW to \in Closing, Unlist(to) PROVE PartitionTypeOK'
  BY <1>29 DEF Unlist, NextOp
<1>30. CASE CloseDatadb
  BY <1>30 DEF CloseDatadb
<1>31. CASE CloseIndexdb
  BY <1>31 DEF CloseIndexdb, OpenIndexdb
<1>32. CASE EndDetach
  BY <1>32 DEF EndDetach, BumpPartitionCacheGeneration
<1>33. CASE RemoveEntry
  BY <1>33 DEF RemoveEntry
<1>34. CASE RemoveDir
  BY <1>34 DEF RemoveDir, ForgetContents, OpenIndexdb
<1>35. CASE RemoveDetached
  BY <1>35 DEF RemoveDetached, ForgetContents, OpenIndexdb
<1>36. CASE PartitionAttach
  BY <1>36 DEF PartitionAttach, OpenPartition, OpenIndexdb, Store!Reopen, BumpPartitionCacheGeneration
<1>37. CASE OtherPartition
  BY <1>37 DEF OtherPartition, NextOp, BumpPartitionCacheGeneration
<1>38. CASE Crash
  <2>1. /\ accepted' \subseteq Row /\ volatile' \subseteq accepted' /\ durable' \subseteq accepted'
        /\ mode' \in {"open", "closed", "crashed"} /\ orphans' \subseteq Row
    BY <1>38 DEF Crash, Store!Crash
  <2>2. /\ wpc' \in [Writer -> {"idle", "creating", "check", "register", "put", "add"}]
        /\ wrow' \in [Writer -> Row \cup {<<>>}]
        /\ qpc' \in [Query -> {"idle", "search", "store"}]
        /\ found' \in [Query -> SUBSET Stream] /\ overtaken' \subseteq Query
        /\ npc' \in [Snapshotter ->
                       {"idle", "items", "call", "parts", "merge", "link", "rows", "done"}]
    BY <1>38 DEF Crash
  <2>3. snap' \in [Snapshotter -> SnapType]
    BY <1>38 DEF Crash, NoSnap, SnapType
  <2>4. /\ dir' \subseteq {"partition", "indexdb", "datadb", "marker"}
        /\ life' = "down" /\ deleted' \in BOOLEAN /\ refs' = {} /\ ops' \in Nat
    BY <1>38 DEF Crash, NextOp, OpenIndexdb
  <2>6. /\ raw' \subseteq Stream /\ flushing' \subseteq Stream /\ imem' \subseteq Stream
        /\ file' \subseteq Stream /\ merging' \subseteq imem' /\ unflagged' \subseteq Stream
        /\ settled' \subseteq Stream /\ needCall' \in BOOLEAN /\ calling' \in BOOLEAN
        /\ generation' \in {0, 1}
    BY <1>38 DEF Crash, NextOp, OpenIndexdb
  <2>5. streamIDCache' \subseteq Stream /\ filterStreamCache' \subseteq AnswerType
    BY <1>38 DEF Crash
  <2> QED BY <2>1, <2>2, <2>3, <2>4, <2>5, <2>6 DEF SnapType
<1>39. CASE Restart
  BY <1>39 DEF Restart, OpenPartition, ForgetContents, OpenIndexdb, Store!Reopen, BumpPartitionCacheGeneration
<1>40. CASE UNCHANGED vars
  BY <1>40 DEF vars
<1> QED
  BY <1>1, <1>2, <1>3, <1>4, <1>5, <1>6, <1>7, <1>8, <1>9, <1>10, <1>11, <1>12, <1>13, <1>14,
     <1>15, <1>16, <1>17, <1>18, <1>19, <1>20, <1>21, <1>22, <1>23, <1>24, <1>25, <1>26, <1>27,
     <1>28, <1>29, <1>30, <1>31, <1>32, <1>33, <1>34, <1>35, <1>36, <1>37, <1>38, <1>39, <1>40
  DEF Next, IndexStep, WriterStep, SnapshotStep, LifeStep

\* Datadb is closed only when the last user has gone.
LEMMA LifeNext ==
  PartitionTypeOK /\ LifeInv /\ WriterInv /\ MergeInv /\ [Next]_vars => LifeInv'
<1> SUFFICES ASSUME PartitionTypeOK, LifeInv, WriterInv, MergeInv, [Next]_vars PROVE LifeInv'
  OBVIOUS
<1> USE DEF PartitionTypeOK, LifeInv, WriterInv, MergeInv, disk, index, caches, store, object,
            users, Opened, Closing, Visible, Registered
<1>1. CASE UNCHANGED <<life, mode, refs, volatile, raw, flushing, imem, deleted>>
  BY <1>1
<1>2. ASSUME NEW s \in Stream, FlushItems(s) PROVE LifeInv'
  BY <1>2 DEF FlushItems
<1>3. ASSUME NEW s \in Stream, AddPart(s) PROVE LifeInv'
  BY <1>3 DEF AddPart
<1>4. CASE FinishMerge
  BY <1>4 DEF FinishMerge
<1>5. CASE PersistRows
  BY <1>5 DEF PersistRows, Store!Persist
<1>6. ASSUME NEW w \in Writer, NEW r \in Row, GetPartition(w, r) PROVE LifeInv'
  BY <1>6 DEF GetPartition, NewUser
<1>7. ASSUME NEW w \in Writer, NEW r \in Row, CreatePartition(w, r) PROVE LifeInv'
  BY <1>7 DEF CreatePartition
<1>8. ASSUME NEW w \in Writer, OpenCreated(w) PROVE LifeInv'
  BY <1>8 DEF OpenCreated, OpenIndexdb, Store!Reopen
<1>9. ASSUME NEW w \in Writer, RegisterStream(w) PROVE LifeInv'
  BY <1>9 DEF RegisterStream, WriterAt
<1>10. ASSUME NEW w \in Writer, AddRow(w) PROVE LifeInv'
  BY <1>10 DEF AddRow, Store!AcceptVisible
<1>11. ASSUME NEW q \in Query, MissCache(q) PROVE LifeInv'
  BY <1>11 DEF MissCache, NewUser
<1>12. ASSUME NEW q \in Query, StoreToCache(q) PROVE LifeInv'
  BY <1>12 DEF StoreToCache
<1>13. ASSUME NEW n \in Snapshotter, StartSnapshot(n) PROVE LifeInv'
  BY <1>13 DEF StartSnapshot, SnapshotAt, NewUser
<1>14. ASSUME NEW n \in Snapshotter, SnapshotItems(n) PROVE LifeInv'
  BY <1>14 DEF SnapshotItems, SnapshotAt
<1>15. ASSUME NEW n \in Snapshotter, SnapshotMerge(n) PROVE LifeInv'
  BY <1>15 DEF SnapshotMerge, SnapshotAt
<1>16. ASSUME NEW n \in Snapshotter, SnapshotRows(n) PROVE LifeInv'
  BY <1>16 DEF SnapshotRows, SnapshotAt, Store!Persist
<1>17. ASSUME NEW n \in Snapshotter, EndSnapshot(n) PROVE LifeInv'
  BY <1>17 DEF EndSnapshot, SnapshotAt, NoSnap
<1>18. ASSUME NEW to \in Closing, Unlist(to) PROVE LifeInv'
  BY <1>18 DEF Unlist, NextOp
<1>19. CASE CloseDatadb
  BY <1>19 DEF CloseDatadb
<1>20. CASE CloseIndexdb
  BY <1>20 DEF CloseIndexdb, OpenIndexdb
<1>21. CASE EndDetach
  BY <1>21 DEF EndDetach, BumpPartitionCacheGeneration
<1>22. CASE RemoveDir
  BY <1>22 DEF RemoveDir, ForgetContents, OpenIndexdb
<1>23. CASE RemoveDetached
  BY <1>23 DEF RemoveDetached, ForgetContents, OpenIndexdb
<1>24. CASE PartitionAttach
  BY <1>24 DEF PartitionAttach, OpenPartition, OpenIndexdb, Store!Reopen, BumpPartitionCacheGeneration
<1>25. CASE Crash
  BY <1>25 DEF Crash, NextOp, OpenIndexdb, Store!Crash, NoSnap
<1>26. CASE Restart
  BY <1>26 DEF Restart, OpenPartition, ForgetContents, OpenIndexdb, Store!Reopen, BumpPartitionCacheGeneration
<1> QED
  BY <1>1, <1>2, <1>3, <1>4, <1>5, <1>6, <1>7, <1>8, <1>9, <1>10, <1>11, <1>12, <1>13, <1>14,
     <1>15, <1>16, <1>17, <1>18, <1>19, <1>20, <1>21, <1>22, <1>23, <1>24, <1>25, <1>26
  DEF Next, IndexStep, WriterStep, SnapshotStep, LifeStep, SetFlag, TakeFlag,
      CallFlushCallback, InvalidateStreamFilterCache, StartMerge, CreateDirs, CheckCache,
      WriterAt, PutToCache, SearchIndex, CleanCaches, SnapshotCallback, SnapshotAt,
      SnapshotClaim, SnapshotIndex, RemoveEntry, OtherPartition, NextOp,
      BumpPartitionCacheGeneration, vars

\* Nobody gives back the reference of somebody else.
LEMMA HoldNext ==
  PartitionTypeOK /\ LifeInv /\ WriterInv /\ HoldInv /\ [Next]_vars => HoldInv'
<1> SUFFICES ASSUME PartitionTypeOK, LifeInv, WriterInv, HoldInv, [Next]_vars PROVE HoldInv'
  OBVIOUS
<1> USE DEF PartitionTypeOK, LifeInv, WriterInv, HoldInv, disk, index, caches, store, object,
            users, Opened, Closing, Visible, Registered
<1>1. CASE UNCHANGED <<refs, qpc, npc>>
  BY <1>1
<1>2. ASSUME NEW w \in Writer, NEW r \in Row, GetPartition(w, r) PROVE HoldInv'
  BY <1>2 DEF GetPartition, NewUser
<1>3. ASSUME NEW w \in Writer, OpenCreated(w) PROVE HoldInv'
  BY <1>3 DEF OpenCreated, OpenIndexdb, Store!Reopen
<1>4. ASSUME NEW w \in Writer, AddRow(w) PROVE HoldInv'
  BY <1>4, UserAssumption DEF AddRow, Store!AcceptVisible
<1>5. ASSUME NEW q \in Query, MissCache(q) PROVE HoldInv'
  BY <1>5 DEF MissCache, NewUser
<1>6. ASSUME NEW q \in Query, SearchIndex(q) PROVE HoldInv'
  BY <1>6 DEF SearchIndex
<1>7. ASSUME NEW q \in Query, StoreToCache(q) PROVE HoldInv'
  BY <1>7, UserAssumption DEF StoreToCache
<1>8. ASSUME NEW n \in Snapshotter, StartSnapshot(n) PROVE HoldInv'
  BY <1>8 DEF StartSnapshot, SnapshotAt, NewUser
<1>9. ASSUME NEW n \in Snapshotter, SnapshotItems(n) PROVE HoldInv'
  BY <1>9 DEF SnapshotItems, SnapshotAt
<1>10. ASSUME NEW n \in Snapshotter, SnapshotCallback(n) PROVE HoldInv'
  BY <1>10 DEF SnapshotCallback, SnapshotAt, InvalidateStreamFilterCache
<1>11. ASSUME NEW n \in Snapshotter, SnapshotClaim(n) PROVE HoldInv'
  BY <1>11 DEF SnapshotClaim, SnapshotAt
<1>12. ASSUME NEW n \in Snapshotter, SnapshotMerge(n) PROVE HoldInv'
  BY <1>12 DEF SnapshotMerge, SnapshotAt
<1>13. ASSUME NEW n \in Snapshotter, SnapshotIndex(n) PROVE HoldInv'
  BY <1>13 DEF SnapshotIndex, SnapshotAt
<1>14. ASSUME NEW n \in Snapshotter, SnapshotRows(n) PROVE HoldInv'
  BY <1>14 DEF SnapshotRows, SnapshotAt, Store!Persist
<1>15. ASSUME NEW n \in Snapshotter, EndSnapshot(n) PROVE HoldInv'
  BY <1>15, UserAssumption DEF EndSnapshot, SnapshotAt, NoSnap
<1>16. CASE Crash
  BY <1>16 DEF Crash, NextOp, OpenIndexdb, Store!Crash, NoSnap
<1> QED
  BY <1>1, <1>2, <1>3, <1>4, <1>5, <1>6, <1>7, <1>8, <1>9, <1>10, <1>11, <1>12, <1>13, <1>14,
     <1>15, <1>16
  DEF Next, IndexStep, WriterStep, SnapshotStep, LifeStep, FlushItems, AddPart, SetFlag,
      TakeFlag, CallFlushCallback, InvalidateStreamFilterCache, StartMerge, FinishMerge,
      PersistRows, Store!Persist, CreatePartition, CreateDirs, CheckCache, WriterAt,
      RegisterStream, PutToCache, CleanCaches, Unlist, NextOp, CloseDatadb, CloseIndexdb,
      OpenIndexdb, EndDetach, BumpPartitionCacheGeneration, RemoveEntry, RemoveDir,
      ForgetContents, RemoveDetached, PartitionAttach, OpenPartition, Store!Reopen,
      OtherPartition, Restart, vars

\* Directories are made, removed and completed in the right order.
LEMMA DirNext ==
  PartitionTypeOK /\ LifeInv /\ DirInv /\ [Next]_vars => DirInv'
<1> SUFFICES ASSUME PartitionTypeOK, LifeInv, DirInv, [Next]_vars PROVE DirInv'
  OBVIOUS
<1> USE DEF PartitionTypeOK, LifeInv, DirInv, disk, index, caches, store, object, users,
            Opened, Closing, Visible, Registered
<1>1. CASE UNCHANGED <<dir, life, durable>>
  BY <1>1
<1>2. CASE PersistRows
  BY <1>2 DEF PersistRows, Store!Persist
<1>3. ASSUME NEW w \in Writer, NEW r \in Row, CreatePartition(w, r) PROVE DirInv'
  BY <1>3 DEF CreatePartition
<1>4. ASSUME NEW w \in Writer, CreateDirs(w) PROVE DirInv'
  BY <1>4 DEF CreateDirs
<1>5. ASSUME NEW w \in Writer, OpenCreated(w) PROVE DirInv'
  BY <1>5 DEF OpenCreated, OpenIndexdb, Store!Reopen
<1>6. ASSUME NEW n \in Snapshotter, SnapshotRows(n) PROVE DirInv'
  BY <1>6 DEF SnapshotRows, SnapshotAt, Store!Persist
<1>7. ASSUME NEW to \in Closing, Unlist(to) PROVE DirInv'
  BY <1>7 DEF Unlist, NextOp
<1>8. CASE CloseDatadb
  BY <1>8 DEF CloseDatadb
<1>9. CASE CloseIndexdb
  BY <1>9 DEF CloseIndexdb, OpenIndexdb
<1>10. CASE EndDetach
  BY <1>10 DEF EndDetach, BumpPartitionCacheGeneration
<1>11. CASE RemoveEntry
  BY <1>11 DEF RemoveEntry
<1>12. CASE RemoveDir
  BY <1>12 DEF RemoveDir, ForgetContents, OpenIndexdb
<1>13. CASE RemoveDetached
  BY <1>13 DEF RemoveDetached, ForgetContents, OpenIndexdb
<1>14. CASE PartitionAttach
  BY <1>14 DEF PartitionAttach, OpenPartition, OpenIndexdb, Store!Reopen, BumpPartitionCacheGeneration
<1>15. CASE Crash
  BY <1>15 DEF Crash, NextOp, OpenIndexdb, Store!Crash, NoSnap
<1>16. CASE Restart
  BY <1>16 DEF Restart, OpenPartition, ForgetContents, OpenIndexdb, Store!Reopen, BumpPartitionCacheGeneration
<1> QED
  BY <1>1, <1>2, <1>3, <1>4, <1>5, <1>6, <1>7, <1>8, <1>9, <1>10, <1>11, <1>12, <1>13, <1>14,
     <1>15, <1>16
  DEF Next, IndexStep, WriterStep, SnapshotStep, LifeStep, FlushItems, AddPart, SetFlag,
      TakeFlag, CallFlushCallback, InvalidateStreamFilterCache, StartMerge, FinishMerge,
      GetPartition, NewUser, CheckCache, WriterAt, RegisterStream, PutToCache, AddRow,
      Store!AcceptVisible, MissCache, SearchIndex, StoreToCache, CleanCaches, StartSnapshot,
      SnapshotAt, SnapshotItems, SnapshotCallback, SnapshotClaim, SnapshotMerge, SnapshotIndex,
      EndSnapshot, NoSnap, OtherPartition, NextOp, BumpPartitionCacheGeneration, vars

\* Nothing which streamIDCache has leaves indexdb while the partition is open.
LEMMA CacheNext ==
  PartitionTypeOK /\ LifeInv /\ HoldInv /\ WriterInv /\ CacheInv /\ [Next]_vars => CacheInv'
<1> SUFFICES ASSUME PartitionTypeOK, LifeInv, HoldInv, WriterInv, CacheInv, [Next]_vars PROVE CacheInv'
  OBVIOUS
<1> USE DEF PartitionTypeOK, LifeInv, HoldInv, WriterInv, CacheInv, disk, index, caches, store,
            object, users, Opened, Closing, Visible, Registered
<1>1. CASE UNCHANGED <<life, deleted, streamIDCache, filterStreamCache, raw, flushing, imem, file>>
  BY <1>1
<1>2. ASSUME NEW s \in Stream, FlushItems(s) PROVE CacheInv'
  BY <1>2 DEF FlushItems
<1>3. ASSUME NEW s \in Stream, AddPart(s) PROVE CacheInv'
  BY <1>3 DEF AddPart
<1>4. CASE CallFlushCallback
  BY <1>4 DEF CallFlushCallback, InvalidateStreamFilterCache
<1>5. CASE FinishMerge
  BY <1>5 DEF FinishMerge
<1>6. ASSUME NEW w \in Writer, NEW r \in Row, CreatePartition(w, r) PROVE CacheInv'
  BY <1>6 DEF CreatePartition
<1>7. ASSUME NEW w \in Writer, OpenCreated(w) PROVE CacheInv'
  BY <1>7 DEF OpenCreated, OpenIndexdb, Store!Reopen
<1>8. ASSUME NEW w \in Writer, RegisterStream(w) PROVE CacheInv'
  BY <1>8 DEF RegisterStream, WriterAt
<1>9. ASSUME NEW w \in Writer, PutToCache(w) PROVE CacheInv'
  BY <1>9 DEF PutToCache, WriterAt
<1>10. ASSUME NEW q \in Query, StoreToCache(q) PROVE CacheInv'
  BY <1>10 DEF StoreToCache
<1>11. CASE CleanCaches
  BY <1>11 DEF CleanCaches
<1>12. ASSUME NEW n \in Snapshotter, SnapshotItems(n) PROVE CacheInv'
  BY <1>12 DEF SnapshotItems, SnapshotAt
<1>13. ASSUME NEW n \in Snapshotter, SnapshotCallback(n) PROVE CacheInv'
  BY <1>13 DEF SnapshotCallback, SnapshotAt, InvalidateStreamFilterCache
<1>14. ASSUME NEW n \in Snapshotter, SnapshotMerge(n) PROVE CacheInv'
  BY <1>14 DEF SnapshotMerge, SnapshotAt
<1>15. ASSUME NEW to \in Closing, Unlist(to) PROVE CacheInv'
  BY <1>15 DEF Unlist, NextOp
<1>16. CASE CloseIndexdb
  BY <1>16 DEF CloseIndexdb, OpenIndexdb
<1>17. CASE EndDetach
  BY <1>17 DEF EndDetach, BumpPartitionCacheGeneration
<1>18. CASE RemoveDir
  BY <1>18 DEF RemoveDir, ForgetContents, OpenIndexdb
<1>19. CASE RemoveDetached
  BY <1>19 DEF RemoveDetached, ForgetContents, OpenIndexdb
<1>20. CASE PartitionAttach
  BY <1>20 DEF PartitionAttach, OpenPartition, OpenIndexdb, Store!Reopen, BumpPartitionCacheGeneration
<1>21. CASE OtherPartition
  BY <1>21 DEF OtherPartition, NextOp, BumpPartitionCacheGeneration
<1>22. CASE Crash
  BY <1>22 DEF Crash, NextOp, OpenIndexdb, Store!Crash, NoSnap
<1>23. CASE Restart
  BY <1>23 DEF Restart, OpenPartition, ForgetContents, OpenIndexdb, Store!Reopen, BumpPartitionCacheGeneration
<1> QED
  BY <1>1, <1>2, <1>3, <1>4, <1>5, <1>6, <1>7, <1>8, <1>9, <1>10, <1>11, <1>12, <1>13, <1>14,
     <1>15, <1>16, <1>17, <1>18, <1>19, <1>20, <1>21, <1>22, <1>23
  DEF Next, IndexStep, WriterStep, SnapshotStep, LifeStep, SetFlag, TakeFlag, StartMerge,
      PersistRows, Store!Persist, GetPartition, NewUser, CreateDirs, CheckCache, WriterAt,
      AddRow, Store!AcceptVisible, MissCache, SearchIndex, StartSnapshot, SnapshotAt,
      SnapshotClaim, SnapshotIndex, SnapshotRows, EndSnapshot, NoSnap, CloseDatadb,
      RemoveEntry, vars

\* A stream stays registered until the writer has added the row.
LEMMA WriterNext ==
  PartitionTypeOK /\ LifeInv /\ CacheInv /\ WriterInv /\ [Next]_vars => WriterInv'
<1> SUFFICES ASSUME PartitionTypeOK, LifeInv, CacheInv, WriterInv, [Next]_vars PROVE WriterInv'
  OBVIOUS
<1> USE DEF PartitionTypeOK, LifeInv, CacheInv, WriterInv, disk, index, caches, store, object,
            users, Opened, Closing, Visible, Registered
<1>1. CASE UNCHANGED <<wpc, wrow, refs, life, raw, flushing, imem, file>>
  BY <1>1
<1>2. ASSUME NEW s \in Stream, FlushItems(s) PROVE WriterInv'
  BY <1>2 DEF FlushItems
<1>3. ASSUME NEW s \in Stream, AddPart(s) PROVE WriterInv'
  BY <1>3 DEF AddPart
<1>4. CASE FinishMerge
  BY <1>4 DEF FinishMerge
<1>5. ASSUME NEW w \in Writer, NEW r \in Row, GetPartition(w, r) PROVE WriterInv'
  BY <1>5 DEF GetPartition, NewUser
<1>6. ASSUME NEW w \in Writer, NEW r \in Row, CreatePartition(w, r) PROVE WriterInv'
  BY <1>6 DEF CreatePartition
<1>7. ASSUME NEW w \in Writer, OpenCreated(w) PROVE WriterInv'
  BY <1>7 DEF OpenCreated, OpenIndexdb, Store!Reopen
<1>8. ASSUME NEW w \in Writer, CheckCache(w) PROVE WriterInv'
  BY <1>8 DEF CheckCache, WriterAt
<1>9. ASSUME NEW w \in Writer, RegisterStream(w) PROVE WriterInv'
  BY <1>9 DEF RegisterStream, WriterAt
<1>10. ASSUME NEW w \in Writer, PutToCache(w) PROVE WriterInv'
  BY <1>10 DEF PutToCache, WriterAt
<1>11. ASSUME NEW w \in Writer, AddRow(w) PROVE WriterInv'
  BY <1>11 DEF AddRow, Store!AcceptVisible
<1>12. ASSUME NEW q \in Query, MissCache(q) PROVE WriterInv'
  BY <1>12 DEF MissCache, NewUser
<1>13. ASSUME NEW q \in Query, StoreToCache(q) PROVE WriterInv'
  BY <1>13, UserAssumption DEF StoreToCache
<1>14. ASSUME NEW n \in Snapshotter, StartSnapshot(n) PROVE WriterInv'
  BY <1>14 DEF StartSnapshot, SnapshotAt, NewUser
<1>15. ASSUME NEW n \in Snapshotter, SnapshotItems(n) PROVE WriterInv'
  BY <1>15 DEF SnapshotItems, SnapshotAt
<1>16. ASSUME NEW n \in Snapshotter, SnapshotMerge(n) PROVE WriterInv'
  BY <1>16 DEF SnapshotMerge, SnapshotAt
<1>17. ASSUME NEW n \in Snapshotter, EndSnapshot(n) PROVE WriterInv'
  BY <1>17, UserAssumption DEF EndSnapshot, SnapshotAt, NoSnap
<1>18. ASSUME NEW to \in Closing, Unlist(to) PROVE WriterInv'
  BY <1>18 DEF Unlist, NextOp
<1>19. CASE CloseIndexdb
  BY <1>19 DEF CloseIndexdb, OpenIndexdb
<1>20. CASE EndDetach
  BY <1>20 DEF EndDetach, BumpPartitionCacheGeneration
<1>21. CASE RemoveDir
  BY <1>21 DEF RemoveDir, ForgetContents, OpenIndexdb
<1>22. CASE RemoveDetached
  BY <1>22 DEF RemoveDetached, ForgetContents, OpenIndexdb
<1>23. CASE PartitionAttach
  BY <1>23 DEF PartitionAttach, OpenPartition, OpenIndexdb, Store!Reopen, BumpPartitionCacheGeneration
<1>24. CASE Crash
  BY <1>24 DEF Crash, NextOp, OpenIndexdb, Store!Crash, NoSnap
<1>25. CASE Restart
  BY <1>25 DEF Restart, OpenPartition, ForgetContents, OpenIndexdb, Store!Reopen, BumpPartitionCacheGeneration
<1> QED
  BY <1>1, <1>2, <1>3, <1>4, <1>5, <1>6, <1>7, <1>8, <1>9, <1>10, <1>11, <1>12, <1>13, <1>14,
     <1>15, <1>16, <1>17, <1>18, <1>19, <1>20, <1>21, <1>22, <1>23, <1>24, <1>25
  DEF Next, IndexStep, WriterStep, SnapshotStep, LifeStep, SetFlag, TakeFlag,
      CallFlushCallback, InvalidateStreamFilterCache, StartMerge, PersistRows, Store!Persist,
      CreateDirs, SearchIndex, CleanCaches, SnapshotCallback, SnapshotAt, SnapshotClaim,
      SnapshotIndex, SnapshotRows, CloseDatadb, RemoveEntry, OtherPartition, NextOp,
      BumpPartitionCacheGeneration, vars

\* Merges and snapshots claim only what nobody else has claimed.
LEMMA MergeNext ==
  PartitionTypeOK /\ MergeInv /\ [Next]_vars => MergeInv'
<1> SUFFICES ASSUME PartitionTypeOK, MergeInv, [Next]_vars PROVE MergeInv'
  OBVIOUS
<1> USE DEF PartitionTypeOK, MergeInv, Claimed, disk, index, caches, store, object, users,
            Opened, Closing, Visible, Registered
<1>1. CASE UNCHANGED <<snap, merging>>
  BY <1>1
<1>2. CASE StartMerge
  BY <1>2 DEF StartMerge
<1>3. CASE FinishMerge
  BY <1>3 DEF FinishMerge
<1>4. ASSUME NEW w \in Writer, OpenCreated(w) PROVE MergeInv'
  BY <1>4 DEF OpenCreated, OpenIndexdb, Store!Reopen
<1>5. ASSUME NEW n \in Snapshotter, StartSnapshot(n) PROVE MergeInv'
  BY <1>5 DEF StartSnapshot, SnapshotAt, NewUser
<1>6. ASSUME NEW n \in Snapshotter, SnapshotItems(n) PROVE MergeInv'
  BY <1>6 DEF SnapshotItems, SnapshotAt
<1>7. ASSUME NEW n \in Snapshotter, SnapshotClaim(n) PROVE MergeInv'
  BY <1>7 DEF SnapshotClaim, SnapshotAt
<1>8. ASSUME NEW n \in Snapshotter, SnapshotMerge(n) PROVE MergeInv'
  BY <1>8 DEF SnapshotMerge, SnapshotAt
<1>9. ASSUME NEW n \in Snapshotter, SnapshotIndex(n) PROVE MergeInv'
  BY <1>9 DEF SnapshotIndex, SnapshotAt
<1>10. ASSUME NEW n \in Snapshotter, SnapshotRows(n) PROVE MergeInv'
  BY <1>10 DEF SnapshotRows, SnapshotAt, Store!Persist
<1>11. ASSUME NEW n \in Snapshotter, EndSnapshot(n) PROVE MergeInv'
  BY <1>11 DEF EndSnapshot, SnapshotAt, NoSnap
<1>12. CASE CloseIndexdb
  BY <1>12 DEF CloseIndexdb, OpenIndexdb
<1>13. CASE RemoveDir
  BY <1>13 DEF RemoveDir, ForgetContents, OpenIndexdb
<1>14. CASE RemoveDetached
  BY <1>14 DEF RemoveDetached, ForgetContents, OpenIndexdb
<1>15. CASE PartitionAttach
  BY <1>15 DEF PartitionAttach, OpenPartition, OpenIndexdb, Store!Reopen, BumpPartitionCacheGeneration
<1>16. CASE Crash
  BY <1>16 DEF Crash, NextOp, OpenIndexdb, Store!Crash, NoSnap
<1>17. CASE Restart
  BY <1>17 DEF Restart, OpenPartition, ForgetContents, OpenIndexdb, Store!Reopen, BumpPartitionCacheGeneration
<1> QED
  BY <1>1, <1>2, <1>3, <1>4, <1>5, <1>6, <1>7, <1>8, <1>9, <1>10, <1>11, <1>12, <1>13, <1>14,
     <1>15, <1>16, <1>17
  DEF Next, IndexStep, WriterStep, SnapshotStep, LifeStep, FlushItems, AddPart, SetFlag,
      TakeFlag, CallFlushCallback, InvalidateStreamFilterCache, PersistRows, Store!Persist,
      GetPartition, NewUser, CreatePartition, CreateDirs, CheckCache, WriterAt, RegisterStream,
      PutToCache, AddRow, Store!AcceptVisible, MissCache, SearchIndex, StoreToCache,
      CleanCaches, SnapshotCallback, SnapshotAt, Unlist, NextOp, CloseDatadb, EndDetach,
      BumpPartitionCacheGeneration, RemoveEntry, OtherPartition, vars

\* No flush, merge, close or crash takes the stream of a row which stays.
LEMMA RowsNext ==
  PartitionTypeOK /\ LifeInv /\ DirInv /\ WriterInv /\ RowsHaveStreams /\ [Next]_vars => RowsHaveStreams'
<1> SUFFICES ASSUME PartitionTypeOK, LifeInv, DirInv, WriterInv, RowsHaveStreams, [Next]_vars PROVE RowsHaveStreams'
  OBVIOUS
<1> USE DEF PartitionTypeOK, LifeInv, DirInv, WriterInv, RowsHaveStreams, disk, index, caches,
            store, object, users, Opened, Closing, Visible, Registered
<1>1. CASE UNCHANGED <<volatile, durable, orphans, raw, flushing, imem, file>>
  BY <1>1
<1>2. ASSUME NEW s \in Stream, FlushItems(s) PROVE RowsHaveStreams'
  BY <1>2 DEF FlushItems
<1>3. ASSUME NEW s \in Stream, AddPart(s) PROVE RowsHaveStreams'
  BY <1>3 DEF AddPart
<1>4. CASE FinishMerge
  BY <1>4 DEF FinishMerge
<1>5. CASE PersistRows
  BY <1>5 DEF PersistRows, Store!Persist
<1>6. ASSUME NEW w \in Writer, OpenCreated(w) PROVE RowsHaveStreams'
  BY <1>6 DEF OpenCreated, OpenIndexdb, Store!Reopen
<1>7. ASSUME NEW w \in Writer, RegisterStream(w) PROVE RowsHaveStreams'
  BY <1>7 DEF RegisterStream, WriterAt
<1>8. ASSUME NEW w \in Writer, AddRow(w) PROVE RowsHaveStreams'
  BY <1>8 DEF AddRow, Store!AcceptVisible
<1>9. ASSUME NEW n \in Snapshotter, SnapshotItems(n) PROVE RowsHaveStreams'
  BY <1>9 DEF SnapshotItems, SnapshotAt
<1>10. ASSUME NEW n \in Snapshotter, SnapshotMerge(n) PROVE RowsHaveStreams'
  BY <1>10 DEF SnapshotMerge, SnapshotAt
<1>11. ASSUME NEW n \in Snapshotter, SnapshotRows(n) PROVE RowsHaveStreams'
  BY <1>11 DEF SnapshotRows, SnapshotAt, Store!Persist
<1>12. CASE CloseDatadb
  BY <1>12 DEF CloseDatadb
<1>13. CASE CloseIndexdb
  BY <1>13 DEF CloseIndexdb, OpenIndexdb
<1>14. CASE RemoveDir
  BY <1>14 DEF RemoveDir, ForgetContents, OpenIndexdb
<1>15. CASE RemoveDetached
  BY <1>15 DEF RemoveDetached, ForgetContents, OpenIndexdb
<1>16. CASE PartitionAttach
  BY <1>16 DEF PartitionAttach, OpenPartition, OpenIndexdb, Store!Reopen, BumpPartitionCacheGeneration
<1>17. CASE Crash
  BY <1>17 DEF Crash, NextOp, OpenIndexdb, Store!Crash, NoSnap
<1>18. CASE Restart
  BY <1>18 DEF Restart, OpenPartition, ForgetContents, OpenIndexdb, Store!Reopen, BumpPartitionCacheGeneration
<1> QED
  BY <1>1, <1>2, <1>3, <1>4, <1>5, <1>6, <1>7, <1>8, <1>9, <1>10, <1>11, <1>12, <1>13, <1>14,
     <1>15, <1>16, <1>17, <1>18
  DEF Next, IndexStep, WriterStep, SnapshotStep, LifeStep, SetFlag, TakeFlag,
      CallFlushCallback, InvalidateStreamFilterCache, StartMerge, GetPartition, NewUser,
      CreatePartition, CreateDirs, CheckCache, WriterAt, PutToCache, MissCache, SearchIndex,
      StoreToCache, CleanCaches, StartSnapshot, SnapshotAt, SnapshotCallback, SnapshotClaim,
      SnapshotIndex, EndSnapshot, NoSnap, Unlist, NextOp, EndDetach,
      BumpPartitionCacheGeneration, RemoveEntry, OtherPartition, vars

\* Only invalidations move settled, and they overtake the searches under way.
LEMMA AnswerNext ==
  PartitionTypeOK /\ LifeInv /\ HoldInv /\ CacheInv /\ WriterInv /\ MergeInv /\ AnswerInv /\ [Next]_vars => AnswerInv'
<1> SUFFICES ASSUME PartitionTypeOK, LifeInv, HoldInv, CacheInv, WriterInv, MergeInv,
                    AnswerInv, [Next]_vars PROVE AnswerInv'
  OBVIOUS
<1> USE DEF PartitionTypeOK, LifeInv, HoldInv, CacheInv, WriterInv, MergeInv, AnswerInv,
            AnswerType, Answers, disk, index, caches, store, object, users, Opened, Closing,
            Visible, Registered
<1>1. CASE UNCHANGED <<life, settled, imem, file, filterStreamCache, generation, qpc, overtaken, found>>
  BY <1>1
<1>2. ASSUME NEW s \in Stream, AddPart(s) PROVE AnswerInv'
  BY <1>2 DEF AddPart
<1>3. CASE CallFlushCallback
  BY <1>3 DEF CallFlushCallback, InvalidateStreamFilterCache
<1>4. CASE FinishMerge
  BY <1>4 DEF FinishMerge
<1>5. ASSUME NEW w \in Writer, NEW r \in Row, CreatePartition(w, r) PROVE AnswerInv'
  BY <1>5 DEF CreatePartition
<1>6. ASSUME NEW w \in Writer, OpenCreated(w) PROVE AnswerInv'
  BY <1>6 DEF OpenCreated, OpenIndexdb, Store!Reopen
<1>7. ASSUME NEW q \in Query, MissCache(q) PROVE AnswerInv'
  BY <1>7 DEF MissCache, NewUser
<1>8. ASSUME NEW q \in Query, SearchIndex(q) PROVE AnswerInv'
  BY <1>8 DEF SearchIndex
<1>9. ASSUME NEW q \in Query, StoreToCache(q) PROVE AnswerInv'
  <2>1. life' = life /\ settled' = settled /\ Visible' = Visible
    BY <1>9 DEF StoreToCache
  <2>2. life \in Opened /\ q \notin overtaken => settled \subseteq found[q]
    BY <1>9 DEF StoreToCache
  <2>3. \A a \in Answers' : 
           a = [at |-> generation, ids |-> found[q], late |-> q \in overtaken]
    BY <1>9 DEF StoreToCache
  <2>4. \A p \in Query : qpc'[p] = "store" /\ p \notin overtaken' =>
           qpc[p] = "store" /\ p \notin overtaken /\ found'[p] = found[p]
    BY <1>9 DEF StoreToCache
  <2>5. ASSUME NEW a \in Answers', ~a.late PROVE life \in Opened => settled \subseteq a.ids
    <3>1. a.late = (q \in overtaken) /\ a.ids = found[q]
      BY <2>3
    <3>2. QED BY <2>2, <2>5, <3>1
  <2> QED BY <2>1, <2>4, <2>5
<1>10. CASE CleanCaches
  BY <1>10 DEF CleanCaches
<1>11. ASSUME NEW n \in Snapshotter, SnapshotItems(n) PROVE AnswerInv'
  BY <1>11 DEF SnapshotItems, SnapshotAt
<1>12. ASSUME NEW n \in Snapshotter, SnapshotCallback(n) PROVE AnswerInv'
  BY <1>12 DEF SnapshotCallback, SnapshotAt, InvalidateStreamFilterCache
<1>13. ASSUME NEW n \in Snapshotter, SnapshotMerge(n) PROVE AnswerInv'
  BY <1>13 DEF SnapshotMerge, SnapshotAt
<1>14. ASSUME NEW to \in Closing, Unlist(to) PROVE AnswerInv'
  BY <1>14 DEF Unlist, NextOp
<1>15. CASE CloseIndexdb
  BY <1>15 DEF CloseIndexdb, OpenIndexdb
<1>16. CASE EndDetach
  BY <1>16 DEF EndDetach, BumpPartitionCacheGeneration
<1>17. CASE RemoveDir
  BY <1>17 DEF RemoveDir, ForgetContents, OpenIndexdb
<1>18. CASE RemoveDetached
  BY <1>18 DEF RemoveDetached, ForgetContents, OpenIndexdb
<1>19. CASE PartitionAttach
  BY <1>19 DEF PartitionAttach, OpenPartition, OpenIndexdb, Store!Reopen, BumpPartitionCacheGeneration
<1>20. CASE OtherPartition
  BY <1>20 DEF OtherPartition, NextOp, BumpPartitionCacheGeneration
<1>21. CASE Crash
  BY <1>21 DEF Crash, NextOp, OpenIndexdb, Store!Crash, NoSnap
<1>22. CASE Restart
  BY <1>22 DEF Restart, OpenPartition, ForgetContents, OpenIndexdb, Store!Reopen, BumpPartitionCacheGeneration
<1> QED
  BY <1>1, <1>2, <1>3, <1>4, <1>5, <1>6, <1>7, <1>8, <1>9, <1>10, <1>11, <1>12, <1>13, <1>14,
     <1>15, <1>16, <1>17, <1>18, <1>19, <1>20, <1>21, <1>22
  DEF Next, IndexStep, WriterStep, SnapshotStep, LifeStep, FlushItems, SetFlag, TakeFlag,
      StartMerge, PersistRows, Store!Persist, GetPartition, NewUser, CreateDirs, CheckCache,
      WriterAt, RegisterStream, PutToCache, AddRow, Store!AcceptVisible, StartSnapshot,
      SnapshotAt, SnapshotClaim, SnapshotIndex, SnapshotRows, EndSnapshot, NoSnap, CloseDatadb,
      RemoveEntry, vars

\* A stream which the snapshot needs only moves towards the files.
LEMMA SnapshotNext ==
  PartitionTypeOK /\ LifeInv /\ HoldInv /\ MergeInv /\ RowsHaveStreams /\ SnapshotInv /\ [Next]_vars => SnapshotInv'
<1> SUFFICES ASSUME PartitionTypeOK, LifeInv, HoldInv, MergeInv, RowsHaveStreams, SnapshotInv,
                    [Next]_vars PROVE SnapshotInv'
  OBVIOUS
<1> USE DEF PartitionTypeOK, LifeInv, HoldInv, MergeInv, RowsHaveStreams, SnapshotInv, Claimed,
            disk, index, caches, store, object, users, Opened, Closing, Visible, Registered
<1>1. CASE UNCHANGED <<npc, snap, orphans, raw, flushing, imem, file>>
  BY <1>1
<1>2. ASSUME NEW s \in Stream, FlushItems(s) PROVE SnapshotInv'
  BY <1>2 DEF FlushItems
<1>3. ASSUME NEW s \in Stream, AddPart(s) PROVE SnapshotInv'
  BY <1>3 DEF AddPart
<1>4. CASE FinishMerge
  BY <1>4 DEF FinishMerge
<1>5. ASSUME NEW w \in Writer, OpenCreated(w) PROVE SnapshotInv'
  BY <1>5 DEF OpenCreated, OpenIndexdb, Store!Reopen
<1>6. ASSUME NEW w \in Writer, RegisterStream(w) PROVE SnapshotInv'
  BY <1>6 DEF RegisterStream, WriterAt
<1>7. ASSUME NEW n \in Snapshotter, StartSnapshot(n) PROVE SnapshotInv'
  BY <1>7 DEF StartSnapshot, SnapshotAt, NewUser
<1>8. ASSUME NEW n \in Snapshotter, SnapshotItems(n) PROVE SnapshotInv'
  <2>1. /\ orphans' = orphans /\ file' = file /\ raw' = {} /\ flushing' = flushing
        /\ imem' = imem \cup raw
        /\ \A m \in Snapshotter : snap'[m].before = snap[m].before
        /\ snap'[n].skipped = flushing
    BY <1>8 DEF SnapshotItems
  <2>2. npc[n] = "items" /\ npc'[n] \in {"parts", "call"}
    BY <1>8 DEF SnapshotItems, SnapshotAt
  <2>3. \A m \in Snapshotter \ {n} : npc'[m] = npc[m] /\ snap'[m] = snap[m]
    BY <1>8 DEF SnapshotItems, SnapshotAt
  <2>4. ASSUME NEW r \in snap[n].before \ orphans
        PROVE \/ StreamOf(r) \in snap'[n].skipped
              \/ npc'[n] \in {"call", "parts"} /\ StreamOf(r) \in Visible'
    BY <2>1, <2>2
  <2>5. ASSUME NEW m \in Snapshotter \ {n}, NEW r \in snap[m].before \ orphans
        PROVE \/ StreamOf(r) \in snap'[m].skipped
              \/ npc'[m] = "items" /\ StreamOf(r) \in Registered'
              \/ npc'[m] \in {"call", "parts"} /\ StreamOf(r) \in Visible'
              \/ npc'[m] = "merge" /\ StreamOf(r) \in snap'[m].claim \cup file'
              \/ npc'[m] = "link" /\ StreamOf(r) \in file'
              \/ npc'[m] \in {"rows", "done"} /\ StreamOf(r) \in snap'[m].ids
    BY <2>1, <2>3, <2>5
  <2>6. \A m \in Snapshotter : npc'[m] \in {"idle", "items"} => snap'[m].skipped = {}
    BY <2>2, <2>3
  <2>7. \A m \in Snapshotter : snap'[m].before \ orphans' = snap[m].before \ orphans
    BY <2>1
  <2> HIDE DEF Registered, Visible
  <2> QED BY <2>4, <2>5, <2>6, <2>7
<1>9. ASSUME NEW n \in Snapshotter, SnapshotCallback(n) PROVE SnapshotInv'
  BY <1>9 DEF SnapshotCallback, SnapshotAt, InvalidateStreamFilterCache
<1>10. ASSUME NEW n \in Snapshotter, SnapshotClaim(n) PROVE SnapshotInv'
  BY <1>10 DEF SnapshotClaim, SnapshotAt
<1>11. ASSUME NEW n \in Snapshotter, SnapshotMerge(n) PROVE SnapshotInv'
  BY <1>11 DEF SnapshotMerge, SnapshotAt
<1>12. ASSUME NEW n \in Snapshotter, SnapshotIndex(n) PROVE SnapshotInv'
  BY <1>12 DEF SnapshotIndex, SnapshotAt
<1>13. ASSUME NEW n \in Snapshotter, SnapshotRows(n) PROVE SnapshotInv'
  BY <1>13 DEF SnapshotRows, SnapshotAt, Store!Persist
<1>14. ASSUME NEW n \in Snapshotter, EndSnapshot(n) PROVE SnapshotInv'
  BY <1>14, UserAssumption DEF EndSnapshot, SnapshotAt, NoSnap
<1>15. CASE CloseIndexdb
  BY <1>15 DEF CloseIndexdb, OpenIndexdb
<1>16. CASE RemoveDir
  BY <1>16 DEF RemoveDir, ForgetContents, OpenIndexdb
<1>17. CASE RemoveDetached
  BY <1>17 DEF RemoveDetached, ForgetContents, OpenIndexdb
<1>18. CASE PartitionAttach
  BY <1>18 DEF PartitionAttach, OpenPartition, OpenIndexdb, Store!Reopen, BumpPartitionCacheGeneration
<1>19. CASE Crash
  BY <1>19 DEF Crash, NextOp, OpenIndexdb, Store!Crash, NoSnap
<1>20. CASE Restart
  BY <1>20 DEF Restart, OpenPartition, ForgetContents, OpenIndexdb, Store!Reopen, BumpPartitionCacheGeneration
<1> QED
  BY <1>1, <1>2, <1>3, <1>4, <1>5, <1>6, <1>7, <1>8, <1>9, <1>10, <1>11, <1>12, <1>13, <1>14,
     <1>15, <1>16, <1>17, <1>18, <1>19, <1>20
  DEF Next, IndexStep, WriterStep, SnapshotStep, LifeStep, SetFlag, TakeFlag,
      CallFlushCallback, InvalidateStreamFilterCache, StartMerge, PersistRows, Store!Persist,
      GetPartition, NewUser, CreatePartition, CreateDirs, CheckCache, WriterAt, PutToCache,
      AddRow, Store!AcceptVisible, MissCache, SearchIndex, StoreToCache, CleanCaches, Unlist,
      NextOp, CloseDatadb, EndDetach, BumpPartitionCacheGeneration, RemoveEntry,
      OtherPartition, vars
-----------------------------------------------------------------------------

\* No partition exists at first.
LEMMA InvInit == Init => IInv /\ AnswerInv /\ SnapshotInv
<1> SUFFICES ASSUME Init PROVE IInv /\ AnswerInv /\ SnapshotInv
  OBVIOUS
<1> USE DEF Init
<1>1. PartitionTypeOK
  BY DEF PartitionTypeOK, NoSnap
<1>2. RowsHaveStreams /\ OpenNeverPanics
  BY DEF RowsHaveStreams, OpenNeverPanics
<1>3. LifeInv /\ HoldInv /\ DirInv /\ CacheInv
  BY DEF LifeInv, HoldInv, DirInv, CacheInv, Opened, Closing
<1>4. WriterInv /\ MergeInv /\ AnswerInv /\ SnapshotInv
  BY DEF WriterInv, MergeInv, AnswerInv, SnapshotInv, Opened, Closing, NoSnap
<1> QED
  BY <1>1, <1>2, <1>3, <1>4 DEF IInv, PartitionInv

\* Every action keeps the inductive invariant.
LEMMA InvNext == IInv /\ [Next]_vars => IInv'
<1> SUFFICES ASSUME IInv, [Next]_vars PROVE IInv'
  OBVIOUS
<1>1. PartitionTypeOK /\ RowsHaveStreams /\ LifeInv /\ HoldInv /\ DirInv /\ CacheInv
      /\ WriterInv /\ MergeInv
  BY DEF IInv, PartitionInv
<1>2. PartitionTypeOK' /\ LifeInv' /\ HoldInv' /\ DirInv' /\ CacheInv' /\ WriterInv' /\ MergeInv'
  BY <1>1, TypeNext, LifeNext, HoldNext, DirNext, CacheNext, WriterNext, MergeNext
<1>3. RowsHaveStreams'
  BY <1>1, RowsNext
<1>4. OpenNeverPanics'
  BY <1>2 DEF DirInv, OpenNeverPanics
<1> QED
  BY <1>2, <1>3, <1>4 DEF IInv, PartitionInv

\* The inductive invariant holds in every reachable state.
LEMMA Inductive == Spec => []IInv
BY InvInit, InvNext, PTL DEF Spec

\* Every row in the partition can be found by its stream, whatever the caches say,
\* however often the partition is detached, attached, dropped or closed, and whenever the
\* process crashes; mustOpenPartition() never meets datadb without indexdb.
THEOREM PartitionCorrect == Spec => []PartitionInv
<1>1. IInv => PartitionInv
  BY DEF IInv
<1> QED
  BY <1>1, Inductive, PTL

\* An answer of filterStreamCache misses a searchable stream only if an invalidation
\* has overtaken the search which stored the answer.
THEOREM CacheCorrect == Spec => []CachedAnswersAreFresh
<1>1. IInv /\ AnswerInv /\ [Next]_vars => AnswerInv'
  BY AnswerNext DEF IInv, PartitionInv
<1>2. AnswerInv => CachedAnswersAreFresh
  BY DEF AnswerInv, CachedAnswersAreFresh, Opened
<1> QED
  BY <1>1, <1>2, InvInit, Inductive, PTL DEF Spec

\* The index of a snapshot has the streams of the rows of the snapshot.
THEOREM SnapshotCorrect == Spec => []SnapshotRowsHaveStreams
<1>1. IInv /\ SnapshotInv /\ [Next]_vars => SnapshotInv'
  BY SnapshotNext DEF IInv, PartitionInv
<1>2. SnapshotInv => SnapshotRowsHaveStreams
  BY DEF SnapshotInv, SnapshotRowsHaveStreams
<1> QED
  BY <1>1, <1>2, InvInit, Inductive, PTL DEF Spec
=============================================================================
