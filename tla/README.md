# VictoriaLogs in TLA+

A model of VictoriaLogs - its storage, the queries and inserts of a cluster, and the log
tailer of vlagent -, the TLC configurations which check it on
small instances, and theorems about it checked by TLAPS. Definitions keep the names of the
Go code; `PROJECT.json` maps each of them to its source lines.

## 1. Inventory

VictoriaLogs stores logs in *per-day partitions*. A partition consists of an index of log
streams (*indexdb*) and of the rows themselves (*datadb*), which live in immutable *parts*
that are merged in background. One process (`victoria-logs`) ingests and queries; in
cluster mode the same binary forwards rows to storage nodes (*netinsert*) and fans out
queries (*netselect*). *vlagent* collects log files and forwards them.

| Component | State | Operations | Interacts with | What makes it correct |
|---|---|---|---|---|
| datadb (`lib/logstorage/datadb.go`) | row buffer shards, lists of in-memory, small and big parts, `isInMerge` and `refCount` per part, part directories, `parts.json` | add rows, flush buffers, background merges, flusher, forced merge, snapshot, search references, close, open | partition calls it; searches hold its parts; merges call the index to filter | no row lost, duplicated or made volatile again; exclusive merges; parts in use stay open; files agree with `parts.json` at every crash; close leaves nothing; every row gets durable |
| row deletion (`datadb.deleteRows`, `part.hasMatchingRows`) | claimed parts, `needRepeat` | find parts with matching rows, merge them without the rows | races all merges of datadb | success means deleted; only matching rows go |
| delete tasks (`storage.go`, `delete_task.go`) | queue, the running task's `ctx`/`cancel`/`doneCh`, `delete_tasks.json` | register, stop, execute, retry | HTTP handlers, executor goroutine, stopCh | no registered task lost, no canceled task executed again, no starvation |
| list of partitions (`storage.go`) | `partitions`, `ptwHot`, `deletedPartitions`, reference counts, directories | add rows, search, drop by retention or disk usage, attach, detach, force merge, open, close | everything which uses a partition; external tools | partitions in use exist; dropped days stay away; one open partition per directory; detach and close wait for users |
| partition (`partition.go`) | indexdb + datadb, the directory, `snapshotLock` | create, open what a crash has left, add rows (register streams first), snapshot, close, delete | storage, indexdb, datadb | rows are findable by their stream, also after detach, attach and in snapshots; a half-made or half-removed directory is never misread |
| indexdb and caches (`indexdb.go`, `cache.go`) | mergeset table (raw items, parts), `streamIDCache`, `filterStreamCache`, `partitionCacheGeneration`, `filterStreamCacheGeneration` | register stream, search stream ids, flush callback, clean | partitions, searches | no stale cache entry hides streams; new streams become visible |
| block stream merger | pending rows of one stream | merge sorted blocks, drop deleted rows | merges of datadb | sorted, complete, bounded blocks |
| query engine (`parser.go`, `pipe*.go`, `storage_search.go`, `net_query_runner.go`) | pipes with per-worker shards, nested contexts, memory budgets | optimize, split into remote and local pipes, search, write blocks through pipes, flush | netselect, partitions, clients | an answer without an error is one the pipes may give; nothing wrong is sent before; it ends |
| netinsert (`app/vlstorage/netinsert`) | pending block per node, pool of buffers, `disabledUntil`, `streamRowsTracker` | add row, flush, re-route, retry, stop | storage nodes over HTTP | at least once until the drain timeout; duplicates after failures only; the stop ends |
| netselect (`app/vlstorage/netselect`) | fan-out requests and their errors | query all nodes, cancel on error, partial responses | storage nodes, query engine | no partial result taken for a full one |
| last-N optimization | – | search of a time range holding N rows | query engine | the same rows as without it |
| vlagent tailer (`app/vlagent/tail`) | open file, offset, tail, fingerprint, checkpoints in memory and on disk | open, resume, read lines, detect rotation and deletion, save checkpoints | file system, line processors of the collectors | no line skipped, entries whole, duplicates only after a crash |
| vlagent remotewrite, collectors | pending rows, persistent queues | push, retry, drop | remote storages | at least once |
| vlinsert, vlselect, vlogscli, vlogsgenerator, vmui | per-request state | protocol parsing, HTTP, user interfaces | all of the above | formats |

The hard behaviours are the interleavings of goroutines which work outside the locks
(merges, deletes, users of partitions), reference counts which decide when files go away,
crashes between writing parts, `parts.json` and removing parts, waiting (close, detach,
stopping a task, a free buffer) and retries (deletes, inserts), caches filled with answers
of an earlier moment, goroutines of several nodes which cancel each other, and files which
others rotate while they are read. `PROJECT.json` lists each at its line.

## 2. Modules

| Module | Models | Composes |
|---|---|---|
| `RowStore` | what a partition promises about rows: pending, volatile, durable | - |
| `Datadb` | `datadb.go` without deletion | refines `RowStore` |
| `DatadbDelete` | `deleteRows()` beside all of `Datadb` but snapshots | extends `Datadb` |
| `DeleteTasks` | queue of delete tasks and its executor | its ways to finish a task are those of `DatadbDelete` |
| `Partitions` | list of partitions, their users and their directories | the inside of a partition is `Datadb` |
| `Partition` | indexdb, caches and datadb of one partition, its directory and its life | datadb is `RowStore`, which `Datadb` implements |
| `NetInsert` | inserts of a cluster | - |
| `QueryPipes` | pipes as values: results, optimizer, split | - |
| `Query` | execution of a query at vlselect, with its nodes and their failures | extends `QueryPipes` |
| `Tailer` | one log path followed by vlagent, with the line processor | - |
| `Datadb_proofs` | theorems in three chapters: types and claims; references and files; rows | extends `Datadb` |
| `DatadbDelete_proofs` | theorems about deletes | extends `DatadbDelete` and `Datadb_proofs` |
| `DeleteTasks_proofs`, `Partition_proofs`, `Partitions_proofs`, `NetInsert_proofs`, `Query_proofs`, `Tailer_proofs` | theorems | extend the module |
| `MC*` | small instances: symmetry, queries, contents of logs | extend the module |

**Datadb.** Variables follow the fields: `buf` is `rowsBuffer`, `listed` with `ptype` the
three lists, `refs`, `mustDrop`, `isInMerge` the fields of `partWrapper`; `due` is the set
of parts whose `flushDeadline` has passed. `dir` and `partsJSON` are the disk. `Part` is at
once the identity of a `partWrapper` object and of a directory, because both are new for
every part. A merge is a `Worker` going through `claimed`, `writing`, `written`,
`dropping`, `releasing`, with a crash or anything else possible between the steps; critical
sections under `partsLock` are single actions. Goroutines which claim parts and have
others merge them (flusher, forced merge, snapshot, close) are `Caller`s; a worker's
`owner` tells on whose behalf it merges, which decides whether the merge is final. Whether
disk space could be reserved, which parts are worth merging, and the type of the result
are nondeterministic within what the code allows (`DstTypes`: sources on disk never become
an in-memory part). `Open` may classify a part as small or big anew.

**DatadbDelete.** A delete is a worker which is a reader, too (`DeleterAssumption`): it
merges parts itself, and holds references to all the parts it has listed, in `held[d]`, like
a search. The record `del[d]` has the local variables of `deleteRows()`. `DeleteStep` is what
a delete does, `OtherStep` everything else; a crash ends both. Looking into a part and claiming it are one action per part, enabled by
the contents of the part; since parts are immutable only the moment of the claim matters.
`DeletePanic` is the panic in `swapSrcWithDstParts()`, which comes after `parts.json` was
written. The filter may match rows which arrive later, as a time range may.

**DeleteTasks.** Every critical section under `deleteTasksLock` is an action; the executor
is between them in `processing`, `processed` (has the result) and `done` (`doneCh` closed,
task still in the queue). The ways `processDeleteTask()` may end are four actions; what
makes them possible is `DatadbDelete`'s business.

**Partitions.** `Ptw` are `partitionWrapper` objects, `day[w]` also names the directory.
The last `decRef()` leaves the wrapper in state `closing` for a while: closing and deleting
happen outside of `partitionsLock`, and the goroutine which dropped the reference is busy
(`by`). The goroutine of a forced merge, which nobody waits for, may take partitions as long
as the list isn't cleared, also while `MustClose()` closes them; it panics on a closed one,
and `MustClose()` on one with users (`ForcePanic`, `ClosePanic`). External tools may add and remove released directories (`ReplaceDir`). `now`
advances by days; retention and future retention are in days. Hours, rows which are too old
for `-maxBackfillAge`, and read-only mode are left out.

**Partition.** `raw`, `flushing`, `imem` and `file` are where the items which register a
stream are in the mergeset table: `rawItems`, blocks taken by a flusher, in-memory parts,
parts on disk; only the last two are searchable (`Visible`). `needCall`, `calling` and
`unflagged` are the steps between a new part and `invalidateStreamFilterCache()`. A cached
answer is tagged with the generation its key was built from (`at`) and with whether an
invalidation overtook its search (`late`). A new `partitionCacheGeneration` makes the
entries of both caches unreachable, so they are emptied. `life` follows the partition from
creation through detaching, dropping or stopping (each waits for `refs`) to removal; `dir`
is what exists on disk, created and removed entry by entry, so a crash leaves any prefix.
The vendored mergeset table and `MustRemoveDir()` are mapped to their source.

**NetInsert.** A thread is a writer or the flusher of a node, at `pc` between its critical
sections. Rows have the size 1, `BlockSize` is `maxInsertBlockSize`. `Release` is the
deferred function of `mustSendInsertRequest()`. A failed request either stored the block or
not, and its node is disabled; a disabled node comes back at any moment. The nodes of
`sendInsertRequestToAnyNode()` are tried in any order, which includes the code's rotation
from a random start. A timer which fires together with the cancellation counts as one that
fired before it. With a single node the code doesn't count rows per stream; the model does,
without effect. `DebugFlush()` is a flush by another goroutine, and is left out.

**QueryPipes, Query.** A row is `[key, n]`, `Key` the values of the field. Loops of the code
over rows, pipes and passes are functions of the number of elements done (`Rewrite`,
`OptimizeOffsetLimit`, `Sorted`, `Through`), which the proofs can reason about. `Apply(p, s)` is the set of outputs of a pipe
for an input sequence, and `Outcomes` of a sequence of pipes: the order of rows, and the
keys a limited `uniq` keeps, are nondeterministic. `Optimize` is `optimizeNoSubqueries()` for
these pipes (merging a leading filter into the query isn't modelled), `RemoteAndLocal` the
split. In `Query` one goroutine per node takes blocks of any size from its response and
pushes each through the pipes, one action per `writeBlock()`; counters are atomic, so a
goroutine may stop between counting rows and forwarding them, and a `cancel()` in a deferred
call comes when the whole call returns (`owed`, `ReturnFromPipes`). Contexts are nested, so
`canceled` is the greatest cancelled pipe. Flushes run with as many goroutines as the code
uses. Memory budgets are chunks; a shard takes one per block after its first. What a node
sends is any outcome of the remote pipes over its rows (`RunAtNode`); for `sort by (_time
desc) limit N` it is what `getLastNQueryResults()` finds by halving the time range
(`SearchLastN`, one recursive step per iteration of its loop). Timestamps are not negative,
a query with `limit` returns any of the matching rows, and no rows arrive meanwhile.
Clients' `fields` and `delete` pipes aren't modelled, so none is moved in front of the sort;
the ones `splitQueryToRemoteAndLocal()` adds are `SentColumns`: a node sends only the columns
the local pipes need, the others are lost.

**Tailer.** `place`, `inode`, `lines`, `half` are the file system, changed by the application
and by rotation at any moment; `fd`, `offset`, `tail`, `commit` the `logFile`; `memory` and
`saved` the checkpoint in memory and on disk. `process()` is split at its system calls:
reading, `status()`, the check of hard links, the two reads of a rotated file, reopening.
Lines read at once go through the processor one by one (`LinesAdded[i]` is its state after
the first `i`). `KindOf` says what `TryAddLine()` makes of a line: a `part` is kept for its
stream, a `full` line is sent with what is kept or dropped with it if they are too large,
`json` is sent alone, `void` is skipped, `invalid` resets both streams; `long` is skipped
before the processor. The checkpoint moves behind every line but a `part` and a `long` one.
Offsets are lines and the fingerprint is the number of the file, so fingerprints don't
collide. `forgiven`, `lateFile` and `notReopened` remember the situations which the
properties except.

## 3. Runs

Rows, parts, workers, wrappers and streams are model values, symmetric where no liveness is
checked. Where a counter is needed its bound is a constant: `Day` bounds `Tick`, `MaxOps`
events in the life of a partition, `MaxUsers` its users at a time, `MaxFaults` failed
requests, `MaxStops` and `MaxCrashes` restarts of vlagent, `FilesCount` and `LinesCount`
its log.

| Run | Instance | Shows |
|---|---|---|
| `datadb` | 2 rows, 1 shard, 4 parts, 2 mergers, a search, a snapshot | types; `parts.json` is true at every crash; claims are exclusive and released; reference counts are exact; parts in use stay open; no row is stored twice; snapshots are complete; flush deadlines are kept; close finds and leaves nothing; `Datadb` implements `RowStore` |
| `datadb_live` | 2 rows, 1 merger, a forced merge, fair | rows become durable, close returns |
| `delete_merges` | 2 rows, 4 parts, a merger, a delete | a delete which was not stopped and returns true is complete; only matching rows go; a delete reads open parts |
| `tasks_queue` | 3 tasks (2 never complete), a canceling caller, fair | the executor removes its own task; no task lost; no starvation; stops return |
| `partitions_admins` | 3 days, 3 wrappers, a writer, a long-running user, both watchers, one administrator | references, directories, dropped days, close |
| `partitions_live` | 2 days, a writer, an administrator, forced merges, fair | detach returns, dropped directories go |
| `partition_rows` | 2 streams, a writer, a snapshot, one event | rows have their streams; no reopening of datadb without indexdb; snapshots have the streams of their rows |
| `partition_search` | 2 streams, a writer, a search, one event, fair | cached answers are fresh; new streams settle |
| `net_reroute` | 2 nodes, a writer, 2 rows, blocks of 1 row, 2 buffers, 2 failures, fair | no row lost, no unexplained duplicate, the stop returns, rows arrive |
| `tailer_resume` | 2 files of 3 lines: an entry broken off by an invalid line, one over both files around a too long line; 2 inodes, a stop, a crash | no line lost, entries whole, no duplicates without a crash; `TailInv` is the inductive invariant of the proofs |
| `query` | 18 queries, 2 nodes with 2 and 3 rows sharing keys, times 0..11, a second of 1, 2 chunks, 2 failures, fair | answers are true, output belongs to an answer, cancels are justified, missing nodes are allowed, queries end |
| `delete_swap` | small | a violation, section 5 |

Why the bounds are enough. Four parts are two sources, a merged part and one more which
arrives or is merged meanwhile (names are used again after a part is gone, so chains of
merges of any length occur); two mergers are needed for two merges to meet. Three tasks make
the order of the queue matter. Three days are needed for the watcher of disk space, which
keeps two partitions; three wrappers let a dropped, a detached and a new one coexist. Two
streams are one which is searchable and one which isn't; one event (detach, drop, close,
crash, change of another partition) with what follows it - attach, removal, restart - goes
once around the life of a partition, and the caches keep nothing of an earlier round. Two
nodes, two buffers and blocks of one row let writer and flushers wait for each other's
buffers, and a block visit every node and begin anew. Two files with a reused inode, renamed
and removed, are all `findRenamedFile()` and the fingerprints can confuse; the first file
begins an entry which an invalid line breaks off, and the second file ends another one of the
first. Two more instances which TLC finds correct, too large entries (`MCTailer_large.cfg`)
and a log of Docker (`MCTailer_docker.cfg`), ask nothing else and aren't among the runs. Two nodes and blocks down to a single row show every race on
the counter of a limit; the queries hold every pipe before and after those it is merged
or split with.

`CHECK_DEADLOCK FALSE` stands where a system may stop: a query ends (`query`), and the
rows, events or lines of the instance are used up (`partition_rows`, `partition_search`,
`tailer_resume`). Deadlock is checked in the other runs.

*Fairness.* `datadb_live`: a goroutine which can go on does (weak fairness of each merge,
timer, caller and of close). Strong fairness is assumed in two places: a tick of the
flusher at the moment when a due part isn't in merge, since ticks are not synchronized with
merges, and the spawning of a claimed merge, since the channel of merge slots is first come,
first served. A merge without disk space may fail forever without harming the property,
because the flusher's merges are final. `tasks_queue`: the executor runs on; a task which
isn't `Stuck` succeeds if it is tried again and again. `partitions_live`: users finish, the
watchers and administrative calls go on. `partition_search`: the tickers of the index and of
its callback. `net_reroute`: goroutines go on, mutexes and channels don't starve a flusher
(strong fairness, as Go's mutex and channel queues give), disabled nodes come back after
their 10 seconds, the drain timeout fires; requests return when their context is cancelled,
but may otherwise wait forever, except in `RowsAreDelivered`, which assumes that they
don't. `query`: goroutines go on, and a request ends with the deadline of the query at the
latest. Nothing makes rows, requests, stops or crashes happen.

Each property has a mutant in `PROJECT.json`, a plausible bug defined next to the
definition it replaces and marked `(mutant)`, which violates it; `AnswerIsTrue` has seven,
for the optimizer, the split, the columns sent, the last-N search, the merge of hits, the
errors and the cancels. The last-N search alone is compared with its definition for all sets
of up to five rows in small time ranges (`LastNIsExact`, an assumption TLC evaluates).

Exceptions which properties make, each for something the code really does: rows of parts
which others merge when a snapshot starts (`SnapshotIsComplete`, and `skipped` in
`SnapshotRowsHaveStreams`); answers whose search was overtaken (`late`), which stay stale
until the next invalidation; rows whose stream a crash took before it was flushed
(`orphans`); lines of files which were removed, or rotated away twice, before they were read
(`forgiven`); `lateFile`, `notReopened` and `ErrorMayBeHidden`, which are findings.

## 4. Proofs

*`Datadb_proofs`*, from the assumptions of `Datadb` (actors of different kinds are
different, `NoPart` is no part):

* `TypeCorrect`: `Spec => []TypeOK`. One step per action; `DecRefType` covers the three
  actions which give references back.
* `ClaimsCorrect`: `Spec => []ClaimInv`. Exclusive claims alone aren't inductive:
  a worker that is idle must own nothing (`MergeShape`), a caller that is idle must have no
  merges running, and nothing may run in the phases of a close which exclude it
  (`CallerShape`), and every flag must have an owner (`FlagsHaveOwners`), or a part nobody
  claims might be released. Their conjunction `ClaimInv` is inductive relative to `TypeOK`.
  `ClaimTaken` and `CallerStarts` are the parts common to flusher, snapshots, forced merges
  and close. What deletes don't break of it is `ClaimCore`, or `LockInv` with `SourcesKept`
  (a source which left the lists before its own swap is still held by a reader): the later
  proofs rest on it where they are to be used for deletes, too.

Its second chapter, with `ReaderAssumption` (finitely many searches and snapshots, so that
readers of a part can be counted):

* `ReferencesCorrect`: `Spec => []RefInv`, for any number of parts, mergers and readers. The
  invariant `DatadbInv` adds to types and claims: `refCount` is the number of lists and
  readers with the part (`RefsAreExact`); the destination of a merge is in no list, claim,
  `parts.json` or reader (`DstIsPrivate`), so a new part is never one in use; a part which
  `mustDrop` marks has left the lists (`DroppedPartsAreUnlisted`) and its directory goes with the last reference,
  so parts in use are open and have their directories (`UsedPartsStayOpen`); every directory
  has a part (`DirsHaveParts`). What the close relies on: the type of a destination fits the
  sources (`DstTypeFits`), the final flush takes every in-memory part (`FinalFlushTakesAll`).
  Changes of counts are three lemmas: references are taken (`PartsTake`), given back by
  readers (`PartsGiveBack`) or by the lists (`PartsMergeDrop`).
* `PartsFileCorrect`: `Spec => []PartsFileIsTrue`, a conjunct of the same invariant:
  directories are written before `parts.json` names them and removed after it no longer does,
  at every point a crash may come.
* `CloseCorrect`: `Spec => []CloseIsClean`. When the final flush is over, `FinalFlushTakesAll`
  leaves no in-memory part and `CallerShape` no worker, so only the lists have references
  (`CloseMeetsOnlyLists`); a closed datadb has no directory but those of `parts.json`, because
  `DirsHaveParts` and exact counts leave none behind (`GarbageNext`).

The third chapter, from the same assumptions. `RowsInv` adds where rows are:
`RowStoredOnce` isn't inductive without `RowsAreAccounted` (rows come from
`mustAddRows()` once; what the files keep is stored once, for the next open) and
`MergesCarryRows` (the part a merge has written holds the rows of its sources, and is listed
only by a swap which takes those out).

* `RowsAreStoredOnce`: `Spec => []RowStoredOnce`.
* `DeadlinesAreKept`: `Spec => DeadlineIsKept`, an action property. Steps are sorted into those
  which leave the rows in place (`Quiet`), those which add rows, the swap of a merge
  (`SwapMoves`, the lemma most of the module uses) and the ends of a process.
* `DatadbImplementsRowStore`: `Spec => RefinesRowStore`. The same sorting: a step of `Datadb`
  is a `RowStore` step, or a stutter when the rows which are pending, visible and durable
  are the same.
* `SnapshotsAreComplete`: `Spec => []SnapshotIsComplete`. What a snapshot must contain is, at
  each of its stages, on disk in a listed part, or in a part it has claimed or has merged, or
  in those it already holds (`SnapshotHas`).

`MCDatadb_inductive.cfg` checks the inductive invariants with TLC on the instance of `datadb`.

*`DatadbDelete_proofs`*, with `DeleterAssumption`, for any number of deletes beside everything
of `Datadb` but snapshots. `SourcesListed` isn't true of deletes - that is the finding of
`MCDatadbDelete_swap.cfg` - so the invariant `DeleteSafe` is what remains without it
(`UseInv`: types, `LockInv`, references and files), the same claim for merges which aren't
deletes, and `DeleteInv`. Each conjunct is proved for three kinds of steps: the process dies
(a crash, or the panic, after which nobody is left), somebody else's step, which is a step of
`Datadb` that leaves the delete's own variables alone (`OtherLeavesDelete`), and the delete's own.

* `DeletesAreSafe`: `DeleteSpec => []DeleteInv`. Until its swap a delete holds every part it looks into
  or merges (`DeleteHolds`), so they are open although other merges have dropped them
  (`ReadPartsStayOpen`); its claims are exclusive (`DeleteClaims`); what merges write are the
  rows of their sources, without those the filter matches (`DeleteCarries`).
* `DeletesKeepParts`: `DeleteSpec => [](RefInv /\ PartsFileIsTrue)`, the panic included.
* `DeletesAreComplete`: `DeleteSpec => []DeleteIsComplete`. The argument is `DeleteCovers`: a listed part
  with a row to be deleted is still before the delete (`Unfinished`), or was in merge
  (`repeat`), or got the row from a part which is still before the delete but was merged away
  - then the delete will panic, because a part that has left the lists stays held and its
  rows don't come back.
* `DeletesAreExact`: `DeleteSpec => OnlyMatchingRowsAreDeleted`.

*`DeleteTasks_proofs`*, for any tasks, of which none is `NoTask`:

* `TasksAreKept`: `Spec => []TaskInv`. What makes it inductive: the file and the queue are
  the same while the storage is open, so removing tasks one by one keeps the others
  (`FileInv`); a task is queued once, because it is registered once (`UniqueInv`); a task
  which is over was completed, canceled or cut (`ReasonInv`).
* `CutsAreAsked`: `Spec => OnlyShutdownCutsTasks`, from the same invariant.

*`Partition_proofs`*, from the assumption that writers, searches and snapshots are different:

* `PartitionCorrect`: `Spec => []PartitionInv` - types, every row has its stream, a
  partition is never reopened without its index. The inductive invariant adds how `life`,
  `mode` and the directory go together (`LifeInv`, `DirInv`), who may hold a reference in
  which state (`HoldInv`), that a stream in `streamIDCache` is registered (`CacheInv`), that
  a writer behind the check has its stream registered (`WriterInv`), and that a background merge and the
  snapshots claim different in-memory streams (`MergeInv`). `CacheInv` is what the
  increments of `partitionCacheGeneration` are for: without the one in `PartitionDetach()`
  or `PartitionAttach()` it fails.
* `CacheCorrect`: `Spec => []CachedAnswersAreFresh`, with what a search has found relative
  to the last invalidation (`AnswerInv`).
* `SnapshotCorrect`: `Spec => []SnapshotRowsHaveStreams`, with what each phase of a snapshot
  has already taken (`SnapshotInv`).

*`Partitions_proofs`*, from `PtwAssumption`, `DayAssumption` and `ActorAssumption` (`NoPtw` is
no wrapper, days are numbers and there is one, actors of different kinds are different), for
any number of days, wrappers and users:

* `DirectoriesCorrect`, `DirectoriesAreAlone`: `Spec => []PtwInv` and `Spec =>
  []DirectoriesAreSafe`, *if administrators detach and attach one at a time*; with two calls
  at once they are false (`MCPartitions_detach.cfg`). With forced merges `PtwInv` holds *until
  `MustClose()` starts to close partitions* (the theorem says `phase # "closing" \/ Forcer =
  {} => PtwInv`): then a merge may have references to closed partitions. What needs no such
  condition is in the inductive invariant: counts are exact, an open partition has a
  reference, and one with the reference of the list is open (`RefsInv`).
  Exact counts (`PtwRefsAreExact`, proved for any administrators as `RefsCorrect`) aren't
  inductive alone: a wrapper must be on the list, with one watcher or with one detach
  (`ListInv`), or a reference of the list would be given back twice; `MustClose()` must find
  watchers, administrators and background users at rest (`PhaseInv`); a writer has one
  partition (`HoldInv`), which `decRef()` of the hot partition relies on. For the directories,
  a partition owns its own until it is closed and a detach until it returns; owners have
  different days, present and not released (`DirInv`). A partition which is off the list is
  dropped or detached, never both: `deletedPartitions` keeps `PartitionAttach()` and writers
  from the first kind, and the absence of another administrator from the second.
* `DroppedStaysAway`: `Spec => []DroppedDayStaysAway`, because a day has one partition on the
  list, and a dropped day none (`DropInv`).
* `CloseIsAlone`: `Forcer = {} => (Spec => []CloseFindsNoUsers)`; with forced merges it is
  false (`MCPartitions_force.cfg`).

*`NetInsert_proofs`*, from `SizeAssumption` and `WriterAssumption` (sizes are positive,
writers are finitely many and not nodes), for any number of nodes, rows, writers, buffers and failures:

* `NothingIsLost`: `Spec => []NoRowIsLost`.
* `DuplicatesAreDoubts`: `Spec => []DuplicatesComeFromFailures`. Their common invariant says that the pool
  holds empty buffers (`EmptyInv`), only senders have rows in theirs (`PoolInv`), a flusher
  which has flushed for the last time leaves nothing (`StopInv`), `streamRowsTracker` gives
  each row a number of its own (`FreshInv`) and a row is in one buffer at most
  (`DisjointInv`). From these follow that a row leaves the buffers only when it is stored
  or dropped (`KeepInv`), and that all requests which have stored a buffered row have failed
  (`CopyInv`). Locks and the order of the nodes aren't needed.
* `BuffersAreKept`: `Spec => []NetInv`. Buffers in the pool and with senders are as many as at
  the start (`CountInv`, where finitely many writers are needed to count), and a block has
  room for another row whenever one is added (`FillInv`): rows are added below the limit, or
  to an empty block which has just replaced a full one.

*`Tailer_proofs`*, from `FileAssumption` and `LineAssumption` (bounds are numbers, 0 is no
inode, every line has a kind and a stream), for any number of files, lines, inodes, stops
and crashes. What the processor makes of the lines read at once is a function of their number,
so a property of `AddLine` for one line becomes one of `LinesAdded` for all of them by the
well-foundedness of the numbers.

* `TailBaseHolds`: `Spec => []TailBase`, the part which the rest stands on: files appear one
  after another (`FilesInv`); the open file, its offset and all three checkpoints are
  somewhere in a file, a checkpoint behind a line which is neither a part nor too long
  (`PositionInv`); and a
  file is left only when the application has left it (`TurnInv`), unless the file appeared
  between a failed open and its status. `PanicsOnlyLate` is the consequence for "log file was
  appended after rotation".
* `NoDuplicatesHolds`: `Spec => []NoDuplicates`, for any streams. That no line was sent twice
  isn't inductive: nothing may have been sent, or be pending, ahead of the position
  (`Fresh`), and what was sent must be behind the checkpoint a restart will use - the commit
  while a file is open, the one in memory while idle, the saved one while down (`FreshInv`).
* `TailInvHolds`, `EntriesAreWholeHolds`: `Unmixed => (Spec => []TailInv)`, and the same for
  `EntriesAreWhole`. What is needed beyond `LinesAreKept` is `CompleteInv`: every line between
  the checkpoint and the position is pending, or is one which is skipped; every line a restart
  skips was sent or given up, for the checkpoint in the file's object, in memory and on disk;
  and a line is given up only when an invalid line comes after it, or a last part makes its
  entry too large (`GivenUp`). `Unmixed` - a log which splits entries has one stream, and
  neither `json` nor `void` lines - is necessary: any line which is committed while lines are
  pending makes the checkpoint overtake them, and a restart loses them
  (`MCTailer_streams.cfg`). Logs of file collectors (no parts), of Docker (no parts), and of
  containers which write to one stream satisfy it. An invalid line does the same, but what
  it overtakes is dropped in any case; `EntriesAreWhole` says nothing of entries with an
  invalid line in the middle, whose end is sent alone (`MCTailer_invalid.cfg`).

*`Query_proofs`*, from the assumptions of `Query` and `QueryPipes`:

* `OptimizerKeepsAnswers`: for every sequence `ps` of pipes of clients, with any offsets and
  limits, and every finite set of rows, `Outcomes(OptimizeOffsetLimit(ps), rows) =
  Outcomes(ps, rows)` - results which may be given, with their order, are neither added nor
  removed. Each rewriting rule yields pipes through which exactly the same rows go as through
  the pair it replaces (`ReplacementFits`, resting on `WindowOfWindow` and `CutOfCut`, which are about parts of
  parts of a sequence); a loop over the neighbours keeps this (`RewriteKeeps`), so do the
  dropping of `offset 0` (`DropKeeps`), the sequence of loops (`OptimizeOnceKeeps`) and their
  repetition. The code's numbers have 64 bits and those of the theorem any size, so
  `offset X | limit Y` whose sum overflows is outside of it. So is `optimizeUniqLimitPipes()`:
  it is wrong for `uniq | limit 0` (section 5) and not an equality for `uniq with hits |
  limit N`, and only the types of what it gives are proved (lemma `OptimizeType`).
* `QueryInvHolds`: `Spec => []QueryInv`, for any number of nodes, any queries, rows, budgets
  and failures, from the inductive `QueryIInv` (`QueryIInvHolds`), which adds two facts to it: a
  goroutine which will cancel a pipe on its return owes it to one which needs no rows
  (`OwedIsJustified`) - counters of limits only grow and budgets only shrink, so it stays
  so until the call returns - and no query has a result before the search is over
  (`NoEarlyResult`), or the result of a flush could not be told from one of the search. Without partial responses no failed
  request is taken for a success, and with them not all nodes are unavailable
  (`MissingNodesAreAllowed`); which other error may still be hidden is the finding of
  `MCQuery_partial.cfg`.
  `LastNAssumption` says that the nodes of the instance which search the last N rows send
  sequences of rows; `SearchLastN` recurs over ranges of integers, and that it has values at
  all would need induction over them. TLC evaluates it in the run `query`.

Only model-checked: `AnswerIsTrue` and `OutputIsPartOfAnswer`, which are false for some
queries (the configurations `MCQuery_*.cfg` but `answer`), so that no theorem for every value
of the constants holds; the search for the last N rows; and all liveness, since TLAPS doesn't
support fairness and ENABLED. `DeleteResultIsTrue`, `SwapFindsItsSources`,
`StoppedTaskIsDropped`, `NeverPanics` and `PartialAnswerIsTrue` can't be proved: the code
violates them.

## 5. Where the code differs from what it says

The configurations named here aren't all part of the runs of `PROJECT.json`; each
violates its property when given to TLC (`tlc -config X.cfg M`).

* `MCDatadbDelete_swap.cfg` (run `delete_swap`): `deleteRows()` may claim a part which a merge
  has already replaced; the swap panics with "BUG: unexpected number of parts removed",
  after rewriting `parts.json`. `OnlyMatchingRowsAreDeleted` shows that no other row is lost
  by it.
* `MCDatadbDelete_result.cfg`: a delete which is stopped may report success, so a task cut
  short by a restart or a cancellation can be taken for completed. `RegisteredTaskIsSaved`
  names this case (`cut`).
* `MCDeleteTasks_stop.cfg`: a task canceled while its subqueries are initialized is queued
  again.
* `MCPartitions_detach.cfg`: attaching a partition whose detach still waits opens its
  directory twice.
* `MCPartitions_force.cfg`: a forced merge can make `MustClose()` panic. It may even take a
  partition which `MustClose()` has closed, and panic itself; `PtwInv` is false then.
* `MCTailer_late.cfg` (`NeverPanics`): a log file which appears between a failed open and the
  check of its status is taken for a rotated one; if it is appended to while it is read, the
  tailer panics. The mild form, `lateFile`, drops an incomplete line of the live file.
* `MCTailer_streams.cfg` (`EntriesAreWhole`): the checkpoint of one stream of a container
  overtakes an unfinished entry of the other, whose first lines are lost by a restart.
* `MCTailer_invalid.cfg` (`EntriesAreUncut`): after "skipping invalid CRI log line" the valid
  lines kept before it are dropped too, those of the other stream included, and the end of
  their entry is sent as an entry of its own.
* `notReopened` (no configuration of its own: drop the condition from `NoDuplicates`): if the
  log is missing when the rotated file was read to its end, its last lines are sent again
  after a graceful restart.
* `MCQuery_partial.cfg` (`PartialAnswerIsTrue`): with `allow_partial_response`, an error which
  isn't "unavailable" cancels the other nodes, and is hidden if a node with a lower index has
  ended without an error, or with the cancellation, which counts as none.
* `MCQuery_offset.cfg` (`AnswerIsTrue` for `sort | offset 1`): without a limit the nodes return
  only as many rows as are to be skipped.
* `MCQuery_uniq.cfg` (`AnswerIsTrue` for `uniq | limit 0`): all the values are returned.
* `MCQuery_ties.cfg` (`AnswerIsTrue` for the last two logs): with 2·N or more rows at the very
  start of a half of the time range - here three of the moment 6, `From` being 0 and `To` 11,
  and one after it - the ranges shrink towards that moment without reaching it, and the
  answer is the later row twice.
* `MCQuery_shift.cfg` (`AnswerIsTrue` for the last log with `time_offset`): the search takes a
  time range from which the offset is already subtracted, and every part of it has the offset
  subtracted again; with enough rows for a search the answer is empty or lacks the newest.
* `MCQuery_count.cfg` (`AnswerIsTrue` for `limit 2 | stats count()`): vlselect needs no columns
  to count rows, so the nodes send blocks without columns, which have no rows; it counts 0.

Smaller observations, without a configuration: `uniq with hits limit N` sets hits to zero as
soon as one node has dropped values, as intended, but `uniq with hits | limit N` is merged
into it and then zeroes hits of a query which asks for them before the limit; `offset X |
limit Y` becomes `limit X+Y`, which may overflow 64 bits. Such queries aren't among those of
the run `query`.

`SnapshotIsComplete` is stated for rows which are on disk or in in-memory parts nobody
merges when the snapshot starts: rows of in-memory parts which another goroutine is merging
at that moment may miss the snapshot, although the comment in `mustCreateSnapshotAt()` says
that in-memory parts are flushed first. The same holds for streams in the snapshot of the
index (`skipped`).

## 6. Not modelled, and the plan

Next, in this order:

1. Pure algorithms: the block stream merger against a reference definition over bounded
   inputs; the selection of streams by tag filters.
2. `RowsBuffer`: the timer and the wait group of a shard; merge slots over several
   partitions.
3. vlagent's remote write: pending rows, queues per remote storage, retries.
4. In `Tailer`: truncation (copytruncate), `CleanupCheckpoints()` and several paths; contents:
   an entry with too many fields, or whose content is empty, counts as sent.

Left out for good: parsing of LogsQL, filters over blocks and the many pipes and stats
functions which keep no state between rows or are like the ones modelled (a large pure
language with its own table-driven tests), encodings and file formats, protocol parsers, the
caps of the last-N search, `sort partition by`, failing imports of stats states, HTTP
handlers, the user interfaces, and vendored persistent queues. Discovery of files and pods,
and truncated logs, for which losing lines is accepted by design, aren't modelled.
