----------------------------- MODULE Partitions -----------------------------
(***************************************************************************)
(* The list of per-day partitions: lib/logstorage/storage.go from          *)
(* MustOpenStorage() to MustClose(), without what happens inside a         *)
(* partition (Datadb) and the queue of delete tasks (DeleteTasks).         *)
(*                                                                         *)
(* Writers, searches, forced merges and the background goroutines of the   *)
(* storage use partitions without partitionsLock, protected by reference   *)
(* counts only, while two watchers drop partitions, administrators detach  *)
(* and attach them, and external tools change the directories of detached  *)
(* ones.  The last user of a partition closes it, and deletes it if it     *)
(* was dropped.                                                            *)
(***************************************************************************)
EXTENDS Integers, FiniteSets

CONSTANTS
  Day,         \* days of the rows, integers
  Ptw,         \* identities of partitionWrapper objects
  NoPtw,
  Writer,      \* callers of MustAddRows()
  Reader,      \* searches, and others who take references to partitions
  Background,  \* the goroutines of s.wg which do the same (delete tasks, snapshots)
  Forcer,      \* goroutines of MustForceMerge()
  Admin,       \* calls of PartitionDetach() and PartitionAttach()
  Retention,   \* -retentionPeriod in days
  Future       \* values of -futureRetention in days; a restart may change it

Watcher == {"retention", "disk"}
User == Writer \cup Reader \cup Background \cup Forcer

ASSUME PtwAssumption == NoPtw \notin Ptw

ASSUME DayAssumption ==
  /\ Day \subseteq Nat /\ IsFiniteSet(Day) /\ Day # {}
  /\ Retention \in Nat /\ Future \subseteq Nat /\ Future # {}

ASSUME ActorAssumption ==
  /\ Writer \cap (Reader \cup Background \cup Forcer \cup Admin) = {}
  /\ Reader \cap (Background \cup Forcer \cup Admin) = {}
  /\ Background \cap (Forcer \cup Admin) = {} /\ Forcer \cap Admin = {}
  /\ (Watcher \cup {"closer"}) \cap (User \cup Admin) = {}

VARIABLES
  phase,              \* "open", "stopping" (stopCh is closed), "closing", "closed", "crashed"
  now,                \* the current day
  future,             \* s.futureRetention
  partitions,         \* s.partitions
  ptwHot,             \* s.ptwHot
  deletedPartitions,  \* s.deletedPartitions
  dirs,               \* days with a directory under partitions/
  st,                 \* st[w]: "none", "open", or "closing" in decRef()
  day,                \* ptw.day
  refs,               \* ptw.refCount
  mustDrop,           \* wrappers with mustDrop set
  by,                 \* by[w]: who closes w, because it has dropped the last reference
  upc,                \* position of a user
  held,               \* held[u]: wrappers the user has references to
  todo,               \* days a writer still has rows for
  apc,                \* position of an administrative call
  target,             \* the wrapper PartitionDetach() has taken from the list
  todrop,             \* wrappers a watcher, or MustClose(), still has to drop
  released            \* days left to external tools: detached, and not in use since

clock   == <<now, future>>
lists   == <<partitions, ptwHot, deletedPartitions>>
objects == <<st, day, refs, mustDrop, by>>
users   == <<upc, held, todo>>
admins  == <<apc, target, released>>

vars == <<phase, clock, lists, dirs, objects, users, admins, todrop>>

\* Types, and a user which isn't at work holds no references.
PTypeOK ==
  /\ phase \in {"open", "stopping", "closing", "closed", "crashed"}
  /\ now \in Nat /\ future \in Future
  /\ partitions \subseteq Ptw /\ ptwHot \in Ptw \cup {NoPtw}
  /\ deletedPartitions \subseteq Day /\ dirs \subseteq Day
  /\ st \in [Ptw -> {"none", "open", "closing"}]
  /\ day \in [Ptw -> Day] /\ refs \in [Ptw -> Int] /\ mustDrop \subseteq Ptw
  /\ by \in [Ptw -> User \cup Admin \cup Watcher \cup {"closer"}]
  /\ upc \in [User -> {"idle", "hot", "split", "slow", "writing", "reading",
                       "launched", "got", "merging"}]
  /\ held \in [User -> SUBSET Ptw]
  /\ \A u \in User : upc[u] \in {"idle", "split", "slow", "launched"} => held[u] = {}
  /\ todo \in [Writer -> SUBSET Day]
  /\ apc \in [Admin -> {"idle", "detaching", "waiting"}]
  /\ target \in [Admin -> Ptw \cup {NoPtw}]
  /\ todrop \in [Watcher \cup {"closer"} -> SUBSET Ptw]
  /\ released \subseteq Day

-----------------------------------------------------------------------------
(* Helpers *)

InUse == phase \in {"open", "stopping", "closing"}
MinDay == now - Retention
MaxDay == now + future
AnyDay == CHOOSE d \in Day : TRUE
Listed(d) == {w \in partitions : day[w] = d}

\* Who drops the last reference closes the partition before it goes on.
Busy(x) == \E w \in Ptw : st[w] = "closing" /\ by[w] = x

\* A new partitionWrapper is an object nobody refers to.
FreshPtw == {w \in Ptw : st[w] = "none" /\ w \notin partitions
                         /\ \A a \in Admin : target[a] # w}

NewPtw(w, d) ==
  /\ st' = [st EXCEPT ![w] = "open"]
  /\ day' = [day EXCEPT ![w] = d]
  /\ partitions' = partitions \cup {w}

IncRef(S) == refs' = [w \in Ptw |-> IF w \in S THEN refs[w] + 1 ELSE refs[w]]

DecRef(w, x) ==
  /\ refs' = [refs EXCEPT ![w] = @ - 1]
  /\ IF refs[w] = 1
     THEN st' = [st EXCEPT ![w] = "closing"] /\ by' = [by EXCEPT ![w] = x]
     ELSE UNCHANGED <<st, by>>
  /\ UNCHANGED day

\* The last reference to a partition which was closed already: closing it again panics.
ClosedTwice(w) == refs[w] = 1 /\ st[w] # "open"

Init ==
  /\ phase = "open" /\ now = Retention /\ future \in Future
  /\ partitions = {} /\ ptwHot = NoPtw /\ deletedPartitions = {} /\ dirs = {}
  /\ st = [w \in Ptw |-> "none"] /\ day = [w \in Ptw |-> AnyDay]
  /\ refs = [w \in Ptw |-> 0] /\ mustDrop = {} /\ by = [w \in Ptw |-> "closer"]
  /\ upc = [u \in User |-> "idle"] /\ held = [u \in User |-> {}]
  /\ todo = [u \in Writer |-> {}]
  /\ apc = [a \in Admin |-> "idle"] /\ target = [a \in Admin |-> NoPtw]
  /\ todrop = [x \in Watcher \cup {"closer"} |-> {}] /\ released = {}

\* The rest of decRef() when the last reference is gone: the partition is closed,
\* deleted if it must be dropped, and doneCh is closed.  MustClose() then checks that
\* nobody has taken another reference.
FinishClose(w) ==
  /\ InUse
  /\ st[w] = "closing" /\ (by[w] = "closer" => refs[w] = 0)
  /\ st' = [st EXCEPT ![w] = "none"]
  /\ dirs' = IF w \in mustDrop THEN dirs \ {day[w]} ELSE dirs
  /\ mustDrop' = mustDrop \ {w}
  /\ by' = [by EXCEPT ![w] = "closer"]
  /\ UNCHANGED <<phase, clock, lists, day, refs, users, admins, todrop>>

\* The process forgets everything but the directories.
LoseMemory ==
  /\ partitions' = {} /\ ptwHot' = NoPtw /\ deletedPartitions' = {}
  /\ st' = [w \in Ptw |-> "none"] /\ day' = [w \in Ptw |-> AnyDay]
  /\ refs' = [w \in Ptw |-> 0] /\ mustDrop' = {} /\ by' = [w \in Ptw |-> "closer"]
  /\ upc' = [u \in User |-> "idle"] /\ held' = [u \in User |-> {}]
  /\ todo' = [u \in Writer |-> {}]
  /\ apc' = [a \in Admin |-> "idle"] /\ target' = [a \in Admin |-> NoPtw]
  /\ todrop' = [x \in Watcher \cup {"closer"} |-> {}] /\ released' = {}

\* A day passes.
Tick ==
  /\ now' = now + 1
  /\ \E d \in Day : d >= now' - Retention
  /\ UNCHANGED <<phase, future, lists, dirs, objects, users, admins, todrop>>

-----------------------------------------------------------------------------
(* MustAddRows() *)

\* The rows are of the days D. The hot partition is taken under the lock; it gets the
\* rows if all of them belong to its day.
WriteStart(u, D) ==
  /\ phase = "open" /\ ~Busy(u)
  /\ upc[u] = "idle" /\ D # {}
  /\ todo' = [todo EXCEPT ![u] = D]
  /\ held' = [held EXCEPT ![u] = {ptwHot} \ {NoPtw}]
  /\ IncRef({ptwHot} \ {NoPtw})
  /\ upc' = [upc EXCEPT ![u] = IF ptwHot = NoPtw THEN "split"
                               ELSE IF D = {day[ptwHot]} THEN "writing" ELSE "hot"]
  /\ UNCHANGED <<phase, clock, lists, dirs, st, day, mustDrop, by, admins, todrop>>

\* (mutant) the reference isn't given back
WriteSkipHotLeak(u) ==
  /\ upc[u] = "hot" /\ InUse
  /\ held' = [held EXCEPT ![u] = {}]
  /\ upc' = [upc EXCEPT ![u] = "split"]
  /\ UNCHANGED <<phase, clock, lists, dirs, objects, todo, admins, todrop>>

\* Some rows aren't of the hot day.
WriteSkipHot(u) ==
  /\ upc[u] = "hot" /\ InUse
  /\ \E w \in held[u] : DecRef(w, u)
  /\ held' = [held EXCEPT ![u] = {}]
  /\ upc' = [upc EXCEPT ![u] = "split"]
  /\ UNCHANGED <<phase, clock, lists, dirs, mustDrop, todo, admins, todrop>>

\* Rows outside the retention are dropped, the others are split by day.
WriteSplit(u) ==
  /\ upc[u] = "split" /\ InUse /\ ~Busy(u)
  /\ todo' = [todo EXCEPT ![u] = {d \in @ : MinDay <= d /\ d <= MaxDay}]
  /\ upc' = [upc EXCEPT ![u] = IF todo'[u] = {} THEN "idle" ELSE "slow"]
  /\ UNCHANGED <<phase, clock, lists, dirs, objects, held, admins, todrop>>

\* A partition is created for a day which isn't attached, wasn't dropped, and has no
\* directory, for example that of a detached partition.
MayCreate(d) == Listed(d) = {} /\ d \notin deletedPartitions /\ d \notin dirs

\* getPartitionForWriting() returns a partition ...
WriteTake(u, d) ==
  /\ upc[u] = "slow" /\ InUse /\ ~Busy(u) /\ d \in todo[u]
  /\ \/ /\ \E w \in Listed(d) :
             /\ ptwHot' = w
             /\ held' = [held EXCEPT ![u] = {w}]
             /\ IncRef({w})
        /\ UNCHANGED <<partitions, dirs, st, day, released>>
     \/ /\ MayCreate(d)
        /\ \E w \in FreshPtw :
             /\ NewPtw(w, d)
             /\ ptwHot' = w
             /\ held' = [held EXCEPT ![u] = {w}]
             /\ refs' = [refs EXCEPT ![w] = 2]
        /\ dirs' = dirs \cup {d}
        /\ released' = released \ {d}
  /\ upc' = [upc EXCEPT ![u] = "writing"]
  /\ UNCHANGED <<phase, clock, deletedPartitions, mustDrop, by, todo, apc, target, todrop>>

\* ... or nil: the rows of the day are dropped.
WriteSkip(u, d) ==
  /\ upc[u] = "slow" /\ InUse /\ ~Busy(u) /\ d \in todo[u]
  /\ Listed(d) = {} /\ ~MayCreate(d)
  /\ todo' = [todo EXCEPT ![u] = @ \ {d}]
  /\ upc' = [upc EXCEPT ![u] = IF todo'[u] = {} THEN "idle" ELSE "slow"]
  /\ UNCHANGED <<phase, clock, lists, dirs, objects, held, admins, todrop>>

\* The rows are added to the partition, and the reference is given back.
WriteDone(u) ==
  /\ upc[u] = "writing" /\ InUse
  /\ \E w \in held[u] : DecRef(w, u) /\ todo' = [todo EXCEPT ![u] = @ \ {day[w]}]
  /\ held' = [held EXCEPT ![u] = {}]
  /\ upc' = [upc EXCEPT ![u] = IF todo'[u] = {} THEN "idle" ELSE "slow"]
  /\ UNCHANGED <<phase, clock, lists, dirs, mustDrop, admins, todrop>>

-----------------------------------------------------------------------------
(* Others who use partitions *)

\* getPartitionsForTimeRange() and getPartitions(): the partitions of consecutive days.
Take(u, S, next) ==
  /\ held' = [held EXCEPT ![u] = S]
  /\ IncRef(S)
  /\ upc' = [upc EXCEPT ![u] = next]
  /\ UNCHANGED <<phase, clock, lists, dirs, st, day, mustDrop, by, todo, admins, todrop>>

\* A search, or a goroutine of s.wg: the latter may start after stopCh was closed,
\* since select may choose a tick.
ReadStart(u) ==
  /\ phase = "open" \/ (phase = "stopping" /\ u \in Background)
  /\ upc[u] = "idle" /\ ~Busy(u)
  /\ \E lo, hi \in Day :
       LET S == {w \in partitions : lo <= day[w] /\ day[w] <= hi}
       IN S # {} /\ Take(u, S, "reading")

\* ptwsDecRef() and putPartitions(), one partition at a time.
ReleaseNext(u) ==
  /\ upc[u] = "reading" /\ InUse /\ ~Busy(u)
  /\ \E w \in held[u] :
       /\ ~ClosedTwice(w)
       /\ DecRef(w, u)
       /\ held' = [held EXCEPT ![u] = @ \ {w}]
       /\ upc' = [upc EXCEPT ![u] = IF held[u] = {w} THEN "idle" ELSE @]
  /\ UNCHANGED <<phase, clock, lists, dirs, mustDrop, todo, admins, todrop>>

\* processForceMerge() runs MustForceMerge() in a goroutine which nobody waits for.
ForceLaunch(f) ==
  /\ phase = "open" /\ upc[f] = "idle" /\ ~Busy(f)
  /\ upc' = [upc EXCEPT ![f] = "launched"]
  /\ UNCHANGED <<phase, clock, lists, dirs, objects, held, todo, admins, todrop>>

\* MustClose() clears the list after it has closed all the partitions.
ForceTake(f) ==
  /\ InUse /\ upc[f] = "launched"
  /\ Take(f, partitions, "got")

\* s.wg.Add(1)
ForceMerge(f) ==
  /\ InUse /\ upc[f] = "got"
  /\ upc' = [upc EXCEPT ![f] = "merging"]
  /\ UNCHANGED <<phase, clock, lists, dirs, objects, held, todo, admins, todrop>>

\* The deferred s.wg.Done() runs before the deferred putPartitions().
ForceDone(f) ==
  /\ InUse /\ upc[f] = "merging"
  /\ \A w \in held[f] : st[w] # "none"
  /\ upc' = [upc EXCEPT ![f] = IF held[f] = {} THEN "idle" ELSE "reading"]
  /\ UNCHANGED <<phase, clock, lists, dirs, objects, held, todo, admins, todrop>>

\* The merge meets a partition MustClose() closes or has closed, or gives back the last
\* reference to it: the goroutine panics.
ForcePanic(f) ==
  /\ InUse
  /\ \/ upc[f] = "merging" /\ \E w \in held[f] : st[w] # "open"
     \/ upc[f] = "reading" /\ ~Busy(f) /\ \E w \in held[f] : ClosedTwice(w)
  /\ phase' = "crashed"
  /\ LoseMemory
  /\ UNCHANGED <<clock, dirs>>

-----------------------------------------------------------------------------
(* dropStalePartitions() and watchMaxDiskSpaceUsage() *)

\* The partitions leave the list, and ptwHot if it is one of them.
Unlist(S) ==
  /\ partitions' = partitions \ S
  /\ ptwHot' = IF ptwHot \in S THEN NoPtw ELSE ptwHot

\* Under partitionsLock: the partitions of S are taken from the list.
Drop(x, S) ==
  /\ S # {}
  /\ phase \in {"open", "stopping"} /\ todrop[x] = {} /\ ~Busy(x)
  /\ Unlist(S)
  /\ deletedPartitions' = deletedPartitions \cup {day[w] : w \in S}
  /\ todrop' = [todrop EXCEPT ![x] = S]
  /\ UNCHANGED <<phase, clock, dirs, objects, users, admins>>

DropStale == Drop("retention", {w \in partitions : day[w] < MinDay})

\* All the partitions up to some day, but the last two are always kept.
DropBySize ==
  \E d \in Day :
    LET S == {w \in partitions : day[w] <= d}
    IN Cardinality(partitions \ S) >= 2 /\ Drop("disk", S)

\* (mutant) mustDrop isn't set
DropNextKeepingDir(x) ==
  /\ phase \in {"open", "stopping"} /\ ~Busy(x)
  /\ \E w \in todrop[x] :
       /\ DecRef(w, x)
       /\ todrop' = [todrop EXCEPT ![x] = @ \ {w}]
  /\ UNCHANGED <<phase, clock, lists, dirs, mustDrop, users, admins>>

\* Without the lock: mustDrop is set, and the reference of the list is given back.
DropNext(x) ==
  /\ phase \in {"open", "stopping"} /\ ~Busy(x)
  /\ \E w \in todrop[x] :
       /\ mustDrop' = mustDrop \cup {w}
       /\ DecRef(w, x)
       /\ todrop' = [todrop EXCEPT ![x] = @ \ {w}]
  /\ UNCHANGED <<phase, clock, lists, dirs, users, admins>>

-----------------------------------------------------------------------------
(* PartitionDetach(), PartitionAttach(), and what external tools do *)

Detach(a, d) ==
  /\ phase = "open" /\ apc[a] = "idle"
  /\ \E w \in Listed(d) :
       /\ Unlist({w})
       /\ target' = [target EXCEPT ![a] = w]
  /\ apc' = [apc EXCEPT ![a] = "detaching"]
  /\ UNCHANGED <<phase, clock, deletedPartitions, dirs, objects, users, todrop, released>>

DetachDecRef(a) ==
  /\ apc[a] = "detaching" /\ InUse
  /\ DecRef(target[a], a)
  /\ apc' = [apc EXCEPT ![a] = "waiting"]
  /\ UNCHANGED <<phase, clock, lists, dirs, mustDrop, users, target, todrop, released>>

\* (mutant) nobody waits for doneCh
DetachReturnAtOnce(a) ==
  /\ apc[a] = "waiting" /\ InUse /\ ~Busy(a)
  /\ apc' = [apc EXCEPT ![a] = "idle"]
  /\ target' = [target EXCEPT ![a] = NoPtw]
  /\ released' = released \cup {day[target[a]]}
  /\ UNCHANGED <<phase, clock, lists, dirs, objects, users, todrop>>

\* doneCh is closed: the detached directory is left to external tools.
DetachReturn(a) ==
  /\ apc[a] = "waiting" /\ InUse /\ ~Busy(a)
  /\ st[target[a]] = "none"
  /\ apc' = [apc EXCEPT ![a] = "idle"]
  /\ target' = [target EXCEPT ![a] = NoPtw]
  /\ released' = released \cup {day[target[a]]}
  /\ UNCHANGED <<phase, clock, lists, dirs, objects, users, todrop>>

\* (mutant) dropped days may be attached
AttachDropped(a, d) ==
  /\ phase = "open" /\ apc[a] = "idle"
  /\ Listed(d) = {} /\ d \in dirs
  /\ \E w \in FreshPtw : NewPtw(w, d) /\ refs' = [refs EXCEPT ![w] = 1]
  /\ released' = released \ {d}
  /\ UNCHANGED <<phase, clock, ptwHot, deletedPartitions, dirs, mustDrop, by, users, apc,
                 target, todrop>>

Attach(a, d) ==
  /\ phase = "open" /\ apc[a] = "idle"
  /\ d \notin deletedPartitions
  /\ Listed(d) = {} /\ d \in dirs
  /\ \E w \in FreshPtw : NewPtw(w, d) /\ refs' = [refs EXCEPT ![w] = 1]
  /\ released' = released \ {d}
  /\ UNCHANGED <<phase, clock, ptwHot, deletedPartitions, dirs, mustDrop, by, users, apc,
                 target, todrop>>

\* An external tool removes a released directory, or puts one in its place.
ReplaceDir(d) ==
  /\ d \in released
  /\ dirs' = IF d \in dirs THEN dirs \ {d} ELSE dirs \cup {d}
  /\ UNCHANGED <<phase, clock, lists, objects, users, admins, todrop>>

-----------------------------------------------------------------------------
(* MustClose(), crashes and MustOpenStorage() *)

\* MustClose() is called when the HTTP servers are stopped: nobody but forced merges
\* and the goroutines of s.wg uses the storage.
CloseBegin ==
  /\ phase = "open"
  /\ \A u \in Writer \cup Reader : upc[u] = "idle" /\ ~Busy(u)
  /\ \A a \in Admin : apc[a] = "idle"
  /\ phase' = "stopping"
  /\ UNCHANGED <<clock, lists, dirs, objects, users, admins, todrop>>

\* (mutant) the goroutines of s.wg aren't waited for
CloseWaitNot ==
  /\ phase = "stopping"
  /\ phase' = "closing"
  /\ todrop' = [todrop EXCEPT !["closer"] = partitions]
  /\ UNCHANGED <<clock, lists, dirs, objects, users, admins>>

\* s.wg.Wait() returned.
CloseWait ==
  /\ phase = "stopping"
  /\ \A x \in Watcher : todrop[x] = {} /\ ~Busy(x)
  /\ \A u \in Background : upc[u] = "idle" /\ ~Busy(u)
  /\ \A f \in Forcer : upc[f] # "merging"
  /\ phase' = "closing"
  /\ todrop' = [todrop EXCEPT !["closer"] = partitions]
  /\ UNCHANGED <<clock, lists, dirs, objects, users, admins>>

\* The loop over s.partitions.
CloseNext ==
  /\ phase = "closing" /\ ~Busy("closer")
  /\ \E w \in todrop["closer"] :
       /\ refs[w] = 1
       /\ DecRef(w, "closer")
       /\ todrop' = [todrop EXCEPT !["closer"] = @ \ {w}]
  /\ UNCHANGED <<phase, clock, lists, dirs, mustDrop, users, admins>>

\* "BUG: there are %d users of partition": some had it before, or took it while it was
\* closed.
ClosePanic ==
  /\ phase = "closing"
  /\ \/ ~Busy("closer") /\ \E w \in todrop["closer"] : refs[w] # 1
     \/ \E w \in Ptw : st[w] = "closing" /\ by[w] = "closer" /\ refs[w] # 0
  /\ phase' = "crashed"
  /\ LoseMemory
  /\ UNCHANGED <<clock, dirs>>

CloseEnd ==
  /\ phase = "closing" /\ ~Busy("closer")
  /\ todrop["closer"] = {}
  /\ phase' = "closed"
  /\ LoseMemory
  /\ UNCHANGED <<clock, dirs>>

Crash ==
  /\ InUse
  /\ phase' = "crashed"
  /\ LoseMemory
  /\ UNCHANGED <<clock, dirs>>

\* MustOpenStorage() opens every directory; those beyond the future retention are
\* dropped at once.
Open ==
  /\ phase \in {"closed", "crashed"}
  /\ phase' = "open"
  /\ future' \in Future
  /\ dirs' = {d \in dirs : d <= now + future'}
  /\ \E S \in SUBSET Ptw, f \in [Ptw -> Day] :
       /\ {f[w] : w \in S} = dirs' /\ \A w, v \in S : f[w] = f[v] => w = v
       /\ \A w \in Ptw \ S : f[w] = day[w]
       /\ partitions' = S
       /\ day' = f
       /\ st' = [w \in Ptw |-> IF w \in S THEN "open" ELSE "none"]
       /\ refs' = [w \in Ptw |-> IF w \in S THEN 1 ELSE 0]
  /\ UNCHANGED <<now, ptwHot, deletedPartitions, mustDrop, by, users, admins, todrop>>

Next ==
  \/ Tick
  \/ \E w \in Ptw : FinishClose(w)
  \/ \E u \in Writer :
       \/ WriteSkipHot(u) \/ WriteSplit(u) \/ WriteDone(u)
       \/ \E D \in SUBSET Day : WriteStart(u, D)
       \/ \E d \in Day : WriteTake(u, d) \/ WriteSkip(u, d)
  \/ \E u \in Reader \cup Background : ReadStart(u) \/ ReleaseNext(u)
  \/ \E f \in Forcer :
       \/ ForceLaunch(f) \/ ForceTake(f) \/ ForceMerge(f) \/ ForceDone(f) \/ ForcePanic(f)
       \/ ReleaseNext(f)
  \/ DropStale \/ DropBySize \/ \E x \in Watcher : DropNext(x)
  \/ \E a \in Admin :
       \/ DetachDecRef(a) \/ DetachReturn(a)
       \/ \E d \in Day : Detach(a, d) \/ Attach(a, d)
  \/ \E d \in Day : ReplaceDir(d)
  \/ CloseBegin \/ CloseWait \/ CloseNext \/ ClosePanic \/ CloseEnd
  \/ Crash \/ Open

Spec == Init /\ [][Next]_vars

-----------------------------------------------------------------------------
\* The reference of the list, until the one who took the partition from it gives
\* it back.
HasList(w) ==
  \/ w \in partitions /\ (phase = "closing" => w \in todrop["closer"])
  \/ \E x \in Watcher : w \in todrop[x]
  \/ \E a \in Admin : apc[a] = "detaching" /\ target[a] = w

PtwHolders(w) == {u \in User : w \in held[u]}

\* refCount counts exactly the list and the users, whoever takes partitions from the
\* list meanwhile: a partition is closed when its last user is done, and not before.
\* (Forced merges may take partitions MustClose() has closed.)
PtwRefsAreExact ==
  \A w \in Ptw :
    /\ refs[w] = (IF HasList(w) THEN 1 ELSE 0) + Cardinality(PtwHolders(w))
    /\ st[w] = "open" <=> refs[w] > 0

\* Rows are written to, and read from, partitions which are open and have their
\* directories, although they may be dropped or detached, and their directories left
\* to external tools, at any time.
UsedPartitionsExist ==
  \A u \in User : \A w \in held[u] : st[w] = "open" /\ day[w] \in dirs

\* Types; partitions live as long as somebody uses them.
PtwInv == PTypeOK /\ PtwRefsAreExact /\ UsedPartitionsExist

\* "It prevents from re-creating already deleted partitions" (deletedPartitions): until
\* a restart no dropped day is attached again, by a writer or by PartitionAttach(), and
\* the hot partition isn't a dropped or detached one.
DroppedDayStaysAway ==
  InUse => /\ \A w \in partitions : day[w] \notin deletedPartitions
           /\ ptwHot # NoPtw => ptwHot \in partitions

\* No two partitions are open on the same directory.
OnePartitionPerDirectory ==
  \A w, v \in Ptw : st[w] # "none" /\ st[v] # "none" /\ day[w] = day[v] => w = v

\* "safe on-disk manipulations of the detached partitions by external tools after
\* returning from the /internal/partition/detach endpoint": nothing uses the directory
\* of a partition whose detach has returned.
ReleasedDirIsUnused ==
  \A w \in Ptw : st[w] # "none" => day[w] \notin released

\* A directory has one user at most: a partition, or external tools.
DirectoriesAreSafe == OnePartitionPerDirectory /\ ReleasedDirIsUnused

\* "BUG: there are %d users of partition" (MustClose).
CloseFindsNoUsers ==
  phase = "closing" /\ ~Busy("closer") => \A w \in todrop["closer"] : refs[w] = 1

-----------------------------------------------------------------------------
\* Users of partitions finish, watchers go on, and so do administrative calls and
\* MustClose() once started.
Fairness ==
  /\ \A w \in Ptw : WF_vars(FinishClose(w))
  /\ \A u \in Writer : WF_vars(\/ WriteSkipHot(u) \/ WriteSplit(u) \/ WriteDone(u)
                               \/ \E d \in Day : WriteTake(u, d) \/ WriteSkip(u, d))
  /\ \A u \in User : WF_vars(ReleaseNext(u))
  /\ \A f \in Forcer : WF_vars(ForceTake(f) \/ ForceMerge(f) \/ ForceDone(f) \/ ForcePanic(f))
  /\ \A x \in Watcher : WF_vars(DropNext(x))
  /\ \A a \in Admin : WF_vars(DetachDecRef(a) \/ DetachReturn(a))
  /\ WF_vars(CloseWait) /\ WF_vars(CloseNext \/ CloseEnd)

FairSpec == Spec /\ Fairness

\* PartitionDetach() returns: new users can't keep the partition alive forever.
DetachTerminates == \A a \in Admin : apc[a] # "idle" ~> apc[a] = "idle"

\* The directory of a dropped partition is removed when its last user is done, unless
\* the process crashes first, or is stopped during a forced merge, which MustClose()
\* doesn't wait for: then the next process has to drop the partition again.
DroppedPartitionIsRemoved ==
  \A d \in Day :
    d \in deletedPartitions ~>
      d \notin dirs \/ phase = "crashed" \/ (phase = "closed" /\ Forcer # {})
=============================================================================
