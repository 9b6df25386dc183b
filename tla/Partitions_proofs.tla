-------------------------- MODULE Partitions_proofs --------------------------
(***************************************************************************)
(* Theorems about Partitions, for any number of days, wrappers, users and  *)
(* administrators.                                                         *)
(***************************************************************************)
EXTENDS Partitions, FiniteSetTheorems, TLAPS

\* A wrapper is on the list, with one of the watchers, or with one call of
\* PartitionDetach(), and the hot one is on the list.
ListInv ==
  /\ \A x \in Watcher : todrop[x] \cap partitions = {}
  /\ todrop["retention"] \cap todrop["disk"] = {}
  /\ \A a \in Admin : apc[a] # "idle" => target[a] \in Ptw
  /\ \A a \in Admin : apc[a] = "detaching" =>
       target[a] \notin partitions \cup todrop["retention"] \cup todrop["disk"]
  /\ \A a, b \in Admin :
       apc[a] = "detaching" /\ apc[b] = "detaching" /\ target[a] = target[b] => a = b
  /\ ptwHot # NoPtw => ptwHot \in partitions

\* What is at rest after MustClose() was called, ...
PhaseInv ==
  /\ phase \in {"stopping", "closing"} =>
       /\ \A a \in Admin : apc[a] = "idle"
       /\ \A u \in Writer \cup Reader : upc[u] = "idle"
  /\ phase = "closing" =>
       /\ \A u \in Background : upc[u] = "idle"
       /\ \A x \in Watcher : todrop[x] = {}
       /\ todrop["closer"] \subseteq partitions

\* ... and when there is no process.
NoProcess ==
  /\ partitions = {} /\ ptwHot = NoPtw /\ deletedPartitions = {} /\ mustDrop = {}
  /\ released = {}
  /\ \A w \in Ptw : st[w] = "none" /\ refs[w] = 0
  /\ \A u \in User : held[u] = {} /\ upc[u] = "idle"
  /\ \A a \in Admin : apc[a] = "idle" /\ target[a] = NoPtw
  /\ \A x \in Watcher \cup {"closer"} : todrop[x] = {}

RestInv == phase \in {"closed", "crashed"} => NoProcess

\* A writer has one partition at a time.
HoldInv == \A u \in Writer : \A w, v \in held[u] : w = v

\* Nobody takes a partition which was closed: MustClose() didn't get to the partitions,
\* or nobody forces merges.
NoLateUsers == phase # "closing" \/ Forcer = {}

RefsInv ==
  \A w \in Ptw :
    /\ IsFiniteSet(PtwHolders(w))
    /\ refs[w] = (IF HasList(w) THEN 1 ELSE 0) + Cardinality(PtwHolders(w))
    /\ st[w] = "open" => refs[w] > 0
    /\ HasList(w) => st[w] = "open"
    /\ NoLateUsers /\ refs[w] > 0 => st[w] = "open"

\* The inductive invariant of RefsCorrect.
IInv == PTypeOK /\ ListInv /\ PhaseInv /\ RestInv /\ HoldInv /\ RefsInv

-----------------------------------------------------------------------------
(* Counting references *)

\* The watchers, and who is one of them.
LEMMA WatcherFacts ==
  /\ "retention" \in Watcher /\ "disk" \in Watcher /\ "closer" \notin Watcher
  /\ \A x \in Watcher : x = "retention" \/ x = "disk"
BY DEF Watcher

\* Users of different kinds are different.
LEMMA UserFacts ==
  /\ Writer \subseteq User /\ Reader \subseteq User /\ Background \subseteq User
  /\ Forcer \subseteq User
  /\ \A u \in Reader \cup Background \cup Forcer : u \notin Writer
BY ActorAssumption DEF User

\* A user which had nothing takes the partitions S.
LEMMA Gain ==
  ASSUME PTypeOK, RefsInv, NEW u \in User, held[u] = {}, NEW S \in SUBSET Ptw,
         held' = [held EXCEPT ![u] = S]
  PROVE  \A v \in Ptw :
           /\ IsFiniteSet(PtwHolders(v)')
           /\ Cardinality(PtwHolders(v)')
                = Cardinality(PtwHolders(v)) + (IF v \in S THEN 1 ELSE 0)
<1> SUFFICES ASSUME NEW v \in Ptw
             PROVE  /\ IsFiniteSet(PtwHolders(v)')
                    /\ Cardinality(PtwHolders(v)')
                         = Cardinality(PtwHolders(v)) + (IF v \in S THEN 1 ELSE 0)
  OBVIOUS
<1>1. IsFiniteSet(PtwHolders(v)) /\ Cardinality(PtwHolders(v)) \in Nat
  BY FS_CardinalityType DEF RefsInv
<1>2. u \notin PtwHolders(v)
  BY DEF PtwHolders
<1>3. CASE v \in S
  <2>1. PtwHolders(v)' = PtwHolders(v) \cup {u}
    BY <1>3 DEF PtwHolders, PTypeOK
  <2> QED BY <1>1, <1>2, <1>3, <2>1, FS_AddElement
<1>4. CASE v \notin S
  <2>1. PtwHolders(v)' = PtwHolders(v)
    BY <1>4 DEF PtwHolders, PTypeOK
  <2> QED BY <1>1, <1>4, <2>1
<1> QED BY <1>3, <1>4

\* A user gives one partition back.
LEMMA Lose ==
  ASSUME PTypeOK, RefsInv, NEW u \in User, NEW w \in held[u],
         held' = [held EXCEPT ![u] = held[u] \ {w}]
  PROVE  \A v \in Ptw :
           /\ IsFiniteSet(PtwHolders(v)')
           /\ Cardinality(PtwHolders(v)')
                = Cardinality(PtwHolders(v)) - (IF v = w THEN 1 ELSE 0)
           /\ v = w => Cardinality(PtwHolders(v)) > 0
<1> SUFFICES ASSUME NEW v \in Ptw
             PROVE  /\ IsFiniteSet(PtwHolders(v)')
                    /\ Cardinality(PtwHolders(v)')
                         = Cardinality(PtwHolders(v)) - (IF v = w THEN 1 ELSE 0)
                    /\ v = w => Cardinality(PtwHolders(v)) > 0
  OBVIOUS
<1>1. IsFiniteSet(PtwHolders(v)) /\ Cardinality(PtwHolders(v)) \in Nat
  BY FS_CardinalityType DEF RefsInv
<1>2. CASE v = w
  <2>1. PtwHolders(v)' = PtwHolders(v) \ {u} /\ u \in PtwHolders(v)
    BY <1>2 DEF PtwHolders, PTypeOK
  <2>2. /\ IsFiniteSet(PtwHolders(v) \ {u})
        /\ Cardinality(PtwHolders(v) \ {u}) = Cardinality(PtwHolders(v)) - 1
    BY <1>1, <2>1, FS_RemoveElement
  <2>3. Cardinality(PtwHolders(v)) # 0
    BY <1>1, <2>1, FS_EmptySet
  <2> QED BY <1>1, <1>2, <2>1, <2>2, <2>3
<1>3. CASE v # w
  <2>1. PtwHolders(v)' = PtwHolders(v)
    BY <1>3 DEF PtwHolders, PTypeOK
  <2> QED BY <1>1, <1>3, <2>1
<1> QED BY <1>2, <1>3

\* The numbers are natural, and a wrapper which isn't open isn't on the list, and has no
\* holders before MustClose() gets to the partitions.
LEMMA RefsFacts ==
  ASSUME RefsInv, NEW v \in Ptw
  PROVE  /\ IsFiniteSet(PtwHolders(v)) /\ Cardinality(PtwHolders(v)) \in Nat
         /\ refs[v] = (IF HasList(v) THEN 1 ELSE 0) + Cardinality(PtwHolders(v))
         /\ st[v] = "open" => refs[v] > 0
         /\ HasList(v) => st[v] = "open"
         /\ NoLateUsers => (st[v] = "open" <=> refs[v] > 0)
         /\ NoLateUsers /\ st[v] # "open" => refs[v] = 0 /\ PtwHolders(v) = {}
<1>1. IsFiniteSet(PtwHolders(v)) /\ Cardinality(PtwHolders(v)) \in Nat
  BY FS_CardinalityType DEF RefsInv
<1>2. Cardinality(PtwHolders(v)) = 0 <=> PtwHolders(v) = {}
  BY <1>1, FS_EmptySet
<1> QED BY <1>1, <1>2 DEF RefsInv

\* decRef() closes a wrapper with its last reference.
LEMMA DecRefFacts ==
  ASSUME PTypeOK, NEW w \in Ptw, refs[w] > 0, ~ClosedTwice(w),
         \A v \in Ptw : st[v] = "open" => refs[v] > 0,
         NEW x \in User \cup Admin \cup Watcher \cup {"closer"}, DecRef(w, x)
  PROVE  /\ \A v \in Ptw : refs'[v] = refs[v] - (IF v = w THEN 1 ELSE 0)
         /\ \A v \in Ptw : st'[v] = "open" <=> st[v] = "open" /\ refs'[v] > 0
         /\ refs' \in [Ptw -> Int] /\ st' \in [Ptw -> {"none", "open", "closing"}]
         /\ by' \in [Ptw -> User \cup Admin \cup Watcher \cup {"closer"}]
         /\ day' = day
         /\ \A v \in Ptw : st'[v] = "none" <=> st[v] = "none"
<1>1. refs \in [Ptw -> Int] /\ st \in [Ptw -> {"none", "open", "closing"}]
  BY DEF PTypeOK
<1>2. refs' = [refs EXCEPT ![w] = refs[w] - 1] /\ day' = day
  BY DEF DecRef
<1>3. \A v \in Ptw : refs'[v] = refs[v] - (IF v = w THEN 1 ELSE 0)
  BY <1>1, <1>2
<1>4. CASE refs[w] = 1
  <2>1. st' = [st EXCEPT ![w] = "closing"] /\ by' = [by EXCEPT ![w] = x]
    BY <1>4 DEF DecRef
  <2> QED BY <1>1, <1>2, <1>3, <1>4, <2>1 DEF PTypeOK, ClosedTwice
<1>5. CASE refs[w] # 1
  <2>1. st' = st /\ by' = by
    BY <1>5 DEF DecRef
  <2> QED BY <1>1, <1>2, <1>3, <1>5, <2>1 DEF PTypeOK
<1> QED BY <1>4, <1>5

-----------------------------------------------------------------------------
(* The inductive invariant *)

\* It holds at first.
LEMMA InitIInv == Init => IInv
<1> SUFFICES ASSUME Init PROVE IInv
  OBVIOUS
<1>1. PTypeOK
  <2>1. AnyDay \in Day
    BY DayAssumption DEF AnyDay
  <2> QED BY <2>1, DayAssumption DEF Init, PTypeOK, User
<1>2. ListInv /\ PhaseInv /\ RestInv /\ HoldInv
  BY WatcherFacts, UserFacts, PtwAssumption DEF Init, ListInv, PhaseInv, RestInv, HoldInv
<1>3. RefsInv
  <2> SUFFICES ASSUME NEW w \in Ptw
               PROVE  /\ IsFiniteSet(PtwHolders(w))
                      /\ refs[w] = (IF HasList(w) THEN 1 ELSE 0) + Cardinality(PtwHolders(w))
                      /\ st[w] # "open" /\ refs[w] = 0 /\ ~HasList(w)
    BY DEF RefsInv
  <2>1. PtwHolders(w) = {}
    BY DEF Init, PtwHolders
  <2>2. ~HasList(w)
    BY WatcherFacts DEF Init, HasList
  <2> QED BY <2>1, <2>2, FS_EmptySet DEF Init
<1> QED BY <1>1, <1>2, <1>3 DEF IInv

\* The process starts or ends with nothing in memory.
LEMMA LoseMemoryFacts ==
  ASSUME LoseMemory, phase' \in {"closed", "crashed"}, dirs' = dirs, now' = now,
         future' = future, PTypeOK
  PROVE  IInv'
<1>1. PTypeOK'
  BY DayAssumption DEF LoseMemory, PTypeOK, AnyDay
<1>2. ListInv' /\ PhaseInv' /\ RestInv' /\ HoldInv'
  BY WatcherFacts, UserFacts, PtwAssumption
  DEF LoseMemory, ListInv, PhaseInv, RestInv, NoProcess, HoldInv
<1>3. RefsInv'
  <2> SUFFICES ASSUME NEW w \in Ptw
               PROVE  /\ IsFiniteSet(PtwHolders(w)')
                      /\ refs'[w]
                           = (IF HasList(w)' THEN 1 ELSE 0) + Cardinality(PtwHolders(w)')
                      /\ st'[w] # "open" /\ refs'[w] = 0 /\ ~HasList(w)'
    BY DEF RefsInv
  <2>1. PtwHolders(w)' = {}
    BY DEF LoseMemory, PtwHolders
  <2>2. ~HasList(w)'
    BY WatcherFacts DEF LoseMemory, HasList
  <2> QED BY <2>1, <2>2, FS_EmptySet DEF LoseMemory
<1> QED BY <1>1, <1>2, <1>3 DEF IInv

\* A reference which somebody has counts.
LEMMA HeldFacts ==
  ASSUME IInv, NEW w \in Ptw
  PROVE  /\ \A u \in User : w \in held[u] => refs[w] > 0
         /\ HasList(w) => refs[w] > 0 /\ st[w] = "open"
         /\ \A v \in Ptw : st[v] = "open" => refs[v] > 0
         /\ NoLateUsers => (st[w] = "open" <=> refs[w] > 0) /\ ~ClosedTwice(w)
         /\ ptwHot = w /\ phase \in {"open", "stopping"} => refs[w] > 0
         /\ w \in partitions /\ phase \in {"open", "stopping"} => refs[w] > 0
<1>1. /\ IsFiniteSet(PtwHolders(w)) /\ Cardinality(PtwHolders(w)) \in Nat
      /\ refs[w] = (IF HasList(w) THEN 1 ELSE 0) + Cardinality(PtwHolders(w))
      /\ HasList(w) => refs[w] > 0 /\ st[w] = "open"
      /\ NoLateUsers => (st[w] = "open" <=> refs[w] > 0)
  BY RefsFacts DEF IInv
<1>2. ASSUME NEW u \in User, w \in held[u] PROVE refs[w] > 0
  <2>1. PtwHolders(w) # {}
    BY <1>2 DEF PtwHolders
  <2>2. Cardinality(PtwHolders(w)) # 0
    BY <1>1, <2>1, FS_EmptySet
  <2> QED BY <1>1, <2>2
<1>3. w \in partitions /\ phase \in {"open", "stopping"} => HasList(w)
  BY DEF HasList
<1>4. ptwHot = w => w \in partitions
  BY PtwAssumption DEF IInv, ListInv
<1> QED BY <1>1, <1>2, <1>3, <1>4 DEF IInv, RefsInv, ClosedTwice

\* Steps which move no reference.
LEMMA SameRefs ==
  ASSUME IInv, UNCHANGED <<refs, held>>, NoLateUsers' => NoLateUsers,
         \A w \in Ptw : (st'[w] = "open" <=> st[w] = "open") /\ (HasList(w)' <=> HasList(w))
  PROVE  RefsInv'
<1>1. \A w \in Ptw : PtwHolders(w)' = PtwHolders(w)
  BY DEF PtwHolders
<1> QED BY <1>1 DEF IInv, RefsInv

\* Users take partitions from the list.
LEMMA UserTakes ==
  ASSUME IInv, NEW u \in User, held[u] = {}, NEW S \in SUBSET Ptw,
         held' = [held EXCEPT ![u] = S], IncRef(S), st' = st, phase' = phase,
         NoLateUsers => \A w \in S : refs[w] > 0,
         \A w \in Ptw : HasList(w)' <=> HasList(w)
  PROVE  RefsInv'
<1>1. \A v \in Ptw :
        /\ IsFiniteSet(PtwHolders(v)')
        /\ Cardinality(PtwHolders(v)') = Cardinality(PtwHolders(v)) + (IF v \in S THEN 1 ELSE 0)
  BY Gain DEF IInv
<1>2. \A v \in Ptw : refs'[v] = refs[v] + (IF v \in S THEN 1 ELSE 0) /\ refs[v] \in Int
  BY DEF IncRef, IInv, PTypeOK
<1> SUFFICES ASSUME NEW v \in Ptw
             PROVE  /\ refs'[v] = (IF HasList(v)' THEN 1 ELSE 0) + Cardinality(PtwHolders(v)')
                    /\ st'[v] = "open" => refs'[v] > 0
                    /\ HasList(v)' => st'[v] = "open"
                    /\ NoLateUsers /\ refs'[v] > 0 => st'[v] = "open"
  BY <1>1 DEF RefsInv, NoLateUsers
<1>3. /\ refs[v] = (IF HasList(v) THEN 1 ELSE 0) + Cardinality(PtwHolders(v))
      /\ Cardinality(PtwHolders(v)) \in Nat
      /\ st[v] = "open" => refs[v] > 0
      /\ HasList(v) => st[v] = "open"
      /\ NoLateUsers => (st[v] = "open" <=> refs[v] > 0)
  BY RefsFacts DEF IInv
<1> QED BY <1>1, <1>2, <1>3

\* A user gives a partition back.
LEMMA UserReturns ==
  ASSUME IInv, NEW u \in User, NEW w \in held[u], w \in Ptw,
         held' = [held EXCEPT ![u] = held[u] \ {w}], DecRef(w, u), ~ClosedTwice(w),
         phase' = phase, \A v \in Ptw : HasList(v)' <=> HasList(v)
  PROVE  RefsInv'
<1>1. \A v \in Ptw :
        /\ IsFiniteSet(PtwHolders(v)')
        /\ Cardinality(PtwHolders(v)') = Cardinality(PtwHolders(v)) - (IF v = w THEN 1 ELSE 0)
  BY Lose DEF IInv
<1>2. refs[w] > 0 /\ \A v \in Ptw : st[v] = "open" => refs[v] > 0
  BY HeldFacts
<1>3. \A v \in Ptw : /\ refs'[v] = refs[v] - (IF v = w THEN 1 ELSE 0)
                     /\ st'[v] = "open" <=> st[v] = "open" /\ refs'[v] > 0
  BY <1>2, DecRefFacts DEF IInv
<1> SUFFICES ASSUME NEW v \in Ptw
             PROVE  /\ refs'[v] = (IF HasList(v)' THEN 1 ELSE 0) + Cardinality(PtwHolders(v)')
                    /\ HasList(v)' => st'[v] = "open"
                    /\ NoLateUsers /\ refs'[v] > 0 => st'[v] = "open"
  BY <1>1, <1>3 DEF RefsInv, NoLateUsers
<1>4. /\ refs[v] = (IF HasList(v) THEN 1 ELSE 0) + Cardinality(PtwHolders(v))
      /\ Cardinality(PtwHolders(v)) \in Nat /\ Cardinality(PtwHolders(v)') \in Nat
      /\ HasList(v) => st[v] = "open"
      /\ NoLateUsers => (st[v] = "open" <=> refs[v] > 0)
  BY <1>1, RefsFacts, FS_CardinalityType DEF IInv
<1> QED BY <1>1, <1>2, <1>3, <1>4

\* The reference of the list is given back.
LEMMA ListReturns ==
  ASSUME IInv, NEW w \in Ptw, HasList(w), UNCHANGED <<held, phase>>,
         NEW x \in User \cup Admin \cup Watcher \cup {"closer"}, DecRef(w, x),
         \A v \in Ptw : HasList(v)' <=> HasList(v) /\ v # w
  PROVE  RefsInv'
<1>1. \A v \in Ptw : PtwHolders(v)' = PtwHolders(v)
  BY DEF PtwHolders
<1>2. refs[w] > 0 /\ ~ClosedTwice(w) /\ \A v \in Ptw : st[v] = "open" => refs[v] > 0
  BY HeldFacts DEF ClosedTwice
<1>3. \A v \in Ptw : /\ refs'[v] = refs[v] - (IF v = w THEN 1 ELSE 0)
                     /\ st'[v] = "open" <=> st[v] = "open" /\ refs'[v] > 0
  BY <1>2, DecRefFacts DEF IInv
<1> SUFFICES ASSUME NEW v \in Ptw
             PROVE  /\ refs'[v] = (IF HasList(v)' THEN 1 ELSE 0) + Cardinality(PtwHolders(v))
                    /\ HasList(v)' => st'[v] = "open"
                    /\ NoLateUsers /\ refs'[v] > 0 => st'[v] = "open"
  BY <1>1, <1>3 DEF IInv, RefsInv, NoLateUsers
<1>4. /\ refs[v] = (IF HasList(v) THEN 1 ELSE 0) + Cardinality(PtwHolders(v))
      /\ Cardinality(PtwHolders(v)) \in Nat
      /\ HasList(v) => st[v] = "open"
      /\ NoLateUsers => (st[v] = "open" <=> refs[v] > 0)
  BY RefsFacts DEF IInv
<1> QED BY <1>2, <1>3, <1>4

\* A new wrapper has the reference of the list, and perhaps one of its creator.
LEMMA NewWrapper ==
  ASSUME IInv, NEW w \in FreshPtw, NEW d \in Day, NewPtw(w, d), UNCHANGED phase, NoLateUsers,
         NEW n \in Nat \ {0}, refs' = [refs EXCEPT ![w] = n],
         \A v \in Ptw : HasList(v)' <=> HasList(v) \/ v = w,
         \A v \in Ptw : /\ IsFiniteSet(PtwHolders(v)')
                       /\ Cardinality(PtwHolders(v)')
                            = Cardinality(PtwHolders(v)) + (IF v = w THEN n - 1 ELSE 0)
  PROVE  RefsInv'
<1>1. w \in Ptw /\ st[w] = "none"
  BY DEF FreshPtw
<1>2. refs[w] = 0 /\ ~HasList(w) /\ Cardinality(PtwHolders(w)) = 0
  BY <1>1, RefsFacts, FS_EmptySet DEF IInv
<1>3. \A v \in Ptw : /\ refs'[v] = IF v = w THEN n ELSE refs[v]
                     /\ st'[v] = IF v = w THEN "open" ELSE st[v]
  BY DEF NewPtw, IInv, PTypeOK
<1> SUFFICES ASSUME NEW v \in Ptw
             PROVE  /\ refs'[v] = (IF HasList(v)' THEN 1 ELSE 0) + Cardinality(PtwHolders(v)')
                    /\ HasList(v)' => st'[v] = "open"
                    /\ st'[v] = "open" <=> refs'[v] > 0
  BY DEF RefsInv, NoLateUsers
<1>4. /\ refs[v] = (IF HasList(v) THEN 1 ELSE 0) + Cardinality(PtwHolders(v))
      /\ Cardinality(PtwHolders(v)) \in Nat
      /\ HasList(v) => st[v] = "open"
      /\ st[v] = "open" <=> refs[v] > 0
  BY RefsFacts DEF IInv
<1> QED BY <1>1, <1>2, <1>3, <1>4

\* All but RefsInv.
Others == PTypeOK /\ ListInv /\ PhaseInv /\ RestInv /\ HoldInv

\* Steps which move no reference.
LEMMA QuietSteps ==
  ASSUME IInv,
         \/ Tick \/ CloseBegin \/ CloseWait
         \/ \E w \in Ptw : FinishClose(w)
         \/ \E u \in Writer : WriteSplit(u) \/ \E d \in Day : WriteSkip(u, d)
         \/ \E f \in Forcer : ForceLaunch(f) \/ ForceMerge(f) \/ ForceDone(f)
         \/ \E a \in Admin : DetachReturn(a)
         \/ \E d \in Day : ReplaceDir(d)
  PROVE  IInv'
<1> USE DEF clock, lists, objects, users, admins
<1>1. ASSUME Tick PROVE IInv'
  <2>1. Others'
    BY <1>1, WatcherFacts, UserFacts, PtwAssumption
    DEF Tick, IInv, Others, PTypeOK,
        ListInv, PhaseInv, RestInv, NoProcess, HoldInv
  <2>2. RefsInv'
    BY <1>1, SameRefs, WatcherFacts DEF Tick, HasList, NoLateUsers, IInv, PTypeOK
  <2> QED BY <2>1, <2>2 DEF IInv, Others
<1>2. ASSUME CloseBegin PROVE IInv'
  <2>1. Others'
    BY <1>2, WatcherFacts, UserFacts, PtwAssumption
    DEF CloseBegin, IInv, Others, PTypeOK,
        ListInv, PhaseInv, RestInv, NoProcess, HoldInv
  <2>2. RefsInv'
    BY <1>2, SameRefs, WatcherFacts DEF CloseBegin, HasList, NoLateUsers, IInv, PTypeOK
  <2> QED BY <2>1, <2>2 DEF IInv, Others
<1>3. ASSUME CloseWait PROVE IInv'
  <2>1. Others'
    BY <1>3, WatcherFacts, UserFacts, PtwAssumption
    DEF CloseWait, IInv, Others, PTypeOK,
        ListInv, PhaseInv, RestInv, NoProcess, HoldInv
  <2>2. RefsInv'
    BY <1>3, SameRefs, WatcherFacts DEF CloseWait, HasList, NoLateUsers, IInv, PTypeOK
  <2> QED BY <2>1, <2>2 DEF IInv, Others
<1>4. ASSUME NEW w \in Ptw, FinishClose(w) PROVE IInv'
  <2>1. Others'
    BY <1>4, WatcherFacts, UserFacts, PtwAssumption
    DEF FinishClose, InUse, IInv, Others, PTypeOK,
        ListInv, PhaseInv, RestInv, NoProcess, HoldInv
  <2>2. RefsInv'
    BY <1>4, SameRefs, WatcherFacts DEF FinishClose, InUse, HasList, NoLateUsers, IInv, PTypeOK
  <2> QED BY <2>1, <2>2 DEF IInv, Others
<1>5. ASSUME NEW u \in Writer, WriteSplit(u) PROVE IInv'
  <2>1. Others'
    BY <1>5, WatcherFacts, UserFacts, PtwAssumption
    DEF WriteSplit, InUse, IInv, Others, PTypeOK,
        ListInv, PhaseInv, RestInv, NoProcess, HoldInv
  <2>2. RefsInv'
    BY <1>5, SameRefs, WatcherFacts DEF WriteSplit, InUse, HasList, NoLateUsers, IInv, PTypeOK
  <2> QED BY <2>1, <2>2 DEF IInv, Others
<1>6. ASSUME NEW u \in Writer, NEW d \in Day, WriteSkip(u, d) PROVE IInv'
  <2>1. Others'
    BY <1>6, WatcherFacts, UserFacts, PtwAssumption
    DEF WriteSkip, InUse, IInv, Others, PTypeOK,
        ListInv, PhaseInv, RestInv, NoProcess, HoldInv
  <2>2. RefsInv'
    BY <1>6, SameRefs, WatcherFacts DEF WriteSkip, InUse, HasList, NoLateUsers, IInv, PTypeOK
  <2> QED BY <2>1, <2>2 DEF IInv, Others
<1>7. ASSUME NEW f \in Forcer, ForceLaunch(f) PROVE IInv'
  <2>1. Others'
    BY <1>7, WatcherFacts, UserFacts, PtwAssumption
    DEF ForceLaunch, IInv, Others, PTypeOK,
        ListInv, PhaseInv, RestInv, NoProcess, HoldInv
  <2>2. RefsInv'
    BY <1>7, SameRefs, WatcherFacts DEF ForceLaunch, HasList, NoLateUsers, IInv, PTypeOK
  <2> QED BY <2>1, <2>2 DEF IInv, Others
<1>8. ASSUME NEW f \in Forcer, ForceMerge(f) PROVE IInv'
  <2>1. Others'
    BY <1>8, WatcherFacts, UserFacts, PtwAssumption
    DEF ForceMerge, InUse, IInv, Others, PTypeOK,
        ListInv, PhaseInv, RestInv, NoProcess, HoldInv
  <2>2. RefsInv'
    BY <1>8, SameRefs, WatcherFacts DEF ForceMerge, InUse, HasList, NoLateUsers, IInv, PTypeOK
  <2> QED BY <2>1, <2>2 DEF IInv, Others
<1>9. ASSUME NEW f \in Forcer, ForceDone(f) PROVE IInv'
  <2>1. Others'
    BY <1>9, WatcherFacts, UserFacts, PtwAssumption
    DEF ForceDone, InUse, IInv, Others, PTypeOK,
        ListInv, PhaseInv, RestInv, NoProcess, HoldInv
  <2>2. RefsInv'
    BY <1>9, SameRefs, WatcherFacts DEF ForceDone, InUse, HasList, NoLateUsers, IInv, PTypeOK
  <2> QED BY <2>1, <2>2 DEF IInv, Others
<1>10. ASSUME NEW a \in Admin, DetachReturn(a) PROVE IInv'
  <2>1. Others'
    BY <1>10, WatcherFacts, UserFacts, PtwAssumption
    DEF DetachReturn, InUse, IInv, Others, PTypeOK,
        ListInv, PhaseInv, RestInv, NoProcess, HoldInv
  <2>2. RefsInv'
    BY <1>10, SameRefs, WatcherFacts DEF DetachReturn, InUse, HasList, NoLateUsers, IInv, PTypeOK
  <2> QED BY <2>1, <2>2 DEF IInv, Others
<1>11. ASSUME NEW d \in Day, ReplaceDir(d) PROVE IInv'
  <2>1. Others'
    BY <1>11, WatcherFacts, UserFacts, PtwAssumption
    DEF ReplaceDir, IInv, Others, PTypeOK,
        ListInv, PhaseInv, RestInv, NoProcess, HoldInv
  <2>2. RefsInv'
    BY <1>11, SameRefs, WatcherFacts DEF ReplaceDir, HasList, NoLateUsers, IInv, PTypeOK
  <2> QED BY <2>1, <2>2 DEF IInv, Others
<1> QED BY <1>1, <1>2, <1>3, <1>4, <1>5, <1>6, <1>7, <1>8, <1>9, <1>10, <1>11

\* Users take partitions which are on the list.
LEMMA TakingSteps ==
  ASSUME IInv,
         \/ \E u \in Writer, D \in SUBSET Day : WriteStart(u, D)
         \/ \E u \in Reader \cup Background : ReadStart(u)
         \/ \E f \in Forcer : ForceTake(f)
  PROVE  IInv'
<1> USE DEF clock, lists, objects, users, admins
<1>1. ASSUME NEW u \in Writer, NEW D \in SUBSET Day, WriteStart(u, D) PROVE IInv'
  <2> DEFINE S == {ptwHot} \ {NoPtw}
  <2>1. u \in User /\ held[u] = {} /\ S \in SUBSET Ptw /\ \A w, v \in S : w = v
    BY <1>1, UserFacts DEF WriteStart, IInv, PTypeOK
  <2>2. \A w \in S : refs[w] > 0
    BY <1>1, <2>1, HeldFacts DEF WriteStart
  <2>3. /\ held' = [held EXCEPT ![u] = S] /\ IncRef(S)
        /\ \A w \in Ptw : HasList(w)' <=> HasList(w)
    BY <1>1 DEF WriteStart, HasList
  <2>4. RefsInv'
    BY <1>1, <2>1, <2>2, <2>3, UserTakes DEF WriteStart
  <2>5. refs' \in [Ptw -> Int]
    BY <2>3 DEF IncRef, IInv, PTypeOK
  <2>6. Others'
    BY <1>1, <2>1, <2>3, <2>5, WatcherFacts, UserFacts, PtwAssumption
    DEF WriteStart, IInv, Others, PTypeOK,
        ListInv, PhaseInv, RestInv, NoProcess, HoldInv
  <2> QED BY <2>4, <2>6 DEF IInv, Others
<1>2. ASSUME NEW u \in User \ Writer, NEW S \in SUBSET partitions, NEW next, Take(u, S, next),
             InUse, u \in Reader => phase = "open", u \notin Forcer => phase # "closing",
             upc[u] \in {"idle", "launched"}, next \in {"reading", "got"}
      PROVE IInv'
  <2>1. held[u] = {} /\ S \in SUBSET Ptw
    BY <1>2 DEF IInv, PTypeOK
  <2>2. NoLateUsers => \A w \in S : refs[w] > 0
    BY <1>2, <2>1, HeldFacts DEF NoLateUsers, InUse
  <2>3. /\ held' = [held EXCEPT ![u] = S] /\ IncRef(S)
        /\ \A w \in Ptw : HasList(w)' <=> HasList(w)
    BY <1>2 DEF Take, HasList
  <2>4. RefsInv'
    BY <1>2, <2>1, <2>2, <2>3, UserTakes DEF Take
  <2>5. refs' \in [Ptw -> Int]
    BY <2>3 DEF IncRef, IInv, PTypeOK
  <2>6. PhaseInv'
    <3>1. u \in Background => phase # "closing"
      BY <1>2, ActorAssumption
    <3> QED BY <1>2, <3>1, UserFacts DEF Take, InUse, IInv, PTypeOK, PhaseInv
  <2>7. PTypeOK' /\ ListInv' /\ RestInv' /\ HoldInv'
    BY <1>2, <2>1, <2>3, <2>5, WatcherFacts, UserFacts, PtwAssumption
    DEF Take, InUse, IInv, PTypeOK, ListInv, RestInv, HoldInv
  <2> QED BY <2>4, <2>6, <2>7 DEF IInv
<1>3. ASSUME NEW u \in Reader \cup Background, ReadStart(u) PROVE IInv'
  <2>1. u \in User \ Writer /\ (u \in Reader => phase = "open") /\ phase # "closing" /\ InUse
    BY <1>3, UserFacts, ActorAssumption DEF ReadStart, InUse
  <2>2. \E S \in SUBSET partitions : Take(u, S, "reading")
    BY <1>3 DEF ReadStart
  <2> QED BY <1>2, <1>3, <2>1, <2>2 DEF ReadStart
<1>4. ASSUME NEW f \in Forcer, ForceTake(f) PROVE IInv'
  <2>1. f \in User \ Writer /\ f \notin Reader
    BY UserFacts, ActorAssumption
  <2> QED BY <1>2, <1>4, <2>1 DEF ForceTake
<1> QED BY <1>1, <1>3, <1>4

\* Users give partitions back.
LEMMA ReturningSteps ==
  ASSUME IInv,
         \/ \E u \in Writer : WriteSkipHot(u) \/ WriteDone(u)
         \/ \E u \in Reader \cup Background \cup Forcer : ReleaseNext(u)
  PROVE  IInv'
<1> USE DEF clock, lists, objects, users, admins
<1>1. ASSUME NEW u \in User, NEW w \in held[u], DecRef(w, u), phase' = phase,
             ~ClosedTwice(w) \/ phase = "open",
             held' = [held EXCEPT ![u] = held[u] \ {w}]
      PROVE  /\ w \in Ptw /\ refs' \in [Ptw -> Int] /\ day' = day
             /\ st' \in [Ptw -> {"none", "open", "closing"}]
             /\ by' \in [Ptw -> User \cup Admin \cup Watcher \cup {"closer"}]
             /\ phase \notin {"closed", "crashed"}
             /\ (\A v \in Ptw : HasList(v)' <=> HasList(v)) => RefsInv'
  <2>1. w \in Ptw
    BY DEF IInv, PTypeOK
  <2>2. refs[w] > 0 /\ ~ClosedTwice(w) /\ \A v \in Ptw : st[v] = "open" => refs[v] > 0
    BY <1>1, <2>1, HeldFacts DEF NoLateUsers
  <2>3. /\ refs' \in [Ptw -> Int] /\ st' \in [Ptw -> {"none", "open", "closing"}] /\ day' = day
        /\ by' \in [Ptw -> User \cup Admin \cup Watcher \cup {"closer"}]
    BY <1>1, <2>1, <2>2, DecRefFacts DEF IInv
  <2>4. (\A v \in Ptw : HasList(v)' <=> HasList(v)) => RefsInv'
    BY <1>1, <2>1, <2>2, UserReturns
  <2> QED BY <2>1, <2>3, <2>4 DEF IInv, RestInv, NoProcess
<1>2. ASSUME NEW u \in Writer, WriteSkipHot(u) PROVE IInv'
  <2>1. PICK w \in held[u] : DecRef(w, u)
    BY <1>2 DEF WriteSkipHot
  <2>2. /\ u \in User /\ held' = [held EXCEPT ![u] = held[u] \ {w}]
        /\ phase = "open" /\ phase' = phase
    BY <1>2, UserFacts DEF WriteSkipHot, InUse, IInv, HoldInv, PhaseInv
  <2>3. /\ w \in Ptw /\ refs' \in [Ptw -> Int] /\ day' = day
        /\ st' \in [Ptw -> {"none", "open", "closing"}]
        /\ by' \in [Ptw -> User \cup Admin \cup Watcher \cup {"closer"}]
        /\ phase \notin {"closed", "crashed"}
    BY <1>1, <2>1, <2>2
  <2>4. PTypeOK'
    BY <1>2, <2>1, <2>2, <2>3, UserFacts DEF WriteSkipHot, IInv, PTypeOK
  <2>5. ListInv' /\ PhaseInv' /\ RestInv' /\ HoldInv'
    BY <1>2, <2>1, <2>2, <2>3, UserFacts
    DEF WriteSkipHot, IInv, PTypeOK, ListInv, PhaseInv, RestInv, HoldInv
  <2>6. \A v \in Ptw : HasList(v)' <=> HasList(v)
    BY <1>2 DEF WriteSkipHot, HasList
  <2> QED BY <1>1, <2>1, <2>2, <2>4, <2>5, <2>6 DEF IInv
<1>3. ASSUME NEW u \in Writer, WriteDone(u) PROVE IInv'
  <2>1. PICK w \in held[u] : DecRef(w, u) /\ todo' = [todo EXCEPT ![u] = @ \ {day[w]}]
    BY <1>3 DEF WriteDone
  <2>2. /\ u \in User /\ held' = [held EXCEPT ![u] = held[u] \ {w}]
        /\ phase = "open" /\ phase' = phase
    BY <1>3, UserFacts DEF WriteDone, InUse, IInv, HoldInv, PhaseInv
  <2>3. /\ w \in Ptw /\ refs' \in [Ptw -> Int] /\ day' = day
        /\ st' \in [Ptw -> {"none", "open", "closing"}]
        /\ by' \in [Ptw -> User \cup Admin \cup Watcher \cup {"closer"}]
        /\ phase \notin {"closed", "crashed"}
    BY <1>1, <2>1, <2>2
  <2>4. PTypeOK'
    BY <1>3, <2>1, <2>2, <2>3, UserFacts DEF WriteDone, IInv, PTypeOK
  <2>5. ListInv' /\ PhaseInv' /\ RestInv' /\ HoldInv'
    BY <1>3, <2>1, <2>2, <2>3, UserFacts
    DEF WriteDone, IInv, PTypeOK, ListInv, PhaseInv, RestInv, HoldInv
  <2>6. \A v \in Ptw : HasList(v)' <=> HasList(v)
    BY <1>3 DEF WriteDone, HasList
  <2> QED BY <1>1, <2>1, <2>2, <2>4, <2>5, <2>6 DEF IInv
<1>4. ASSUME NEW u \in Reader \cup Background \cup Forcer, ReleaseNext(u) PROVE IInv'
  <2>1. PICK w \in held[u] :
          /\ ~ClosedTwice(w) /\ DecRef(w, u)
          /\ held' = [held EXCEPT ![u] = @ \ {w}]
          /\ upc' = [upc EXCEPT ![u] = IF held[u] = {w} THEN "idle" ELSE @]
    BY <1>4 DEF ReleaseNext
  <2>2. u \in User /\ held' = [held EXCEPT ![u] = held[u] \ {w}] /\ phase' = phase
    BY <1>4, <2>1, UserFacts DEF ReleaseNext
  <2>3. /\ w \in Ptw /\ refs' \in [Ptw -> Int] /\ day' = day
        /\ st' \in [Ptw -> {"none", "open", "closing"}]
        /\ by' \in [Ptw -> User \cup Admin \cup Watcher \cup {"closer"}]
        /\ phase \notin {"closed", "crashed"}
    BY <1>1, <2>1, <2>2
  <2>4. PTypeOK'
    BY <1>4, <2>1, <2>2, <2>3, UserFacts DEF ReleaseNext, IInv, PTypeOK
  <2>5. ListInv' /\ PhaseInv' /\ RestInv' /\ HoldInv'
    BY <1>4, <2>1, <2>2, <2>3, UserFacts
    DEF ReleaseNext, IInv, PTypeOK, ListInv, PhaseInv, RestInv, HoldInv
  <2>6. \A v \in Ptw : HasList(v)' <=> HasList(v)
    BY <1>4 DEF ReleaseNext, HasList
  <2> QED BY <1>1, <2>1, <2>2, <2>4, <2>5, <2>6 DEF IInv
<1> QED BY <1>2, <1>3, <1>4

\* Partitions leave the list ...
LEMMA UnlistSteps ==
  ASSUME IInv, DropStale \/ DropBySize \/ \E a \in Admin, d \in Day : Detach(a, d)
  PROVE  IInv'
<1> USE DEF clock, lists, objects, users, admins
<1>1. ASSUME NEW x \in Watcher, NEW S \in SUBSET partitions, Drop(x, S) PROVE IInv'
  <2>1. /\ phase \in {"open", "stopping"} /\ phase' = phase /\ todrop[x] = {}
        /\ partitions' = partitions \ S /\ todrop' = [todrop EXCEPT ![x] = S]
        /\ ptwHot' = IF ptwHot \in S THEN NoPtw ELSE ptwHot
        /\ UNCHANGED <<apc, target, refs, held, st, mustDrop, released>>
    BY <1>1 DEF Drop, Unlist
  <2>2. PTypeOK'
    BY <1>1, <2>1 DEF Drop, IInv, PTypeOK
  <2>3. ListInv'
    <3>1. CASE x = "retention"
      BY <2>1, <3>1, WatcherFacts DEF IInv, PTypeOK, ListInv
    <3>2. CASE x = "disk"
      BY <2>1, <3>2, WatcherFacts DEF IInv, PTypeOK, ListInv
    <3> QED BY <3>1, <3>2, WatcherFacts
  <2>4. PhaseInv' /\ RestInv' /\ HoldInv'
    BY <1>1, <2>1, WatcherFacts DEF Drop, IInv, PTypeOK, PhaseInv, RestInv, HoldInv
  <2>5. \A w \in Ptw : HasList(w)' <=> HasList(w)
    BY <2>1, WatcherFacts DEF HasList, IInv, PTypeOK
  <2>6. RefsInv'
    BY <2>1, <2>5, SameRefs DEF NoLateUsers
  <2> QED BY <2>2, <2>3, <2>4, <2>6 DEF IInv
<1>2. ASSUME NEW a \in Admin, NEW d \in Day, Detach(a, d) PROVE IInv'
  <2>1. PICK w \in Listed(d) : Unlist({w}) /\ target' = [target EXCEPT ![a] = w]
    BY <1>2 DEF Detach
  <2>2. /\ w \in partitions /\ w \in Ptw /\ phase = "open" /\ phase' = phase /\ apc[a] = "idle"
        /\ partitions' = partitions \ {w} /\ apc' = [apc EXCEPT ![a] = "detaching"]
        /\ ptwHot' = IF ptwHot \in {w} THEN NoPtw ELSE ptwHot
        /\ target' = [target EXCEPT ![a] = w]
        /\ UNCHANGED <<todrop, refs, held, st, mustDrop, released>>
    BY <1>2, <2>1 DEF Detach, Unlist, Listed, IInv, PTypeOK
  <2>3. PTypeOK'
    BY <1>2, <2>2 DEF Detach, IInv, PTypeOK
  <2>4. ListInv'
    BY <2>2, WatcherFacts DEF IInv, PTypeOK, ListInv
  <2>5. PhaseInv' /\ RestInv' /\ HoldInv'
    BY <1>2, <2>2 DEF Detach, IInv, PTypeOK, PhaseInv, RestInv, HoldInv
  <2>6. \A v \in Ptw : HasList(v)' <=> HasList(v)
    BY <2>2 DEF HasList, IInv, PTypeOK
  <2>7. RefsInv'
    BY <2>2, <2>6, SameRefs DEF NoLateUsers
  <2> QED BY <2>3, <2>4, <2>5, <2>7 DEF IInv
<1>3. CASE DropStale
  BY <1>1, <1>3, WatcherFacts DEF DropStale
<1>4. CASE DropBySize
  BY <1>1, <1>4, WatcherFacts DEF DropBySize
<1> QED BY <1>2, <1>3, <1>4

\* ... and their references are given back.
LEMMA UnrefSteps ==
  ASSUME IInv,
         \/ \E x \in Watcher : DropNext(x)
         \/ \E a \in Admin : DetachDecRef(a)
         \/ CloseNext
  PROVE  IInv'
<1> USE DEF clock, lists, objects, users, admins
<1>1. ASSUME NEW w \in Ptw, HasList(w), NEW x \in User \cup Admin \cup Watcher \cup {"closer"},
             DecRef(w, x)
      PROVE  /\ refs' \in [Ptw -> Int] /\ day' = day
             /\ st' \in [Ptw -> {"none", "open", "closing"}]
             /\ by' \in [Ptw -> User \cup Admin \cup Watcher \cup {"closer"}]
             /\ phase \notin {"closed", "crashed"}
  BY <1>1, HeldFacts, DecRefFacts DEF ClosedTwice, IInv, RestInv, NoProcess
<1>2. ASSUME NEW x \in Watcher, DropNext(x) PROVE IInv'
  <2>1. PICK w \in todrop[x] : /\ mustDrop' = mustDrop \cup {w} /\ DecRef(w, x)
                               /\ todrop' = [todrop EXCEPT ![x] = @ \ {w}]
    BY <1>2 DEF DropNext
  <2>2. w \in Ptw /\ HasList(w)
    BY <2>1 DEF HasList, IInv, PTypeOK
  <2>3. /\ refs' \in [Ptw -> Int] /\ day' = day
        /\ st' \in [Ptw -> {"none", "open", "closing"}]
        /\ by' \in [Ptw -> User \cup Admin \cup Watcher \cup {"closer"}]
        /\ phase \notin {"closed", "crashed"}
    BY <1>1, <2>1, <2>2
  <2>4. PTypeOK'
    BY <1>2, <2>1, <2>2, <2>3 DEF DropNext, IInv, PTypeOK
  <2>5. ListInv' /\ PhaseInv' /\ RestInv' /\ HoldInv'
    BY <1>2, <2>1, <2>3, WatcherFacts
    DEF DropNext, IInv, PTypeOK, ListInv, PhaseInv, RestInv, HoldInv
  <2>6. \A v \in Ptw : HasList(v)' <=> HasList(v) /\ v # w
    <3>1. /\ w \notin partitions
          /\ \A y \in Watcher : w \in todrop[y] => y = x
          /\ \A a \in Admin : ~(apc[a] = "detaching" /\ target[a] = w)
      BY <2>1, WatcherFacts DEF IInv, ListInv
    <3>2. \A y \in Watcher : todrop'[y] = IF y = x THEN todrop[y] \ {w} ELSE todrop[y]
      BY <2>1 DEF IInv, PTypeOK
    <3>3. todrop'["closer"] = todrop["closer"] /\ UNCHANGED <<phase, partitions, apc, target>>
      BY <1>2, <2>1, WatcherFacts DEF DropNext, IInv, PTypeOK
    <3> QED BY <3>1, <3>2, <3>3 DEF HasList
  <2>7. RefsInv'
    BY <1>2, <2>1, <2>2, <2>6, ListReturns DEF DropNext
  <2> QED BY <2>4, <2>5, <2>7 DEF IInv
<1>3. ASSUME NEW a \in Admin, DetachDecRef(a) PROVE IInv'
  <2>1. target[a] \in Ptw /\ HasList(target[a]) /\ DecRef(target[a], a)
    BY <1>3 DEF DetachDecRef, HasList, IInv, ListInv
  <2>2. /\ refs' \in [Ptw -> Int] /\ day' = day
        /\ st' \in [Ptw -> {"none", "open", "closing"}]
        /\ by' \in [Ptw -> User \cup Admin \cup Watcher \cup {"closer"}]
        /\ phase \notin {"closed", "crashed"}
    BY <1>1, <2>1
  <2>3. PTypeOK'
    BY <1>3, <2>1, <2>2 DEF DetachDecRef, IInv, PTypeOK
  <2>4. ListInv' /\ PhaseInv' /\ RestInv' /\ HoldInv'
    BY <1>3, <2>1, <2>2, WatcherFacts
    DEF DetachDecRef, IInv, PTypeOK, ListInv, PhaseInv, RestInv, HoldInv
  <2>5. \A v \in Ptw : HasList(v)' <=> HasList(v) /\ v # target[a]
    <3>1. /\ target[a] \notin partitions
          /\ \A x \in Watcher : target[a] \notin todrop[x]
          /\ \A b \in Admin : apc[b] = "detaching" /\ target[b] = target[a] => b = a
      BY <1>3, WatcherFacts DEF DetachDecRef, IInv, ListInv
    <3>2. \A b \in Admin : apc'[b] = IF b = a THEN "waiting" ELSE apc[b]
      BY <1>3 DEF DetachDecRef, IInv, PTypeOK
    <3>3. UNCHANGED <<phase, partitions, target, todrop>> /\ apc[a] = "detaching"
      BY <1>3 DEF DetachDecRef
    <3> QED BY <3>1, <3>2, <3>3 DEF HasList
  <2>6. RefsInv'
    BY <1>3, <2>1, <2>5, ListReturns DEF DetachDecRef
  <2> QED BY <2>3, <2>4, <2>6 DEF IInv
<1>4. ASSUME CloseNext PROVE IInv'
  <2>1. PICK w \in todrop["closer"] : /\ DecRef(w, "closer")
                                      /\ todrop' = [todrop EXCEPT !["closer"] = @ \ {w}]
    BY <1>4 DEF CloseNext
  <2>2. w \in partitions /\ w \in Ptw /\ HasList(w)
    BY <1>4, <2>1 DEF CloseNext, HasList, IInv, PTypeOK, PhaseInv
  <2>3. /\ refs' \in [Ptw -> Int] /\ day' = day
        /\ st' \in [Ptw -> {"none", "open", "closing"}]
        /\ by' \in [Ptw -> User \cup Admin \cup Watcher \cup {"closer"}]
    BY <1>1, <2>1, <2>2
  <2>4. PTypeOK'
    BY <1>4, <2>1, <2>3 DEF CloseNext, IInv, PTypeOK
  <2>5. ListInv' /\ PhaseInv' /\ RestInv' /\ HoldInv'
    BY <1>4, <2>1, <2>3, WatcherFacts
    DEF CloseNext, IInv, PTypeOK, ListInv, PhaseInv, RestInv, HoldInv
  <2>6. \A v \in Ptw : HasList(v)' <=> HasList(v) /\ v # w
    <3>1. /\ phase = "closing" /\ \A x \in Watcher : todrop[x] = {}
          /\ \A a \in Admin : apc[a] = "idle"
          /\ UNCHANGED <<phase, partitions, apc, target>>
      BY <1>4 DEF CloseNext, IInv, PhaseInv
    <3>2. /\ todrop'["closer"] = todrop["closer"] \ {w}
          /\ \A x \in Watcher : todrop'[x] = todrop[x]
      BY <2>1, WatcherFacts DEF IInv, PTypeOK
    <3> QED BY <3>1, <3>2 DEF HasList
  <2>7. RefsInv'
    BY <1>4, <2>1, <2>2, <2>6, ListReturns DEF CloseNext
  <2> QED BY <2>4, <2>5, <2>7 DEF IInv
<1> QED BY <1>2, <1>3, <1>4

\* A writer takes the partition of a day, or creates it.
LEMMA WriteTakeStep ==
  ASSUME IInv, NEW u \in Writer, NEW d \in Day, WriteTake(u, d)
  PROVE  IInv'
<1> USE DEF clock, lists, objects, users, admins
<1>1. /\ u \in User /\ held[u] = {} /\ upc[u] = "slow" /\ phase = "open" /\ phase' = phase
      /\ upc' = [upc EXCEPT ![u] = "writing"]
      /\ UNCHANGED <<todrop, apc, target, mustDrop, by, todo, deletedPartitions, clock>>
  <2>1. u \in User /\ held[u] = {} /\ upc[u] = "slow"
    BY UserFacts DEF WriteTake, IInv, PTypeOK
  <2>2. phase = "open"
    BY <2>1 DEF WriteTake, InUse, IInv, PhaseInv
  <2> QED BY <2>1, <2>2 DEF WriteTake
<1>2. ASSUME NEW w \in Listed(d), ptwHot' = w, held' = [held EXCEPT ![u] = {w}], IncRef({w}),
             UNCHANGED <<partitions, dirs, st, day, released>>
      PROVE  IInv'
  <2>1. w \in Ptw /\ w \in partitions /\ refs[w] > 0
    BY <1>1, <1>2, HeldFacts DEF Listed, IInv, PTypeOK
  <2>2. refs' \in [Ptw -> Int]
    BY <1>2 DEF IncRef, IInv, PTypeOK
  <2>3. PTypeOK'
    BY <1>1, <1>2, <2>1, <2>2 DEF IInv, PTypeOK
  <2>4. ListInv' /\ PhaseInv' /\ RestInv' /\ HoldInv'
    BY <1>1, <1>2, <2>1 DEF IInv, PTypeOK, ListInv, PhaseInv, RestInv, HoldInv
  <2>5. RefsInv'
    <3>1. \A v \in Ptw : HasList(v)' <=> HasList(v)
      BY <1>1, <1>2 DEF HasList
    <3> QED BY <1>1, <1>2, <2>1, <3>1, UserTakes
  <2> QED BY <2>3, <2>4, <2>5 DEF IInv
<1>3. ASSUME NEW w \in FreshPtw, NewPtw(w, d), ptwHot' = w, held' = [held EXCEPT ![u] = {w}],
             refs' = [refs EXCEPT ![w] = 2], dirs' = dirs \cup {d}, released' = released \ {d}
      PROVE  IInv'
  <2>1. /\ w \in Ptw /\ st[w] = "none" /\ w \notin partitions
        /\ \A a \in Admin : target[a] # w
        /\ st' = [st EXCEPT ![w] = "open"] /\ day' = [day EXCEPT ![w] = d]
        /\ partitions' = partitions \cup {w}
    BY <1>3 DEF FreshPtw, NewPtw
  <2>2. ~HasList(w) /\ \A x \in Watcher : w \notin todrop[x]
    BY <2>1, RefsFacts DEF IInv, HasList
  <2>3. PTypeOK'
    BY <1>1, <1>3, <2>1 DEF IInv, PTypeOK
  <2>4. ListInv' /\ PhaseInv' /\ RestInv' /\ HoldInv'
    BY <1>1, <1>3, <2>1, <2>2, WatcherFacts
    DEF IInv, PTypeOK, ListInv, PhaseInv, RestInv, HoldInv
  <2>5. \A v \in Ptw : HasList(v)' <=> HasList(v) \/ v = w
    BY <1>1, <2>1 DEF HasList
  <2>6. \A v \in Ptw :
          /\ IsFiniteSet(PtwHolders(v)')
          /\ Cardinality(PtwHolders(v)')
               = Cardinality(PtwHolders(v)) + (IF v \in {w} THEN 1 ELSE 0)
    BY <1>1, <1>3, <2>1, Gain, ZenonT(40) DEF IInv
  <2>7. RefsInv'
    <3>1. /\ 2 \in Nat \ {0}
          /\ \A v \in Ptw : (IF v = w THEN 2 - 1 ELSE 0) = (IF v \in {w} THEN 1 ELSE 0)
      OBVIOUS
    <3> QED BY <1>1, <1>3, <2>5, <2>6, <3>1, NewWrapper DEF NoLateUsers
  <2> QED BY <2>3, <2>4, <2>7 DEF IInv
<1> QED BY <1>2, <1>3 DEF WriteTake

\* PartitionAttach() opens a partition.
LEMMA AttachStep ==
  ASSUME IInv, NEW a \in Admin, NEW d \in Day, Attach(a, d)
  PROVE  IInv'
<1> USE DEF clock, lists, objects, users, admins
<1>1. PICK w \in FreshPtw : NewPtw(w, d) /\ refs' = [refs EXCEPT ![w] = 1]
  BY DEF Attach
<1>2. /\ w \in Ptw /\ st[w] = "none" /\ w \notin partitions
      /\ \A b \in Admin : target[b] # w
      /\ st' = [st EXCEPT ![w] = "open"] /\ day' = [day EXCEPT ![w] = d]
      /\ partitions' = partitions \cup {w}
      /\ phase = "open"
      /\ UNCHANGED <<phase, todrop, apc, target, held, ptwHot>>
  BY <1>1 DEF FreshPtw, NewPtw, Attach
<1>3. ~HasList(w) /\ \A x \in Watcher : w \notin todrop[x]
  BY <1>2, RefsFacts DEF IInv, HasList
<1>4. PTypeOK'
  <2>1. /\ refs' \in [Ptw -> Int] /\ st' \in [Ptw -> {"none", "open", "closing"}]
        /\ day' \in [Ptw -> Day] /\ partitions' \subseteq Ptw /\ released' \subseteq Day
    <3>1. released' = released \ {d}
      BY DEF Attach
    <3> QED BY <1>1, <1>2, <3>1 DEF IInv, PTypeOK
  <2>2. UNCHANGED <<phase, clock, ptwHot, deletedPartitions, dirs, mustDrop, by, users, apc,
                    target, todrop>>
    BY DEF Attach
  <2> QED BY <2>1, <2>2 DEF IInv, PTypeOK
<1>5. ListInv' /\ PhaseInv' /\ RestInv' /\ HoldInv'
  BY <1>1, <1>2, <1>3, WatcherFacts
  DEF Attach, IInv, PTypeOK, ListInv, PhaseInv, RestInv, HoldInv
<1>6. RefsInv'
  <2>1. \A v \in Ptw : HasList(v)' <=> HasList(v) \/ v = w
    BY <1>2 DEF HasList
  <2>2. \A v \in Ptw :
          /\ IsFiniteSet(PtwHolders(v)')
          /\ Cardinality(PtwHolders(v)')
               = Cardinality(PtwHolders(v)) + (IF v = w THEN 1 - 1 ELSE 0)
    <3> SUFFICES ASSUME NEW v \in Ptw
                 PROVE  /\ IsFiniteSet(PtwHolders(v)')
                        /\ Cardinality(PtwHolders(v)')
                             = Cardinality(PtwHolders(v)) + (IF v = w THEN 1 - 1 ELSE 0)
      OBVIOUS
    <3>1. PtwHolders(v)' = PtwHolders(v)
      BY <1>2 DEF PtwHolders
    <3>2. IsFiniteSet(PtwHolders(v)) /\ Cardinality(PtwHolders(v)) \in Nat
      BY RefsFacts DEF IInv
    <3> QED BY <3>1, <3>2
  <2>3. 1 \in Nat \ {0}
    OBVIOUS
  <2> QED BY <1>1, <1>2, <2>1, <2>2, <2>3, NewWrapper DEF NoLateUsers
<1> QED BY <1>4, <1>5, <1>6 DEF IInv

\* The process starts with the partitions it finds.
LEMMA OpenStep ==
  ASSUME IInv, Open
  PROVE  IInv'
<1> USE DEF clock, lists, objects, users, admins
<1>1. PICK S \in SUBSET Ptw, f \in [Ptw -> Day] :
        /\ {f[w] : w \in S} = dirs' /\ \A w, v \in S : f[w] = f[v] => w = v
        /\ \A w \in Ptw \ S : f[w] = day[w]
        /\ partitions' = S
        /\ day' = f
        /\ st' = [w \in Ptw |-> IF w \in S THEN "open" ELSE "none"]
        /\ refs' = [w \in Ptw |-> IF w \in S THEN 1 ELSE 0]
  BY DEF Open
<1>2. NoProcess
  BY DEF Open, IInv, RestInv
<1>3. /\ phase' = "open"
      /\ UNCHANGED <<ptwHot, deletedPartitions, mustDrop, by, users, admins, todrop>>
  BY DEF Open
<1>4. PTypeOK'
  BY <1>1, <1>3 DEF Open, IInv, PTypeOK
<1>5. ListInv' /\ PhaseInv' /\ RestInv' /\ HoldInv'
  BY <1>1, <1>2, <1>3, WatcherFacts, UserFacts
  DEF NoProcess, IInv, ListInv, PhaseInv, RestInv, HoldInv
<1>6. RefsInv'
  <2> SUFFICES ASSUME NEW w \in Ptw
               PROVE  /\ IsFiniteSet(PtwHolders(w)')
                      /\ refs'[w] = (IF HasList(w)' THEN 1 ELSE 0) + Cardinality(PtwHolders(w)')
                      /\ st'[w] = "open" <=> refs'[w] > 0
                      /\ HasList(w)' => st'[w] = "open"
    BY DEF RefsInv
  <2>1. PtwHolders(w)' = {}
    BY <1>2, <1>3 DEF NoProcess, PtwHolders
  <2>2. HasList(w)' <=> w \in S
    BY <1>1, <1>2, <1>3, WatcherFacts DEF NoProcess, HasList
  <2> QED BY <1>1, <2>1, <2>2, FS_EmptySet
<1> QED BY <1>4, <1>5, <1>6 DEF IInv

\* No step breaks the invariant.
LEMMA NextIInv == IInv /\ [Next]_vars => IInv'
<1> SUFFICES ASSUME IInv, [Next]_vars PROVE IInv'
  OBVIOUS
<1>1. CASE UNCHANGED vars
  <2>1. Others'
    BY <1>1
    DEF vars, clock, lists, objects, users, admins, IInv, Others, PTypeOK, ListInv, PhaseInv,
        RestInv, NoProcess, HoldInv
  <2>2. RefsInv'
    BY <1>1, SameRefs DEF vars, clock, lists, objects, users, admins, HasList, NoLateUsers
  <2> QED BY <2>1, <2>2 DEF IInv, Others
<1>2. CASE ClosePanic \/ CloseEnd \/ Crash \/ \E f \in Forcer : ForcePanic(f)
  <2>1. LoseMemory /\ phase' \in {"closed", "crashed"} /\ UNCHANGED <<dirs, now, future>>
    BY <1>2 DEF ClosePanic, CloseEnd, Crash, ForcePanic, clock
  <2> QED BY <2>1, LoseMemoryFacts DEF IInv
<1>3. CASE Next
  BY <1>2, <1>3, QuietSteps, TakingSteps, ReturningSteps, UnlistSteps, UnrefSteps, WriteTakeStep,
     AttachStep, OpenStep
  DEF Next
<1> QED BY <1>1, <1>3

\* Partitions always satisfies the inductive invariant.
THEOREM PartitionsIInv == Spec => []IInv
BY InitIInv, NextIInv, PTL DEF Spec

\* PtwRefsAreExact, for any number of days, wrappers, users and administrators, until
\* MustClose() closes partitions while merges are forced.
THEOREM RefsCorrect == Spec => [](phase # "closing" \/ Forcer = {} => PtwRefsAreExact)
<1>1. IInv => (phase # "closing" \/ Forcer = {} => PtwRefsAreExact)
  BY DEF IInv, RefsInv, NoLateUsers, PtwRefsAreExact
<1> QED BY <1>1, PartitionsIInv, PTL

\* CloseFindsNoUsers, when nobody forces merges: nobody else uses partitions when
\* MustClose() gets to them.
THEOREM CloseIsAlone == Forcer = {} => (Spec => []CloseFindsNoUsers)
<1> SUFFICES ASSUME Forcer = {} PROVE Spec => []CloseFindsNoUsers
  OBVIOUS
<1>1. IInv => CloseFindsNoUsers
  <2> SUFFICES ASSUME IInv, phase = "closing", NEW w \in todrop["closer"] PROVE refs[w] = 1
    BY DEF CloseFindsNoUsers
  <2>1. w \in Ptw /\ HasList(w)
    BY DEF IInv, PTypeOK, PhaseInv, HasList
  <2>2. PtwHolders(w) = {}
    BY DEF PtwHolders, User, IInv, PTypeOK, PhaseInv
  <2> QED BY <2>1, <2>2, FS_EmptySet DEF IInv, RefsInv
<1> QED BY <1>1, PartitionsIInv, PTL

-----------------------------------------------------------------------------
(* Dropped days *)

\* A day has one partition on the list, and a dropped day none.
DropInv ==
  /\ \A w, v \in partitions : day[w] = day[v] => w = v
  /\ \A w \in partitions : day[w] \notin deletedPartitions

\* No step breaks it.
LEMMA DropNextInv == IInv /\ DropInv /\ [Next]_vars => DropInv'
<1> SUFFICES ASSUME IInv, DropInv, [Next]_vars PROVE DropInv'
  OBVIOUS
<1> USE DEF clock, lists, objects, users, admins
<1>1. CASE UNCHANGED <<partitions, day, deletedPartitions>>
  BY <1>1 DEF DropInv
<1>2. ASSUME NEW x \in Watcher, NEW S \in SUBSET partitions, Drop(x, S) PROVE DropInv'
  <2>1. /\ partitions' = partitions \ S /\ day' = day
        /\ deletedPartitions' = deletedPartitions \cup {day[w] : w \in S}
    BY <1>2 DEF Drop, Unlist
  <2> QED BY <2>1 DEF DropInv
<1>3. ASSUME NEW a \in Admin, NEW d \in Day, Detach(a, d) PROVE DropInv'
  <2>1. /\ partitions' \subseteq partitions
        /\ UNCHANGED <<day, deletedPartitions>>
    BY <1>3 DEF Detach, Unlist
  <2> QED BY <2>1 DEF DropInv
<1>4. ASSUME NEW w \in FreshPtw, NEW d \in Day, NewPtw(w, d), Listed(d) = {},
             d \notin deletedPartitions, deletedPartitions' = deletedPartitions
      PROVE DropInv'
  <2>1. /\ w \in Ptw /\ w \notin partitions /\ partitions' = partitions \cup {w}
        /\ \A v \in Ptw : day'[v] = IF v = w THEN d ELSE day[v]
        /\ \A v \in partitions : v \in Ptw /\ day[v] # d
    BY <1>4 DEF FreshPtw, NewPtw, Listed, IInv, PTypeOK
  <2> QED BY <1>4, <2>1 DEF DropInv
<1>5. ASSUME NEW u \in Writer, NEW d \in Day, WriteTake(u, d) PROVE DropInv'
  BY <1>1, <1>4, <1>5 DEF WriteTake, MayCreate
<1>6. ASSUME NEW a \in Admin, NEW d \in Day, Attach(a, d) PROVE DropInv'
  BY <1>4, <1>6 DEF Attach
<1>7. CASE ClosePanic \/ CloseEnd \/ Crash \/ \E f \in Forcer : ForcePanic(f)
  BY <1>7 DEF ClosePanic, CloseEnd, Crash, ForcePanic, LoseMemory, DropInv
<1>8. CASE Open
  <2>1. deletedPartitions' = {}
    BY <1>8 DEF Open, IInv, RestInv, NoProcess
  <2>2. \A w, v \in partitions' : day'[w] = day'[v] => w = v
    BY <1>8 DEF Open
  <2> QED BY <2>1, <2>2 DEF DropInv
<1>9. CASE DropStale \/ DropBySize
  BY <1>2, <1>9, WatcherFacts DEF DropStale, DropBySize
<1>10. ASSUME
          \/ Tick \/ CloseBegin \/ CloseWait \/ CloseNext
          \/ \E w \in Ptw : FinishClose(w)
          \/ \E u \in Writer :
               \/ WriteSkipHot(u) \/ WriteSplit(u) \/ WriteDone(u)
               \/ \E D \in SUBSET Day : WriteStart(u, D)
               \/ \E d \in Day : WriteSkip(u, d)
          \/ \E u \in Reader \cup Background : ReadStart(u) \/ ReleaseNext(u)
          \/ \E f \in Forcer :
               ForceLaunch(f) \/ ForceTake(f) \/ ForceMerge(f) \/ ForceDone(f) \/ ReleaseNext(f)
          \/ \E x \in Watcher : DropNext(x)
          \/ \E a \in Admin : DetachDecRef(a) \/ DetachReturn(a)
          \/ \E d \in Day : ReplaceDir(d)
          \/ UNCHANGED vars
       PROVE UNCHANGED <<partitions, day, deletedPartitions>>
  BY <1>10
  DEF Tick, CloseBegin, CloseWait, CloseNext, FinishClose, WriteSkipHot, WriteSplit, WriteDone,
      WriteStart, WriteSkip, ReadStart, ReleaseNext, ForceLaunch, ForceTake, ForceMerge, ForceDone,
      DropNext, DetachDecRef, DetachReturn, ReplaceDir, Take, DecRef, vars
<1> QED
  BY <1>1, <1>3, <1>5, <1>6, <1>7, <1>8, <1>9, <1>10 DEF Next

\* DroppedDayStaysAway, for any number of days, wrappers, users and administrators.
THEOREM DroppedStaysAway == Spec => []DroppedDayStaysAway
<1>1. Init => DropInv
  BY DEF Init, DropInv
<1>2. IInv /\ DropInv => DroppedDayStaysAway
  BY DEF IInv, ListInv, DropInv, DroppedDayStaysAway
<1> QED BY <1>1, <1>2, DropNextInv, PartitionsIInv, PTL DEF Spec

-----------------------------------------------------------------------------
(* Directories *)

\* PartitionDetach() has the partition.
Detached(w) == \E a \in Admin : apc[a] # "idle" /\ target[a] = w

\* Who may use the directory of a partition: the partition until it is closed, and
\* PartitionDetach() until it returns.
Owns(w) == st[w] # "none" \/ Detached(w)

\* A directory has one owner, which didn't leave it to external tools.  A partition
\* which is off the list is dropped or detached, never both.
DirInv ==
  /\ \A w, v \in Ptw : Owns(w) /\ Owns(v) /\ day[w] = day[v] => w = v
  /\ \A w \in Ptw : Owns(w) => day[w] \in dirs /\ day[w] \notin released
  /\ \A w \in Ptw : st[w] # "none" /\ w \notin partitions =>
       day[w] \in deletedPartitions \/ Detached(w)
  /\ \A w \in mustDrop \cup todrop["retention"] \cup todrop["disk"] :
       day[w] \in deletedPartitions /\ ~Detached(w)
  /\ \A w \in mustDrop : st[w] # "none"
  /\ \A w \in partitions : ~Detached(w)

\* decRef() doesn't end the closing of a partition.
LEMMA DecRefKeeps ==
  ASSUME IInv, NEW w \in Ptw, NEW x, DecRef(w, x), HasList(w) \/ ~ClosedTwice(w)
  PROVE  day' = day /\ \A v \in Ptw : st'[v] = "none" <=> st[v] = "none"
<1>1. refs[w] = 1 => st[w] = "open"
  BY DEF IInv, RefsInv, ClosedTwice
<1>2. st \in [Ptw -> {"none", "open", "closing"}]
  BY DEF IInv, PTypeOK
<1>3. day' = day /\ (st' = st \/ (refs[w] = 1 /\ st' = [st EXCEPT ![w] = "closing"]))
  BY DEF DecRef
<1> QED BY <1>1, <1>2, <1>3

\* Steps which close and detach nothing, and take nothing from the list.
LEMMA SameOwners ==
  ASSUME IInv, DirInv,
         UNCHANGED <<partitions, day, deletedPartitions, dirs, mustDrop, released>>,
         \A w \in Ptw : st'[w] = "none" <=> st[w] = "none",
         \A w \in Ptw : Detached(w)' <=> Detached(w),
         \A x \in Watcher : todrop'[x] \subseteq todrop[x]
  PROVE  DirInv'
<1>1. \A w \in Ptw : Owns(w)' <=> Owns(w)
  BY DEF Owns
<1>2. /\ mustDrop \subseteq Ptw /\ partitions \subseteq Ptw
      /\ \A x \in Watcher : todrop[x] \subseteq Ptw
  BY DEF IInv, PTypeOK
<1> QED BY <1>1, <1>2, WatcherFacts DEF DirInv

\* A partition is created, or attached, where nobody uses the directory.
LEMMA NewOwner ==
  ASSUME IInv, DirInv, NEW w \in FreshPtw, NEW d \in Day, NewPtw(w, d),
         \A v \in Ptw : Owns(v) => day[v] # d,
         dirs' = dirs \cup {d}, released' = released \ {d},
         UNCHANGED <<deletedPartitions, mustDrop, apc, target, todrop>>
  PROVE  DirInv'
<1>1. /\ w \in Ptw /\ st[w] = "none" /\ w \notin partitions /\ ~Detached(w)
      /\ \A v \in Ptw : st'[v] = IF v = w THEN "open" ELSE st[v]
      /\ \A v \in Ptw : day'[v] = IF v = w THEN d ELSE day[v]
      /\ partitions' = partitions \cup {w}
  BY DEF FreshPtw, NewPtw, Detached, IInv, PTypeOK
<1>2. \A v \in Ptw : Detached(v)' <=> Detached(v)
  BY DEF Detached
<1>3. \A v \in Ptw : Owns(v)' <=> Owns(v) \/ v = w
  BY <1>1, <1>2 DEF Owns
<1>4. w \notin mustDrop \cup todrop["retention"] \cup todrop["disk"]
  BY <1>1, RefsFacts, WatcherFacts DEF DirInv, IInv, HasList
<1>5. mustDrop \cup todrop["retention"] \cup todrop["disk"] \cup partitions \subseteq Ptw
  BY WatcherFacts DEF IInv, PTypeOK
<1>6. \A v, z \in Ptw : Owns(v)' /\ Owns(z)' /\ day'[v] = day'[z] => v = z
  BY <1>1, <1>3 DEF DirInv
<1>7. \A v \in Ptw : Owns(v)' => day'[v] \in dirs' /\ day'[v] \notin released'
  BY <1>1, <1>3 DEF DirInv
<1>8. \A v \in Ptw : st'[v] # "none" /\ v \notin partitions' =>
        day'[v] \in deletedPartitions' \/ Detached(v)'
  BY <1>1, <1>2 DEF DirInv
<1>9. \A v \in mustDrop' \cup todrop'["retention"] \cup todrop'["disk"] :
        day'[v] \in deletedPartitions' /\ ~Detached(v)'
  BY <1>1, <1>2, <1>4, <1>5 DEF DirInv
<1>10. \A v \in mustDrop' : st'[v] # "none"
  BY <1>1, <1>4, <1>5 DEF DirInv
<1>11. \A v \in partitions' : ~Detached(v)'
  BY <1>1, <1>2, <1>5 DEF DirInv
<1> QED BY <1>6, <1>7, <1>8, <1>9, <1>10, <1>11 DEF DirInv

\* No step breaks it, when there is one administrator.
LEMMA NextDirInv ==
  ASSUME \A a, b \in Admin : a = b, IInv, DropInv, DirInv, [Next]_vars
  PROVE  DirInv'
<1> USE DEF clock, lists, objects, users, admins
<1>1. CASE UNCHANGED vars
  BY <1>1, SameOwners DEF vars, Detached
<1>2. CASE \/ Tick \/ CloseBegin
           \/ \E u \in Writer :
                \/ WriteSplit(u)
                \/ \E D \in SUBSET Day : WriteStart(u, D)
                \/ \E d \in Day : WriteSkip(u, d)
           \/ \E u \in Reader \cup Background : ReadStart(u)
           \/ \E f \in Forcer : ForceLaunch(f) \/ ForceTake(f) \/ ForceMerge(f) \/ ForceDone(f)
  <2>1. UNCHANGED <<partitions, day, deletedPartitions, dirs, mustDrop, released, st, apc, target,
                    todrop>>
    BY <1>2
    DEF Tick, CloseBegin, WriteSplit, WriteStart, WriteSkip, ReadStart, ForceLaunch, ForceTake,
        ForceMerge, ForceDone, Take
  <2> QED BY <2>1, SameOwners DEF Detached
<1>3. CASE CloseWait \/ CloseNext
  <2>1. /\ UNCHANGED <<partitions, day, deletedPartitions, dirs, mustDrop, released, apc, target>>
        /\ \A v \in Ptw : st'[v] = "none" <=> st[v] = "none"
    BY <1>3, DecRefKeeps DEF CloseWait, CloseNext, HasList, IInv, PTypeOK, PhaseInv
  <2>2. \A x \in Watcher : todrop'[x] = todrop[x]
    BY <1>3, WatcherFacts DEF CloseWait, CloseNext, IInv, PTypeOK
  <2> QED BY <2>1, <2>2, SameOwners DEF Detached
<1>4. CASE \/ \E u \in Writer : WriteSkipHot(u) \/ WriteDone(u)
           \/ \E u \in Reader \cup Background \cup Forcer : ReleaseNext(u)
  <2>1. PICK u \in User : \E w \in held[u] :
          /\ DecRef(w, u) /\ (phase = "open" \/ ~ClosedTwice(w))
          /\ UNCHANGED <<partitions, deletedPartitions, dirs, mustDrop, released, apc, target,
                         todrop>>
    BY <1>4, UserFacts DEF WriteSkipHot, WriteDone, ReleaseNext, InUse, IInv, PhaseInv
  <2>2. held[u] \subseteq Ptw
    BY DEF IInv, PTypeOK
  <2>3. day' = day /\ \A v \in Ptw : st'[v] = "none" <=> st[v] = "none"
    BY <2>1, <2>2, HeldFacts, DecRefKeeps DEF NoLateUsers
  <2> QED BY <2>1, <2>3, SameOwners DEF Detached
<1>5. ASSUME NEW w \in Ptw, FinishClose(w) PROVE DirInv'
  <2>1. /\ st[w] = "closing" /\ \A v \in Ptw : st'[v] = IF v = w THEN "none" ELSE st[v]
        /\ dirs' = IF w \in mustDrop THEN dirs \ {day[w]} ELSE dirs
        /\ mustDrop' = mustDrop \ {w}
        /\ UNCHANGED <<partitions, day, deletedPartitions, released, apc, target, todrop>>
    BY <1>5 DEF FinishClose, IInv, PTypeOK
  <2>2. \A v \in Ptw : Detached(v)' <=> Detached(v)
    BY <2>1 DEF Detached
  <2>3. \A v \in Ptw : Owns(v)' => Owns(v) /\ (v = w => Detached(w))
    BY <2>1, <2>2 DEF Owns
  <2>4. Owns(w)
    BY <2>1 DEF Owns
  <2>5. mustDrop \cup todrop["retention"] \cup todrop["disk"] \cup partitions \subseteq Ptw
    BY WatcherFacts DEF IInv, PTypeOK
  <2>6. \A v, z \in Ptw : Owns(v)' /\ Owns(z)' /\ day'[v] = day'[z] => v = z
    BY <2>1, <2>3 DEF DirInv
  <2>7. \A v \in Ptw : Owns(v)' => day'[v] \in dirs' /\ day'[v] \notin released'
    BY <2>1, <2>3, <2>4 DEF DirInv
  <2>8. \A v \in Ptw : st'[v] # "none" /\ v \notin partitions' =>
          day'[v] \in deletedPartitions' \/ Detached(v)'
    BY <2>1, <2>2 DEF DirInv
  <2>9. /\ \A v \in mustDrop' \cup todrop'["retention"] \cup todrop'["disk"] :
             day'[v] \in deletedPartitions' /\ ~Detached(v)'
        /\ \A v \in mustDrop' : st'[v] # "none"
        /\ \A v \in partitions' : ~Detached(v)'
    BY <2>1, <2>2, <2>5 DEF DirInv
  <2> QED BY <2>6, <2>7, <2>8, <2>9 DEF DirInv
<1>6. ASSUME NEW u \in Writer, NEW d \in Day, WriteTake(u, d) PROVE DirInv'
  <2>1. UNCHANGED <<deletedPartitions, mustDrop, apc, target, todrop>>
    BY <1>6 DEF WriteTake
  <2>2. CASE UNCHANGED <<partitions, dirs, st, day, released>>
    BY <2>1, <2>2, SameOwners DEF Detached
  <2>3. ASSUME NEW w \in FreshPtw, NewPtw(w, d), d \notin dirs, dirs' = dirs \cup {d},
               released' = released \ {d}
        PROVE  DirInv'
    <3>1. \A v \in Ptw : Owns(v) => day[v] # d
      BY <2>3 DEF DirInv
    <3> QED BY <2>1, <2>3, <3>1, NewOwner
  <2> QED BY <1>6, <2>2, <2>3 DEF WriteTake, MayCreate
<1>7. ASSUME NEW a \in Admin, NEW d \in Day, Attach(a, d) PROVE DirInv'
  <2>1. PICK w \in FreshPtw : NewPtw(w, d)
    BY <1>7 DEF Attach
  <2>2. /\ apc[a] = "idle" /\ d \notin deletedPartitions /\ Listed(d) = {} /\ d \in dirs
        /\ released' = released \ {d} /\ dirs' = dirs
        /\ UNCHANGED <<deletedPartitions, mustDrop, apc, target, todrop>>
    BY <1>7 DEF Attach
  <2>3. \A v \in Ptw : ~Detached(v)
    BY <2>2 DEF Detached
  <2>4. \A v \in Ptw : Owns(v) => day[v] # d
    BY <2>2, <2>3 DEF Owns, DirInv, Listed
  <2>5. dirs' = dirs \cup {d}
    BY <2>2
  <2> QED BY <2>1, <2>2, <2>4, <2>5, NewOwner
<1>8. ASSUME NEW a \in Admin, NEW d \in Day, Detach(a, d) PROVE DirInv'
  <2>1. PICK w \in Listed(d) : Unlist({w}) /\ target' = [target EXCEPT ![a] = w]
    BY <1>8 DEF Detach
  <2>2. /\ phase = "open" /\ apc[a] = "idle" /\ apc' = [apc EXCEPT ![a] = "detaching"]
        /\ UNCHANGED <<day, st, deletedPartitions, dirs, mustDrop, released, todrop>>
        /\ w \in partitions /\ w \in Ptw /\ partitions' = partitions \ {w}
    BY <1>8, <2>1 DEF Detach, Unlist, Listed, IInv, PTypeOK
  <2>3. \A v \in Ptw : ~Detached(v) /\ (Detached(v)' <=> v = w)
    BY <2>1, <2>2 DEF Detached, IInv, PTypeOK
  <2>4. st[w] = "open"
    BY <2>2, HeldFacts DEF NoLateUsers
  <2>5. \A v \in Ptw : Owns(v)' <=> Owns(v)
    BY <2>2, <2>3, <2>4 DEF Owns
  <2>6. w \notin mustDrop \cup todrop["retention"] \cup todrop["disk"]
    BY <2>2 DEF DirInv, DropInv
  <2>7. mustDrop \cup todrop["retention"] \cup todrop["disk"] \cup partitions \subseteq Ptw
    BY WatcherFacts DEF IInv, PTypeOK
  <2> QED BY <2>2, <2>3, <2>5, <2>6, <2>7 DEF DirInv
<1>9. ASSUME NEW a \in Admin, DetachDecRef(a) PROVE DirInv'
  <2>1. /\ apc[a] = "detaching" /\ apc' = [apc EXCEPT ![a] = "waiting"] /\ target[a] \in Ptw
        /\ DecRef(target[a], a)
        /\ UNCHANGED <<partitions, deletedPartitions, dirs, mustDrop, released, target, todrop>>
    BY <1>9 DEF DetachDecRef, IInv, ListInv
  <2>2. \A v \in Ptw : Detached(v)' <=> Detached(v)
    BY <2>1 DEF Detached, IInv, PTypeOK
  <2>3. day' = day /\ \A v \in Ptw : st'[v] = "none" <=> st[v] = "none"
    BY <2>1, DecRefKeeps DEF HasList
  <2> QED BY <2>1, <2>2, <2>3, SameOwners
<1>10. ASSUME NEW a \in Admin, DetachReturn(a) PROVE DirInv'
  <2>1. /\ apc[a] = "waiting" /\ apc' = [apc EXCEPT ![a] = "idle"] /\ target[a] \in Ptw
        /\ st[target[a]] = "none" /\ released' = released \cup {day[target[a]]}
        /\ UNCHANGED <<partitions, day, st, deletedPartitions, dirs, mustDrop, todrop>>
    BY <1>10 DEF DetachReturn, IInv, ListInv
  <2>2. \A v \in Ptw : ~Detached(v)' /\ (Detached(v) <=> v = target[a])
    BY <2>1 DEF Detached, IInv, PTypeOK
  <2>3. \A v \in Ptw : Owns(v)' <=> Owns(v) /\ v # target[a]
    BY <2>1, <2>2 DEF Owns
  <2>4. Owns(target[a])
    BY <2>1, <2>2 DEF Owns
  <2>5. mustDrop \cup todrop["retention"] \cup todrop["disk"] \cup partitions \subseteq Ptw
    BY WatcherFacts DEF IInv, PTypeOK
  <2>6. \A v \in Ptw : Owns(v)' => day'[v] \in dirs' /\ day'[v] \notin released'
    BY <2>1, <2>3, <2>4 DEF DirInv
  <2> QED BY <2>1, <2>2, <2>3, <2>5, <2>6 DEF DirInv
<1>11. ASSUME NEW x \in Watcher, NEW S \in SUBSET partitions, Drop(x, S) PROVE DirInv'
  <2>1. /\ partitions' = partitions \ S /\ todrop' = [todrop EXCEPT ![x] = S]
        /\ deletedPartitions' = deletedPartitions \cup {day[w] : w \in S}
        /\ UNCHANGED <<day, st, dirs, mustDrop, released, apc, target>>
    BY <1>11 DEF Drop, Unlist
  <2>2. \A v \in Ptw : (Detached(v)' <=> Detached(v)) /\ (Owns(v)' <=> Owns(v))
    BY <2>1 DEF Owns, Detached
  <2>3. mustDrop \cup todrop["retention"] \cup todrop["disk"] \cup partitions \subseteq Ptw
    BY WatcherFacts DEF IInv, PTypeOK
  <2>4. todrop'["retention"] \cup todrop'["disk"]
          \subseteq todrop["retention"] \cup todrop["disk"] \cup S
    BY <2>1, WatcherFacts DEF IInv, PTypeOK
  <2> QED BY <2>1, <2>2, <2>3, <2>4 DEF DirInv
<1>12. ASSUME NEW x \in Watcher, DropNext(x) PROVE DirInv'
  <2>1. PICK w \in todrop[x] : /\ DecRef(w, x) /\ mustDrop' = mustDrop \cup {w}
                               /\ todrop' = [todrop EXCEPT ![x] = @ \ {w}]
    BY <1>12 DEF DropNext
  <2>2. UNCHANGED <<partitions, deletedPartitions, dirs, released, apc, target>>
    BY <1>12 DEF DropNext
  <2>3. mustDrop \cup todrop["retention"] \cup todrop["disk"] \cup partitions \subseteq Ptw
    BY WatcherFacts DEF IInv, PTypeOK
  <2>4. /\ w \in Ptw /\ HasList(w) /\ w \in todrop["retention"] \cup todrop["disk"]
        /\ todrop'["retention"] \subseteq todrop["retention"]
        /\ todrop'["disk"] \subseteq todrop["disk"]
    BY <2>1, <2>3, WatcherFacts DEF HasList, IInv, PTypeOK
  <2>5. day' = day /\ \A v \in Ptw : st'[v] = "none" <=> st[v] = "none"
    BY <2>1, <2>4, DecRefKeeps
  <2>6. \A v \in Ptw : (Detached(v)' <=> Detached(v)) /\ (Owns(v)' <=> Owns(v))
    BY <2>2, <2>5 DEF Owns, Detached
  <2>7. st[w] # "none"
    BY <2>4, RefsFacts DEF IInv
  <2> QED BY <2>1, <2>2, <2>3, <2>4, <2>5, <2>6, <2>7 DEF DirInv
<1>13. ASSUME NEW d \in Day, ReplaceDir(d) PROVE DirInv'
  <2>1. /\ d \in released /\ \A e \in dirs : e = d \/ e \in dirs'
        /\ UNCHANGED <<partitions, day, st, deletedPartitions, mustDrop, released, apc, target,
                       todrop>>
    BY <1>13 DEF ReplaceDir
  <2>2. \A v \in Ptw : (Detached(v)' <=> Detached(v)) /\ (Owns(v)' <=> Owns(v))
    BY <2>1 DEF Owns, Detached
  <2>3. mustDrop \cup todrop["retention"] \cup todrop["disk"] \cup partitions \subseteq Ptw
    BY WatcherFacts DEF IInv, PTypeOK
  <2> QED BY <2>1, <2>2, <2>3 DEF DirInv
<1>14. CASE ClosePanic \/ CloseEnd \/ Crash \/ \E f \in Forcer : ForcePanic(f)
  <2>1. LoseMemory
    BY <1>14 DEF ClosePanic, CloseEnd, Crash, ForcePanic
  <2>2. \A v \in Ptw : ~Detached(v)' /\ ~Owns(v)'
    BY <2>1 DEF LoseMemory, Detached, Owns
  <2> QED BY <2>1, <2>2, WatcherFacts DEF LoseMemory, DirInv
<1>15. CASE Open
  <2>1. PICK S \in SUBSET Ptw, f \in [Ptw -> Day] :
          /\ {f[w] : w \in S} = dirs' /\ \A w, v \in S : f[w] = f[v] => w = v
          /\ partitions' = S
          /\ day' = f
          /\ st' = [w \in Ptw |-> IF w \in S THEN "open" ELSE "none"]
    BY <1>15 DEF Open
  <2>2. NoProcess /\ UNCHANGED <<mustDrop, released, apc, target, todrop>>
    BY <1>15 DEF Open, IInv, RestInv
  <2>3. \A v \in Ptw : ~Detached(v)' /\ (Owns(v)' <=> v \in S)
    BY <2>1, <2>2 DEF NoProcess, Detached, Owns
  <2> QED BY <2>1, <2>2, <2>3, WatcherFacts DEF NoProcess, DirInv
<1>16. CASE DropStale \/ DropBySize
  BY <1>11, <1>16, WatcherFacts DEF DropStale, DropBySize
<1> QED
  BY <1>1, <1>2, <1>3, <1>4, <1>5, <1>6, <1>7, <1>8, <1>9, <1>10, <1>12, <1>13, <1>14, <1>15, <1>16
  DEF Next

\* What holds of directories when administrators detach and attach partitions one at a
\* time.
LEMMA DirectoriesInv ==
  (\A a, b \in Admin : a = b) => (Spec => [](IInv /\ DirInv))
<1> SUFFICES ASSUME \A a, b \in Admin : a = b
             PROVE  Spec => [](IInv /\ DirInv)
  OBVIOUS
<1>1. Init => DropInv /\ DirInv
  BY WatcherFacts DEF Init, DropInv, DirInv, Owns, Detached
<1>2. IInv /\ DropInv /\ DirInv /\ [Next]_vars => DropInv' /\ DirInv'
  BY DropNextInv, NextDirInv
<1> QED BY <1>1, <1>2, PartitionsIInv, PTL DEF Spec

\* PtwInv, for any number of days, wrappers and users, when administrators detach and
\* attach partitions one at a time: a partition is open as long as it is used, and its
\* directory exists.  When merges are forced it holds until MustClose() has waited for
\* s.wg: a forced merge it doesn't wait for may take partitions it has closed.
THEOREM DirectoriesCorrect ==
  (\A a, b \in Admin : a = b) =>
    (Spec => [](phase # "closing" \/ Forcer = {} => PtwInv))
<1> SUFFICES ASSUME \A a, b \in Admin : a = b
             PROVE  Spec => [](phase # "closing" \/ Forcer = {} => PtwInv)
  OBVIOUS
<1>1. IInv /\ DirInv => (phase # "closing" \/ Forcer = {} => PtwInv)
  <2> SUFFICES ASSUME IInv, DirInv, NoLateUsers PROVE PtwInv
    BY DEF NoLateUsers
  <2>1. PTypeOK /\ PtwRefsAreExact
    BY DEF IInv, RefsInv, PtwRefsAreExact
  <2>2. \A u \in User : \A w \in held[u] : w \in Ptw /\ st[w] = "open"
    <3> SUFFICES ASSUME NEW u \in User, NEW w \in held[u] PROVE w \in Ptw /\ st[w] = "open"
      OBVIOUS
    <3>1. w \in Ptw
      BY DEF IInv, PTypeOK
    <3> QED BY <3>1, HeldFacts
  <2>3. UsedPartitionsExist
    BY <2>2 DEF UsedPartitionsExist, DirInv, Owns
  <2> QED BY <2>1, <2>3 DEF PtwInv
<1> QED BY <1>1, DirectoriesInv, PTL

\* DirectoriesAreSafe, for any number of days, wrappers and users, when administrators
\* detach and attach partitions one at a time: a directory has one partition at most,
\* and none after it was given back to the administrator.
THEOREM DirectoriesAreAlone ==
  (\A a, b \in Admin : a = b) => (Spec => []DirectoriesAreSafe)
<1> SUFFICES ASSUME \A a, b \in Admin : a = b
             PROVE  Spec => []DirectoriesAreSafe
  OBVIOUS
<1>1. IInv /\ DirInv => DirectoriesAreSafe
  BY DEF DirectoriesAreSafe, OnePartitionPerDirectory, ReleasedDirIsUnused, DirInv, Owns
<1> QED BY <1>1, DirectoriesInv, PTL
=============================================================================
