------------------------ MODULE DatadbDelete_proofs ------------------------
(***************************************************************************)
(* Deletes of rows beside merges, flushes, readers, crashes and each       *)
(* other: the parts a delete reads stay open, only matching rows leave the *)
(* disk, and a delete which returns true has found all of them.            *)
(***************************************************************************)
EXTENDS DatadbDelete, Datadb_proofs

\* The inductive invariant: parts are used safely, and deletes keep their part of it.
DeleteSafe == UseInv /\ SourcesListed(Worker \ Deleter) /\ DeleteInv

-----------------------------------------------------------------------------
(* Which steps a delete adds to those of Datadb *)

\* Whatever others do is a step of Datadb.
LEMMA OtherIsNext == OtherStep => Next
<1> SUFFICES ASSUME OtherStep PROVE Next
  OBVIOUS
<1>1. ASSUME NEW w \in Worker \ Deleter,
             \/ MergerStart(w) \/ MergerPick(w) \/ MergerGiveUp(w) \/ MergeStep(w)
             \/ \E c \in Caller : SpawnMerge(c, w)
      PROVE  Next
  BY <1>1 DEF Next
<1>2. ASSUME NEW q \in Query \ Deleter, QueryStart(q) \/ QueryRelease(q) PROVE Next
  BY <1>2 DEF Next
<1> QED BY <1>1, <1>2 DEF OtherStep, Next

\* What a delete knows, and its merge and references, as far as others could change them.
Untouched(d) ==
  /\ wpc'[d] = wpc[d] /\ src'[d] = src[d] /\ dst'[d] = dst[d] /\ owner'[d] = owner[d]
  /\ held'[d] = held[d] /\ del'[d] = del[d]

LEMMA Deleters ==
  ASSUME NEW d \in Deleter
  PROVE  /\ d \in Worker /\ d \in Query /\ d \in Reader /\ d \notin Snapshotter
BY DeleterAssumption, CallerAssumption DEF Reader

LEMMA OtherLeavesDelete ==
  ASSUME TypeOK, OtherStep, UNCHANGED del, NEW d \in Deleter
  PROVE  Untouched(d)
<1> USE DEF disk, parts, merges, callers, readers
<1> d \in Worker /\ d \in Query /\ d \in Reader /\ del'[d] = del[d]
  BY Deleters
<1>1. ASSUME UNCHANGED <<merges, held>> PROVE Untouched(d)
  BY <1>1 DEF Untouched
<1>2. ASSUME NEW w \in Worker \ Deleter,
             \/ MergerStart(w) \/ MergerPick(w) \/ MergerGiveUp(w) \/ MergeStep(w)
             \/ \E c \in Caller : SpawnMerge(c, w)
      PROVE  Untouched(d)
  <2>1. MergeMoves(w) /\ d \in Worker \ {w}
    BY <1>2 DEF MergeMoves
  <2>2. UNCHANGED held
    BY <1>2 DEF MergerStart, MergerPick, MergerGiveUp, MergeStep, MergeStart, MergeNoSpace, MergeWrite,
                MergeWriteRows, MergeInterrupt, MergeStop, MergeSwap, MergeDrop, MergeRelease, SpawnMerge
  <2> QED BY <2>1, <2>2, OthersMerge DEF Untouched
<1>3. ASSUME NEW q \in Query \ Deleter, QueryStart(q) \/ QueryRelease(q) PROVE Untouched(d)
  <2>1. UNCHANGED merges /\ held'[d] = held[d]
    BY <1>3 DEF QueryStart, QueryRelease, ReleaseOne, TypeOK, Reader
  <2> QED BY <2>1 DEF Untouched
<1>4. \A s \in Shard : FlushRows(s) \/ (\E R \in SUBSET Row : AddRows(s, R)) => UNCHANGED <<merges, held>>
  BY DEF FlushRows, AddRows
<1>5. \A f \in Forcer : ForceStart(f) \/ ForceCollect(f) \/ ForceDone(f) => UNCHANGED <<merges, held>>
  BY DEF ForceStart, ForceCollect, ForceDone
<1>6. /\ FlusherTick \/ FlusherDone => UNCHANGED <<merges, held>>
      /\ CloseBegin \/ CloseStop \/ CloseFinalFlush \/ CloseEnd \/ Open => UNCHANGED <<merges, held>>
      /\ \A p \in Part : DeadlinePasses(p) => UNCHANGED <<merges, held>>
  BY DEF FlusherTick, FlusherDone, CloseBegin, CloseStop, CloseFinalFlush, CloseEnd, Open, DeadlinePasses
<1> QED
  BY <1>1, <1>2, <1>3, <1>4, <1>5, <1>6 DEF OtherStep

\* The process dies: everything but the disk is forgotten.
Dies ==
  /\ LoseMemory /\ phase' = "crashed" /\ del' = [d \in Deleter |-> NoDelete]
  /\ UNCHANGED <<added, dir>>

\* The steps of a delete which datadb.go knows from searches and merges.
DeleteAsOthers(d) ==
  \/ QueryStart(d) \/ QueryRelease(d)
  \/ MergeStart(d) \/ MergeNoSpace(d) \/ MergeDrop(d) \/ MergeRelease(d)
  \/ src[d] \subseteq listed /\ MergeSwap(d)

\* The steps only deletes take.
DeleteMergesClaimed(d) == del[d].claimed # {} /\ DeleteMerge(d)

DeleteOwn(d) ==
  \/ \E p \in Part : DeleteClaim(d, p)
  \/ DeleteMergesClaimed(d) \/ DeleteWrite(d) \/ DeleteInterrupt(d)

LEMMA DeleteTypes ==
  ASSUME DeleteTypeOK, NEW d \in Deleter
  PROVE  /\ del[d] \in DeleteType /\ del[d].filter \in SUBSET Row /\ del[d].goal \in SUBSET Row
         /\ del[d].todo \in SUBSET Part /\ del[d].claimed \in SUBSET Part
         /\ del[d].repeat \in BOOLEAN /\ del[d].stop \in BOOLEAN /\ del[d].ok \in BOOLEAN
BY DEF DeleteTypeOK, DeleteType

LEMMA DeleteStepKinds ==
  ASSUME DeleteTypeOK, DeleteShape, NEW d \in Deleter, DeleteStep(d)
  PROVE  \/ UNCHANGED vars \/ DeleteAsOthers(d) \/ DeleteOwn(d) \/ DeletePanic(d)
<1> USE DEF disk, parts, merges, callers, readers
<1>1. CASE DeleteGetParts(d)
  <2>1. held[d] = {} /\ d \in Reader /\ phase = "open"
    BY <1>1, Deleters DEF DeleteGetParts, DeleteShape
  <2>2. CASE listed = {}
    <3>1. held' = held
      BY <1>1, <2>1, <2>2 DEF DeleteGetParts, DeleteTypeOK, TypeOK
    <3>2. refs' = refs
      BY <1>1, <2>2 DEF DeleteGetParts, IncRef, DeleteTypeOK, TypeOK
    <3> QED BY <1>1, <3>1, <3>2 DEF DeleteGetParts, vars
  <2>3. CASE listed # {}
    <3>1. QueryStart(d)
      BY <1>1, <2>1, <2>3 DEF DeleteGetParts, QueryStart
    <3> QED BY <3>1 DEF DeleteAsOthers
  <2> QED BY <2>2, <2>3
<1>2. CASE DeleteMerge(d)
  BY <1>2 DEF DeleteMerge, DeleteOwn, DeleteMergesClaimed, vars
<1>3. CASE DeleteStart(d) \/ DeleteReturn(d) \/ DeleteEnd(d) \/ DeleteStop(d)
  BY <1>3 DEF DeleteStart, DeleteReturn, DeleteEnd, DeleteStop
<1>4. ASSUME NEW p \in Part, DeleteSkip(d, p) \/ DeleteClaim(d, p) \/ DeletePostpone(d, p)
      PROVE  UNCHANGED vars \/ DeleteOwn(d)
  BY <1>4 DEF DeleteSkip, DeletePostpone, DeleteOwn
<1>5. CASE DeleteSwap(d) \/ DeleteDecRef(d)
  BY <1>5 DEF DeleteSwap, DeleteDecRef, QueryRelease, DeleteAsOthers
<1>6. CASE MergeStart(d) \/ MergeNoSpace(d) \/ MergeDrop(d) \/ MergeRelease(d)
  BY <1>6 DEF DeleteAsOthers
<1> QED BY <1>1, <1>2, <1>3, <1>4, <1>5, <1>6 DEF DeleteStep, DeleteOwn

LEMMA DeleteAsOthersIsNext ==
  ASSUME NEW d \in Deleter, DeleteAsOthers(d)
  PROVE  Next
<1>1. d \in Worker /\ d \in Query
  BY Deleters
<1>2. CASE QueryStart(d) \/ QueryRelease(d)
  BY <1>1, <1>2 DEF Next
<1>3. CASE MergeStep(d)
  BY <1>1, <1>3 DEF Next
<1> QED BY <1>2, <1>3 DEF DeleteAsOthers, MergeStep

\* A delete changes nothing about another one.
LEMMA DeletesApart ==
  ASSUME DeleteTypeOK, NEW e \in Deleter, DeleteStep(e), NEW d \in Deleter \ {e}
  PROVE  Untouched(d) \/ DeletePanic(e)
<1> USE DEF disk, parts, merges, callers, readers, DeleteTypeOK, TypeOK
<1> d \in Worker /\ d \in Query /\ d \in Reader /\ e \in Worker /\ e \in Reader
  BY Deleters
<1>1. CASE DeleteStart(e) \/ DeleteGetParts(e) \/ DeleteReturn(e) \/ DeleteEnd(e) \/ DeleteStop(e)
  BY <1>1 DEF DeleteStart, DeleteGetParts, DeleteReturn, DeleteEnd, DeleteStop, vars, Untouched
<1>2. ASSUME NEW p \in Part, DeleteSkip(e, p) \/ DeleteClaim(e, p) \/ DeletePostpone(e, p)
      PROVE  Untouched(d)
  BY <1>2 DEF DeleteSkip, DeleteClaim, DeletePostpone, vars, Untouched
<1>3. CASE DeleteMerge(e)
  BY <1>3 DEF DeleteMerge, Untouched
<1>4. CASE DeleteWrite(e) \/ DeleteInterrupt(e)
  BY <1>4 DEF DeleteWrite, DeleteInterrupt, MergeWriteRows, MergeStop, Untouched
<1>5. CASE DeleteDecRef(e)
  BY <1>5 DEF DeleteDecRef, ReleaseOne, Untouched
<1>6. ASSUME MergeStart(e) \/ MergeNoSpace(e) \/ MergeSwap(e) \/ MergeDrop(e) \/ MergeRelease(e),
             del'[d] = del[d]
      PROVE  Untouched(d)
  <2>1. MergeMoves(e) /\ d \in Worker \ {e}
    BY <1>6 DEF MergeMoves, MergeStep
  <2>2. UNCHANGED held
    BY <1>6 DEF MergeStart, MergeNoSpace, MergeSwap, MergeDrop, MergeRelease
  <2> QED BY <1>6, <2>1, <2>2, OthersMerge DEF Untouched
<1>7. CASE DeleteSwap(e)
  BY <1>6, <1>7 DEF DeleteSwap
<1> QED BY <1>1, <1>2, <1>3, <1>4, <1>5, <1>6, <1>7 DEF DeleteStep

LEMMA PanicIsFatal ==
  ASSUME NEW d \in Deleter, DeletePanic(d)
  PROVE  Dies
BY DEF DeletePanic, Dies

\* Nobody but a crash and a panic kills the process, and nobody closes a partition which deletes use.
LEMMA OtherLives ==
  ASSUME OtherStep
  PROVE  /\ ~Crash
         /\ phase = "open" => phase' = "open" \/ \A d \in Deleter : del[d] = NoDelete
<1> DEFINE Lives == \/ phase' = phase
                    \/ phase # "open" /\ phase' # "crashed"
                    \/ phase' = "draining" /\ \A d \in Deleter : del[d] = NoDelete
<1>1. ASSUME NEW w \in Worker \ Deleter,
             \/ MergerStart(w) \/ MergerPick(w) \/ MergerGiveUp(w) \/ MergeStep(w)
             \/ \E c \in Caller : SpawnMerge(c, w)
      PROVE  Lives
  BY <1>1 DEF MergerStart, MergerPick, MergerGiveUp, MergeStep, MergeStart, MergeNoSpace, MergeWrite,
              MergeWriteRows, MergeInterrupt, MergeStop, MergeSwap, MergeDrop, MergeRelease, SpawnMerge
<1>2. ASSUME NEW q \in Query \ Deleter, QueryStart(q) \/ QueryRelease(q) PROVE Lives
  BY <1>2 DEF QueryStart, QueryRelease, ReleaseOne
<1>3. \A s \in Shard : FlushRows(s) \/ (\E R \in SUBSET Row : AddRows(s, R)) => Lives
  BY DEF FlushRows, AddRows
<1>4. \A f \in Forcer : ForceStart(f) \/ ForceCollect(f) \/ ForceDone(f) => Lives
  BY DEF ForceStart, ForceCollect, ForceDone
<1>5. /\ FlusherTick \/ FlusherDone => Lives
      /\ CloseBegin /\ (\A d \in Deleter : del[d] = NoDelete) => Lives
      /\ CloseStop \/ CloseFinalFlush \/ CloseEnd \/ Open => Lives
      /\ \A p \in Part : DeadlinePasses(p) => Lives
  BY DEF FlusherTick, FlusherDone, CloseBegin, CloseStop, CloseFinalFlush, CloseEnd, Open, DeadlinePasses
<1>6. Lives
  BY <1>1, <1>2, <1>3, <1>4, <1>5 DEF OtherStep
<1> QED BY <1>6 DEF Crash

LEMMA DeleteLives ==
  ASSUME NEW d \in Deleter, DeleteAsOthers(d) \/ DeleteOwn(d) \/ UNCHANGED vars
  PROVE  phase' = phase /\ ~Crash
<1>1. phase' = phase
  <2>1. CASE DeleteAsOthers(d)
    BY <2>1 DEF DeleteAsOthers, QueryStart, QueryRelease, ReleaseOne, MergeStart, MergeNoSpace,
                MergeSwap, MergeDrop, MergeRelease
  <2>2. CASE DeleteOwn(d)
    BY <2>2 DEF DeleteOwn, DeleteClaim, DeleteMergesClaimed, DeleteMerge, DeleteWrite, DeleteInterrupt,
                MergeWriteRows, MergeStop
  <2> QED BY <2>1, <2>2 DEF vars
<1> QED BY <1>1 DEF Crash

\* A step of a delete which goes on.
DeleteGoesOn(d) == DeleteStep(d) /\ ~DeletePanic(d)

\* Everything that can happen: the process dies; others, or a delete as one of them, take
\* a step; or a delete takes a step of its own.
LEMMA DeleteKinds ==
  ASSUME DeleteTypeOK, DeleteShape, [DeleteNext]_dvars
  PROVE  \/ Dies /\ (Crash \/ \E d \in Deleter : DeletePanic(d))
         \/ /\ \A d \in Deleter : Untouched(d) \/ DeleteGoesOn(d)
            /\ \/ [Next]_vars /\ ~Crash
               \/ \E d \in Deleter : DeleteGoesOn(d) /\ DeleteOwn(d)
<1>1. CASE UNCHANGED dvars
  BY <1>1 DEF dvars, vars, merges, readers, Untouched, Crash
<1>2. CASE OtherStep /\ UNCHANGED del
  BY <1>2, OtherIsNext, OtherLives, OtherLeavesDelete DEF DeleteTypeOK
<1>3. CASE Crash /\ del' = [d \in Deleter |-> NoDelete]
  BY <1>3 DEF Crash, Dies, disk
<1>4. ASSUME NEW d \in Deleter, DeleteStep(d), ~DeletePanic(d)
      PROVE  /\ \A e \in Deleter : Untouched(e) \/ DeleteGoesOn(e)
             /\ \/ [Next]_vars /\ ~Crash
                \/ DeleteGoesOn(d) /\ DeleteOwn(d)
  <2>1. \A e \in Deleter \ {d} : Untouched(e)
    BY <1>4, DeletesApart
  <2>2. UNCHANGED vars \/ DeleteAsOthers(d) \/ DeleteOwn(d)
    BY <1>4, DeleteStepKinds
  <2> QED BY <1>4, <2>1, <2>2, DeleteLives, DeleteAsOthersIsNext DEF DeleteGoesOn
<1>5. ASSUME NEW d \in Deleter, DeletePanic(d)
      PROVE  Dies /\ \E e \in Deleter : DeletePanic(e)
  BY <1>5, PanicIsFatal
<1> QED BY <1>1, <1>2, <1>3, <1>4, <1>5 DEF DeleteNext

-----------------------------------------------------------------------------
(* Types and claims *)

LEMMA DeleteOwnType ==
  ASSUME DeleteTypeOK, NEW d \in Deleter, DeleteOwn(d)
  PROVE  TypeOK'
<1> USE DEF disk, parts, merges, callers, readers
<1> d \in Worker /\ TypeOK
  BY Deleters DEF DeleteTypeOK
<1>1. ASSUME NEW p \in Part, DeleteClaim(d, p) PROVE TypeOK'
  BY <1>1 DEF DeleteClaim, TypeOK
<1>2. CASE DeleteMergesClaimed(d)
  BY <1>2, DeleteTypes DEF DeleteMergesClaimed, DeleteMerge, TypeOK, WorkerPC
<1>3. CASE DeleteWrite(d)
  <2>1. RowsOf(src[d]) \in SUBSET Row
    BY SetTypes DEF TypeOK
  <2>2. RowsOf(src[d]) \ del[d].filter \in SUBSET Row
    BY <2>1
  <2> DEFINE R == RowsOf(src[d]) \ del[d].filter
  <2>3. R \in SUBSET Row /\ MergeWriteRows(d, R, del[d].stop)
    BY <1>3, <2>2 DEF DeleteWrite
  <2> HIDE DEF R
  <2> QED BY <2>3, SMTT(30) DEF MergeWriteRows, TypeOK, WorkerPC
<1>4. CASE DeleteInterrupt(d)
  BY <1>4 DEF DeleteInterrupt, MergeStop, TypeOK, WorkerPC
<1> QED BY <1>1, <1>2, <1>3, <1>4 DEF DeleteOwn

LEMMA DiesType ==
  ASSUME DeleteTypeOK, Dies, Crash \/ \E d \in Deleter : DeletePanic(d)
  PROVE  TypeOK'
<1> TypeOK
  BY DEF DeleteTypeOK
<1>1. CASE Crash
  BY <1>1, TypeNext DEF Next
<1>2. ASSUME NEW d \in Deleter, DeletePanic(d) PROVE TypeOK'
  <2>1. d \in Worker /\ NewPart(d) \subseteq Part
    BY Deleters DEF TypeOK, NewPart
  <2>2. partsJSON' \subseteq Part
    BY <1>2, <2>1 DEF DeletePanic, PartsJSONAfter, TypeOK
  <2> QED BY <2>2 DEF Dies, LoseMemory, TypeOK, Phase, PartType, WorkerPC, CallerPC, Owner
<1> QED BY <1>1, <1>2

LEMMA DeleteRecordType ==
  ASSUME DeleteTypeOK, [DeleteNext]_dvars
  PROVE  del' \in [Deleter -> DeleteType]
<1>1. NoDelete \in DeleteType
  BY DEF NoDelete, DeleteType
<1>2. CASE UNCHANGED del
  BY <1>2 DEF DeleteTypeOK
<1>3. CASE del' = [d \in Deleter |-> NoDelete]
  BY <1>1, <1>3
<1>4. ASSUME NEW d \in Deleter, DeleteStep(d) PROVE del' \in [Deleter -> DeleteType]
  <2> USE DEF DeleteTypeOK
  <2>0. del \in [Deleter -> DeleteType] /\ del[d] \in DeleteType /\ listed \in SUBSET Part
    BY DEF TypeOK
  <2>1. CASE DeleteStart(d)
    <3>1. RowsOf(listed) \in SUBSET Row /\ UNION {buf[s] : s \in Shard} \in SUBSET Row
      BY SetTypes DEF TypeOK
    <3> DEFINE A == RowsOf(listed) \cup UNION {buf[s] : s \in Shard}
    <3>2. PICK F \in SUBSET Row :
            del' = [del EXCEPT ![d].pc = "flushing", ![d].filter = F, ![d].goal = F \cap A]
      BY <2>1 DEF DeleteStart
    <3>3. PICK G \in SUBSET Row : G = F \cap A
      OBVIOUS
    <3> DEFINE D == [del[d] EXCEPT !.pc = "flushing", !.filter = F, !.goal = G]
    <3>4. del' = [del EXCEPT ![d] = D]
      BY <3>2, <3>3
    <3>5. D \in DeleteType
      BY <2>0 DEF DeleteType
    <3> QED BY <2>0, <3>4, <3>5
  <2>2. CASE DeleteGetParts(d)
    <3> DEFINE D == [del[d] EXCEPT !.pc = "checking", !.todo = listed]
    <3>1. del' = [del EXCEPT ![d] = D]
      BY <2>2 DEF DeleteGetParts
    <3>2. D \in DeleteType
      BY <2>0 DEF DeleteType
    <3> QED BY <2>0, <3>1, <3>2
  <2>3. ASSUME NEW p \in Part, DeleteSkip(d, p) \/ DeletePostpone(d, p)
        PROVE  del' \in [Deleter -> DeleteType]
    BY <2>3 DEF DeleteSkip, DeletePostpone, DeleteType
  <2>4. ASSUME NEW p \in Part, DeleteClaim(d, p) PROVE del' \in [Deleter -> DeleteType]
    <3> DEFINE D == [del[d] EXCEPT !.todo = @ \ {p}, !.claimed = @ \cup {p}]
    <3>1. del' = [del EXCEPT ![d] = D]
      BY <2>4 DEF DeleteClaim
    <3>2. D \in DeleteType
      BY <2>0 DEF DeleteType
    <3> QED BY <2>0, <3>1, <3>2
  <2>5. CASE DeleteMerge(d)
    BY <2>5 DEF DeleteMerge, DeleteType
  <2>6. CASE DeleteSwap(d) \/ DeleteReturn(d) \/ DeleteStop(d)
    <3>1. CASE DeleteSwap(d)
      BY <2>0, <3>1 DEF DeleteSwap, DeleteType
    <3>2. CASE DeleteReturn(d)
      BY <2>0, <3>2 DEF DeleteReturn, DeleteType
    <3>3. CASE DeleteStop(d)
      BY <2>0, <3>3 DEF DeleteStop, DeleteType
    <3> QED BY <2>6, <3>1, <3>2, <3>3
  <2>7. CASE DeletePanic(d)
    BY <1>1, <2>7 DEF DeletePanic
  <2>8. CASE DeleteEnd(d)
    BY <1>1, <2>8 DEF DeleteEnd
  <2> QED BY <1>2, <1>4, <2>1, <2>2, <2>3, <2>4, <2>5, <2>6, <2>7, <2>8
          DEF DeleteStep, DeleteWrite, DeleteInterrupt, DeleteDecRef
<1> QED BY <1>2, <1>3, <1>4 DEF DeleteNext, dvars

LEMMA DeleteTypeNext ==
  ASSUME DeleteTypeOK, DeleteShape, [DeleteNext]_dvars
  PROVE  DeleteTypeOK'
<1>1. TypeOK'
  BY DeleteKinds, DiesType, DeleteOwnType, TypeNext DEF DeleteTypeOK
<1> QED BY <1>1, DeleteRecordType DEF DeleteTypeOK

\* The sources of deletes are claimed parts like any others.
LEMMA DeleteClaimCore ==
  ASSUME DeleteTypeOK, ClaimCore, DeleteShape, DeleteClaims, [DeleteNext]_dvars
  PROVE  ClaimCore'
<1> USE DEF disk, parts, merges, callers, readers
<1> TypeOK
  BY DEF DeleteTypeOK
<1>1. CASE Dies
  <2>1. MergeShape'
    BY <1>1 DEF Dies, LoseMemory, MergeShape
  <2>3. CallerShape'
    BY <1>1, CallerAssumption DEF Dies, LoseMemory, CallerShape, Running, Caller, Reader
  <2>2. ClaimsAreDisjoint'
    BY <1>1 DEF Dies, LoseMemory, ClaimsAreDisjoint
  <2> QED BY <2>1, <2>2, <2>3 DEF ClaimCore
<1>2. CASE [Next]_vars
  BY <1>2, ClaimCoreNext
<1>3. ASSUME NEW d \in Deleter, DeleteOwn(d) PROVE ClaimCore'
  <2> d \in Worker
    BY Deleters
  <2>1. ASSUME NEW p \in Part, DeleteClaim(d, p) PROVE ClaimCore'
    BY <2>1 DEF DeleteClaim, ClaimCore, MergeShape, CallerShape, ClaimsAreDisjoint, Running
  <2>2. CASE DeleteMergesClaimed(d)
    <3>1. /\ src' = [src EXCEPT ![d] = del[d].claimed] /\ wpc' = [wpc EXCEPT ![d] = "claimed"]
          /\ UNCHANGED <<phase, listed, isInMerge, owner, dst, todrop, cpc, claim, held>>
          /\ del[d].pc = "checking"
      BY <2>2 DEF DeleteMergesClaimed, DeleteMerge
    <3>2. wpc[d] = "idle" /\ owner[d] = "merger" /\ phase = "open"
      BY <3>1 DEF DeleteShape
    <3>3. MergeShape'
      BY <3>1, <3>2 DEF TypeOK, ClaimCore, MergeShape
    <3>4. CallerShape'
      BY <3>1, <3>2 DEF TypeOK, ClaimCore, CallerShape, Running
    <3>5. ClaimsAreDisjoint'
      <4>1. \A w \in Worker : src'[w] = IF w = d THEN del[d].claimed ELSE src[w]
        BY <3>1 DEF TypeOK
      <4> QED BY <3>1, <4>1 DEF ClaimCore, ClaimsAreDisjoint, DeleteClaims
    <3> QED BY <3>3, <3>4, <3>5 DEF ClaimCore
  <2>3. CASE DeleteWrite(d) \/ DeleteInterrupt(d)
    BY <2>3, ClaimWrite DEF DeleteWrite, DeleteInterrupt
  <2> QED BY <1>3, <2>1, <2>2, <2>3 DEF DeleteOwn
<1> QED BY <1>1, <1>2, <1>3, DeleteKinds

\* Merges which delete nothing find their sources in the lists.
LEMMA DeleteListed ==
  ASSUME DeleteTypeOK, ClaimCore, DeleteShape, SourcesListed(Worker \ Deleter), [DeleteNext]_dvars
  PROVE  SourcesListed(Worker \ Deleter)'
<1> USE DEF disk, parts, merges, callers, readers
<1> TypeOK
  BY DEF DeleteTypeOK
<1>1. CASE Dies
  BY <1>1 DEF Dies, LoseMemory, SourcesListed
<1>2. CASE [Next]_vars
  BY <1>2, ListedNext
<1>3. ASSUME NEW d \in Deleter, DeleteOwn(d) PROVE SourcesListed(Worker \ Deleter)'
  <2>1. UNCHANGED listed
    BY <1>3 DEF DeleteOwn, DeleteClaim, DeleteMergesClaimed, DeleteMerge, DeleteWrite, DeleteInterrupt,
                MergeWriteRows, MergeStop
  <2>2. \A w \in Worker \ Deleter : wpc'[w] = wpc[w] /\ src'[w] = src[w]
    <3> SUFFICES ASSUME NEW w \in Worker, w # d PROVE wpc'[w] = wpc[w] /\ src'[w] = src[w]
      OBVIOUS
    <3>1. ASSUME NEW p \in Part, DeleteClaim(d, p) PROVE wpc'[w] = wpc[w] /\ src'[w] = src[w]
      BY <3>1 DEF DeleteClaim
    <3>2. CASE DeleteMergesClaimed(d)
      BY <3>2 DEF DeleteMergesClaimed, DeleteMerge, TypeOK
    <3>3. CASE DeleteInterrupt(d)
      BY <3>3 DEF DeleteInterrupt, MergeStop, TypeOK
    <3>4. CASE DeleteWrite(d)
      BY <3>4 DEF DeleteWrite, MergeWriteRows, TypeOK
    <3> QED BY <1>3, <3>1, <3>2, <3>3, <3>4 DEF DeleteOwn
  <2> QED BY <2>1, <2>2 DEF SourcesListed
<1> QED BY <1>1, <1>2, <1>3, DeleteKinds

-----------------------------------------------------------------------------
(* Position, references and claims of a delete *)

LEMMA PhaseStays ==
  ASSUME DeleteTypeOK, DeleteShape, [DeleteNext]_dvars, ~Dies, NEW d \in Deleter, del[d].pc # "idle"
  PROVE  phase' = "open"
<1>1. phase = "open"
  BY DEF DeleteShape
<1>2. CASE UNCHANGED dvars
  BY <1>1, <1>2 DEF dvars, vars
<1>3. CASE OtherStep
  BY <1>1, <1>3, OtherLives DEF NoDelete
<1>4. CASE Crash /\ del' = [e \in Deleter |-> NoDelete]
  BY <1>4 DEF Crash, Dies, disk
<1>5. ASSUME NEW e \in Deleter, DeleteStep(e) PROVE phase' = "open"
  BY <1>1, <1>5, DeleteStepKinds, DeleteLives, PanicIsFatal
<1> QED BY <1>2, <1>3, <1>4, <1>5 DEF DeleteNext

\* mustMergePartsInternal() is called with the claimed parts, or the delete returns.
LEMMA DeleteMergeKinds ==
  ASSUME DeleteTypeOK, NEW d \in Deleter, DeleteMerge(d)
  PROVE  /\ del[d].pc = "checking" /\ del[d].todo = {}
         /\ del'[d].todo = del[d].todo /\ del'[d].claimed = {}
         /\ del'[d].filter = del[d].filter /\ del'[d].goal = del[d].goal
         /\ del'[d].stop = del[d].stop /\ del'[d].repeat = del[d].repeat
         /\ \/ /\ del[d].claimed = {} /\ UNCHANGED vars
               /\ del'[d].pc = "returning" /\ del'[d].ok = ~del[d].repeat
            \/ /\ DeleteMergesClaimed(d)
               /\ wpc'[d] = "claimed" /\ src'[d] = del[d].claimed
               /\ owner'[d] = owner[d] /\ held'[d] = held[d]
               /\ del'[d].pc = "merging" /\ del'[d].ok = del[d].ok
<1> USE DEF disk, parts, merges, callers, readers
<1> d \in Worker /\ del \in [Deleter -> DeleteType] /\ del[d] \in DeleteType /\ TypeOK
  BY Deleters DEF DeleteTypeOK
<1>1. CASE del[d].claimed = {}
  <2>1. UNCHANGED vars
    BY <1>1 DEF DeleteMerge, vars
  <2>2. del' = [del EXCEPT ![d].pc = "returning", ![d].ok = ~del[d].repeat]
    BY <1>1 DEF DeleteMerge
  <2> QED BY <1>1, <2>1, <2>2 DEF DeleteMerge, DeleteType
<1>2. CASE del[d].claimed # {}
  <2>1. del' = [del EXCEPT ![d].pc = "merging", ![d].claimed = {}]
    BY <1>2 DEF DeleteMerge
  <2>2. wpc'[d] = "claimed" /\ src'[d] = del[d].claimed /\ UNCHANGED <<owner, held>>
    BY <1>2 DEF DeleteMerge, TypeOK
  <2> QED BY <1>2, <2>1, <2>2 DEF DeleteMerge, DeleteMergesClaimed, DeleteType
<1> QED BY <1>1, <1>2

LEMMA GoingOnShape ==
  ASSUME DeleteTypeOK, DeleteShape, NEW d \in Deleter, DeleteGoesOn(d), phase' = "open"
  PROVE  /\ wpc'[d] # "picking" /\ owner'[d] = "merger"
         /\ wpc'[d] # "idle" => del'[d].pc = "merging"
         /\ del'[d].pc \in {"idle", "flushing"} => held'[d] = {}
         /\ del'[d].pc # "checking" => del'[d].todo = {} /\ del'[d].claimed = {}
         /\ del'[d].ok => del'[d].pc \in {"merging", "returning"}
<1> USE DEF disk, parts, merges, callers, readers
<1> d \in Worker /\ d \in Reader
  BY Deleters
<1>0. del \in [Deleter -> DeleteType] /\ del[d] \in DeleteType /\ TypeOK
  BY DEF DeleteTypeOK
<1>1. /\ wpc[d] # "picking" /\ owner[d] = "merger"
      /\ wpc[d] # "idle" => del[d].pc = "merging"
      /\ del[d].pc \in {"idle", "flushing"} => held[d] = {}
      /\ del[d].pc # "checking" => del[d].todo = {} /\ del[d].claimed = {}
      /\ del[d].ok => del[d].pc \in {"merging", "returning"}
  BY DEF DeleteShape
<1>2. CASE DeleteStart(d)
  BY <1>0, <1>1, <1>2 DEF DeleteStart, vars, DeleteType
<1>3. CASE DeleteGetParts(d)
  BY <1>0, <1>1, <1>3 DEF DeleteGetParts, DeleteType, TypeOK
<1>4. ASSUME NEW p \in Part, DeleteSkip(d, p) \/ DeletePostpone(d, p) \/ DeleteClaim(d, p)
      PROVE  /\ UNCHANGED <<wpc, owner, held>> /\ del[d].pc = "checking"
             /\ del'[d].pc = del[d].pc /\ del'[d].ok = del[d].ok
  BY <1>0, <1>4 DEF DeleteSkip, DeletePostpone, DeleteClaim, vars, DeleteType
<1>5. CASE DeleteMerge(d)
  BY <1>1, <1>5, DeleteMergeKinds DEF vars
<1>6. CASE DeleteWrite(d) \/ DeleteInterrupt(d)
  BY <1>0, <1>1, <1>6 DEF DeleteWrite, DeleteInterrupt, MergeWriteRows, MergeStop, TypeOK
<1>7. CASE DeleteSwap(d)
  BY <1>0, <1>1, <1>7 DEF DeleteSwap, MergeSwap, DeleteType, TypeOK
<1>8. CASE DeleteReturn(d)
  BY <1>0, <1>1, <1>8 DEF DeleteReturn, vars, DeleteType
<1>9. CASE DeleteDecRef(d)
  BY <1>0, <1>1, <1>9 DEF DeleteDecRef, ReleaseOne
<1>10. CASE DeleteEnd(d)
  BY <1>0, <1>1, <1>10 DEF DeleteEnd, vars, NoDelete
<1>11. CASE DeleteStop(d)
  BY <1>0, <1>1, <1>11 DEF DeleteStop, vars, DeleteType
<1>12. CASE UNCHANGED del /\ (MergeStart(d) \/ MergeNoSpace(d))
  BY <1>0, <1>1, <1>12 DEF MergeStart, MergeNoSpace, TypeOK
<1>13. CASE UNCHANGED del /\ (MergeDrop(d) \/ MergeRelease(d))
  BY <1>0, <1>1, <1>13 DEF MergeDrop, MergeRelease, TypeOK
<1> QED
  BY <1>1, <1>2, <1>3, <1>4, <1>5, <1>6, <1>7, <1>8, <1>9, <1>10, <1>11, <1>12, <1>13
  DEF DeleteGoesOn, DeleteStep

LEMMA DeleteShapeNext ==
  ASSUME DeleteTypeOK, DeleteShape, [DeleteNext]_dvars
  PROVE  DeleteShape'
<1>1. CASE Dies
  BY <1>1, Deleters DEF Dies, LoseMemory, DeleteShape, NoDelete
<1>2. CASE ~Dies
  <2> SUFFICES ASSUME NEW d \in Deleter
               PROVE  /\ wpc'[d] # "picking" /\ owner'[d] = "merger"
                      /\ wpc'[d] # "idle" => del'[d].pc = "merging"
                      /\ del'[d].pc # "idle" => phase' = "open"
                      /\ del'[d].pc \in {"idle", "flushing"} => held'[d] = {}
                      /\ del'[d].pc # "checking" => del'[d].todo = {} /\ del'[d].claimed = {}
                      /\ del'[d].ok => del'[d].pc \in {"merging", "returning"}
    BY DEF DeleteShape
  <2>1. CASE Untouched(d)
    BY <1>2, <2>1, PhaseStays DEF Untouched, DeleteShape
  <2>2. CASE DeleteGoesOn(d)
    <3>1. del[d].pc # "idle" \/ DeleteStart(d)
      BY <2>2 DEF DeleteGoesOn, DeleteStep, DeleteGetParts, DeleteSkip, DeleteClaim, DeletePostpone,
                  DeleteMerge, DeleteWrite, DeleteInterrupt, DeleteSwap, DeletePanic, DeleteReturn,
                  DeleteDecRef, DeleteEnd, DeleteStop, DeleteShape, MergeWriteRows, MergeStop, MergeSwap,
                  MergeStart, MergeNoSpace, MergeDrop, MergeRelease
    <3>2. phase' = "open"
      BY <1>2, <3>1, PhaseStays DEF DeleteStart, vars
    <3> QED BY <2>2, <3>2, GoingOnShape
  <2> QED BY <1>2, <2>1, <2>2, DeleteKinds
<1> QED BY <1>1, <1>2

\* The references of a delete outlive its look at the parts and its merge.
LEMMA DeleteHoldsNext ==
  ASSUME DeleteTypeOK, DeleteShape, DeleteHolds, [DeleteNext]_dvars
  PROVE  DeleteHolds'
<1> USE DEF disk, parts, merges, callers, readers
<1>1. CASE Dies
  BY <1>1, Deleters DEF Dies, LoseMemory, DeleteHolds, NoDelete, Unswapped
<1>2. ASSUME NEW d \in Deleter, Untouched(d) \/ DeleteGoesOn(d)
      PROVE  /\ del'[d].todo \cup del'[d].claimed \subseteq held'[d]
             /\ d \in Unswapped' => src'[d] \subseteq held'[d]
  <2> d \in Worker /\ d \in Reader
    BY Deleters
  <2>0. del \in [Deleter -> DeleteType] /\ del[d] \in DeleteType /\ TypeOK
    BY DEF DeleteTypeOK
  <2>1. /\ del[d].todo \cup del[d].claimed \subseteq held[d]
        /\ wpc[d] \in {"claimed", "writing", "written"} => src[d] \subseteq held[d]
        /\ d \in Unswapped' => wpc'[d] \in {"claimed", "writing", "written"}
    BY DEF DeleteHolds, Unswapped
  <2>2. /\ wpc[d] # "idle" => del[d].pc = "merging"
        /\ del[d].pc # "checking" => del[d].todo = {} /\ del[d].claimed = {}
    BY DEF DeleteShape
  <2>3. CASE Untouched(d)
    BY <2>1, <2>3 DEF Untouched
  <2>4. CASE DeleteStart(d) \/ DeleteReturn(d) \/ DeleteStop(d)
    <3>1. DeleteStart(d) => del'[d].todo = del[d].todo /\ del'[d].claimed = del[d].claimed
      BY <2>0 DEF DeleteStart, DeleteType
    <3>2. DeleteReturn(d) => del'[d].todo = del[d].todo /\ del'[d].claimed = del[d].claimed
      BY <2>0 DEF DeleteReturn, DeleteType
    <3>3. DeleteStop(d) => del'[d].todo = del[d].todo /\ del'[d].claimed = del[d].claimed
      BY <2>0 DEF DeleteStop, DeleteType
    <3>4. UNCHANGED <<wpc, src, held>>
      BY <2>4 DEF DeleteStart, DeleteReturn, DeleteStop, vars
    <3> QED BY <2>1, <2>4, <3>1, <3>2, <3>3, <3>4
  <2>5. CASE DeleteGetParts(d)
    BY <2>0, <2>1, <2>2, <2>5 DEF DeleteGetParts, DeleteType, TypeOK
  <2>6. ASSUME NEW p \in Part, DeleteSkip(d, p) \/ DeletePostpone(d, p)
        PROVE  /\ UNCHANGED <<wpc, src, held>>
               /\ del'[d].todo \subseteq del[d].todo /\ del'[d].claimed = del[d].claimed
    BY <2>0, <2>6 DEF DeleteSkip, DeletePostpone, vars, DeleteType
  <2>7. ASSUME NEW p \in Part, DeleteClaim(d, p)
        PROVE  /\ UNCHANGED <<wpc, src, held>>
               /\ del'[d].todo \cup del'[d].claimed \subseteq del[d].todo \cup del[d].claimed
    BY <2>0, <2>7 DEF DeleteClaim, DeleteType
  <2>8. CASE DeleteMerge(d)
    BY <2>1, <2>2, <2>8, DeleteMergeKinds DEF vars
  <2>9. CASE DeleteWrite(d) \/ DeleteInterrupt(d)
    BY <2>0, <2>1, <2>9 DEF DeleteWrite, DeleteInterrupt, MergeWriteRows, MergeStop, TypeOK
  <2>10. CASE DeleteSwap(d)
    BY <2>0, <2>1, <2>10 DEF DeleteSwap, MergeSwap, DeleteType, TypeOK
  <2>11. CASE DeleteDecRef(d)
    BY <2>0, <2>1, <2>2, <2>11 DEF DeleteDecRef, ReleaseOne
  <2>12. CASE DeleteEnd(d)
    BY <2>0, <2>1, <2>12 DEF DeleteEnd, vars, NoDelete
  <2>13. CASE UNCHANGED del /\ (MergeStart(d) \/ MergeNoSpace(d))
    BY <2>0, <2>1, <2>13 DEF MergeStart, MergeNoSpace, TypeOK
  <2>14. CASE UNCHANGED del /\ (MergeDrop(d) \/ MergeRelease(d))
    BY <2>0, <2>1, <2>14 DEF MergeDrop, MergeRelease, TypeOK
  <2> QED
    BY <1>2, <2>1, <2>3, <2>4, <2>5, <2>6, <2>7, <2>8, <2>9, <2>10, <2>11, <2>12, <2>13, <2>14
    DEF DeleteGoesOn, DeleteStep
<1> QED BY <1>1, <1>2, DeleteKinds DEF DeleteHolds

\* Nobody releases, merges or claims a part whose flag somebody unknown to Datadb has set.
LEMMA ForeignFlagStays ==
  ASSUME TypeOK, [Next]_vars, ~Crash, NEW p \in isInMerge,
         \A w \in Worker : p \notin src[w], \A c \in Caller : p \notin claim[c]
  PROVE  /\ p \in isInMerge'
         /\ \A w \in Worker : p \notin src'[w]
         /\ \A c \in Caller : p \notin claim'[c]
<1> USE DEF disk, parts, merges, callers, readers
<1> DEFINE Stays == /\ p \in isInMerge'
                    /\ \A w \in Worker : p \notin src'[w]
                    /\ \A c \in Caller : p \notin claim'[c]
<1>1. ASSUME UNCHANGED <<isInMerge, src, claim>> PROVE Stays
  BY <1>1
<1>2. ASSUME NEW c \in Caller, NEW S, p \notin S, Claim(c, S), UNCHANGED src PROVE Stays
  BY <1>2 DEF Claim, TypeOK
<1>3. ASSUME NEW w \in Worker, MergerPick(w) PROVE Stays
  <2>1. PICK S : p \notin S /\ src' = [src EXCEPT ![w] = S] /\ isInMerge' = isInMerge \cup S
    BY <1>3 DEF MergerPick
  <2> QED BY <1>3, <2>1 DEF MergerPick, TypeOK
<1>4. ASSUME NEW w \in Worker, MergeRelease(w) PROVE Stays
  BY <1>4 DEF MergeRelease, TypeOK
<1>5. ASSUME NEW c \in Caller, NEW w \in Worker, SpawnMerge(c, w) PROVE Stays
  <2>1. PICK S \in SUBSET claim[c] : /\ claim' = [claim EXCEPT ![c] = @ \ S]
                                     /\ src' = [src EXCEPT ![w] = S]
    BY <1>5 DEF SpawnMerge
  <2> QED BY <1>5, <2>1 DEF SpawnMerge, TypeOK
<1>6. ASSUME NEW w \in Worker, \/ MergerStart(w) \/ MergerGiveUp(w) \/ MergeStart(w) \/ MergeNoSpace(w)
                               \/ MergeWrite(w) \/ MergeInterrupt(w) \/ MergeSwap(w) \/ MergeDrop(w)
      PROVE  Stays
  BY <1>1, <1>6 DEF MergerStart, MergerGiveUp, MergeStart, MergeNoSpace, MergeWrite, MergeWriteRows,
              MergeInterrupt, MergeStop, MergeSwap, MergeDrop
<1>7. \A b : p \notin ToFlush(b)
  BY DEF ToFlush
<1>8. /\ FlusherTick => Stays
      /\ CloseFinalFlush => Stays
  BY <1>2, <1>7 DEF FlusherTick, CloseFinalFlush, Caller
<1>9. \A f \in Forcer : ForceStart(f) \/ ForceCollect(f) => Stays
  BY <1>2, <1>7 DEF ForceStart, ForceCollect, Caller
<1>10. \A s \in Snapshotter : SnapshotStart(s) => Stays
  BY <1>2, <1>7 DEF SnapshotStart, Caller
<1>11. /\ \A s \in Shard : FlushRows(s) \/ (\E R \in SUBSET Row : AddRows(s, R)) => Stays
       /\ \A q \in Part : DeadlinePasses(q) => Stays
       /\ \A f \in Forcer : ForceDone(f) => Stays
       /\ FlusherDone => Stays
  BY <1>1 DEF FlushRows, AddRows, DeadlinePasses, ForceDone, FlusherDone
<1>12. ASSUME NEW s \in Snapshotter, \/ SnapshotGrab(s) \/ SnapshotLink(s) \/ SnapshotLinked(s)
                                     \/ SnapshotRelease(s) \/ SnapshotDone(s)
       PROVE  Stays
  BY <1>1, <1>12 DEF SnapshotGrab, SnapshotLink, SnapshotLinked, SnapshotDone, SnapshotRelease, ReleaseOne
<1>13. \A q \in Query : QueryStart(q) \/ QueryRelease(q) => Stays
  BY <1>1 DEF QueryStart, QueryRelease, ReleaseOne
<1>14. CloseBegin \/ CloseStop \/ CloseEnd \/ Open \/ UNCHANGED vars => Stays
  BY <1>1 DEF CloseBegin, CloseStop, CloseEnd, Open, vars
<1> HIDE DEF Stays
<1>15. Stays
  BY <1>3, <1>4, <1>5, <1>6, <1>8, <1>9, <1>10, <1>11, <1>12, <1>13, <1>14 DEF Next, MergeStep
<1> QED BY <1>15 DEF Stays

LEMMA ClaimedStay ==
  ASSUME DeleteTypeOK, DeleteShape, NEW d \in Deleter, Untouched(d) \/ DeleteGoesOn(d), ~DeleteOwn(d)
  PROVE  del'[d].claimed = del[d].claimed
<1> del \in [Deleter -> DeleteType] /\ del[d] \in DeleteType
  BY DEF DeleteTypeOK
<1>1. CASE Untouched(d)
  BY <1>1 DEF Untouched
<1>2. ASSUME NEW p \in Part, DeleteSkip(d, p) \/ DeletePostpone(d, p) PROVE del'[d].claimed = del[d].claimed
  BY <1>2 DEF DeleteSkip, DeletePostpone, DeleteType
<1>3. CASE DeleteStart(d)
  BY <1>3 DEF DeleteStart, DeleteType
<1>4. CASE DeleteGetParts(d)
  BY <1>4 DEF DeleteGetParts, DeleteType
<1>5. CASE DeleteMerge(d)
  BY <1>5, DeleteMergeKinds DEF DeleteOwn
<1>6. CASE DeleteSwap(d)
  BY <1>6 DEF DeleteSwap, DeleteType
<1>7. CASE DeleteReturn(d) \/ DeleteStop(d)
  <2>1. CASE DeleteReturn(d)
    BY <2>1 DEF DeleteReturn, DeleteType
  <2>2. CASE DeleteStop(d)
    BY <2>2 DEF DeleteStop, DeleteType
  <2> QED BY <1>7, <2>1, <2>2
<1>8. CASE DeleteEnd(d)
  BY <1>8 DEF DeleteEnd, DeleteShape, NoDelete
<1> QED
  BY <1>1, <1>2, <1>3, <1>4, <1>5, <1>6, <1>7, <1>8
  DEF DeleteGoesOn, DeleteStep, DeleteOwn, DeleteDecRef, DeleteWrite, DeleteInterrupt

\* isInMerge is a lock for deletes: nobody touches the parts they have claimed.
LEMMA DeleteClaimsNext ==
  ASSUME DeleteTypeOK, ClaimCore, DeleteShape, DeleteClaims, [DeleteNext]_dvars
  PROVE  DeleteClaims'
<1> USE DEF disk, parts, merges, callers, readers
<1> TypeOK /\ del \in [Deleter -> DeleteType]
  BY DEF DeleteTypeOK
<1>1. CASE Dies
  BY <1>1 DEF Dies, LoseMemory, DeleteClaims, NoDelete
<1>2. ASSUME NEW d \in Deleter, NEW p \in Part, DeleteClaim(d, p) PROVE DeleteClaims'
  <2>1. /\ p \notin isInMerge /\ isInMerge' = isInMerge \cup {p} /\ UNCHANGED <<src, claim>>
        /\ del' = [del EXCEPT ![d].todo = @ \ {p}, ![d].claimed = @ \cup {p}]
    BY <1>2 DEF DeleteClaim
  <2>2. /\ del'[d].claimed = del[d].claimed \cup {p}
        /\ \A e \in Deleter \ {d} : del'[e].claimed = del[e].claimed
    BY <2>1 DEF DeleteType
  <2>3. \A w \in Worker : src[w] \subseteq isInMerge
    BY DEF ClaimCore, ClaimsAreDisjoint
  <2>4. \A c \in Caller : claim[c] \subseteq isInMerge
    BY DEF ClaimCore, ClaimsAreDisjoint
  <2> QED BY <2>1, <2>2, <2>3, <2>4 DEF DeleteClaims
<1>3. ASSUME NEW d \in Deleter, DeleteMergesClaimed(d) PROVE DeleteClaims'
  <2>1. /\ src' = [src EXCEPT ![d] = del[d].claimed] /\ UNCHANGED <<isInMerge, claim>>
        /\ del' = [del EXCEPT ![d].pc = "merging", ![d].claimed = {}]
        /\ wpc[d] = "idle"
    BY <1>3 DEF DeleteMergesClaimed, DeleteMerge, DeleteShape
  <2>2. /\ del'[d].claimed = {}
        /\ \A e \in Deleter \ {d} : del'[e].claimed = del[e].claimed
    BY <2>1 DEF DeleteType
  <2>3. d \in Worker /\ src[d] = {}
    BY <2>1, Deleters DEF ClaimCore, MergeShape
  <2>4. src'[d] = del[d].claimed /\ \A w \in Worker \ {d} : src'[w] = src[w]
    BY <2>1, <2>3 DEF TypeOK
  <2>5. \A e \in Deleter : /\ del'[e].claimed \subseteq isInMerge'
                           /\ \A f \in Deleter \ {e} : del'[e].claimed \cap del'[f].claimed = {}
                           /\ \A c \in Caller : del'[e].claimed \cap claim'[c] = {}
    BY <2>1, <2>2 DEF DeleteClaims
  <2>6. \A e \in Deleter, w \in Worker : del'[e].claimed \cap src'[w] = {}
    BY <2>2, <2>4 DEF DeleteClaims
  <2>7. ASSUME NEW p \in isInMerge'
        PROVE  \/ \E e \in Deleter : p \in del'[e].claimed
               \/ \E w \in Worker : p \in src'[w]
               \/ \E c \in Caller : p \in claim'[c]
    BY <2>1, <2>2, <2>3, <2>4 DEF DeleteClaims
  <2> QED BY <2>5, <2>6, <2>7 DEF DeleteClaims
<1>4. ASSUME NEW d \in Deleter, DeleteWrite(d) \/ DeleteInterrupt(d) PROVE DeleteClaims'
  BY <1>4 DEF DeleteWrite, DeleteInterrupt, MergeWriteRows, MergeStop, DeleteClaims
<1>5. ASSUME [Next]_vars, ~Crash, \A d \in Deleter : del'[d].claimed = del[d].claimed
      PROVE  DeleteClaims'
  <2>1. ASSUME NEW d \in Deleter, NEW p \in del[d].claimed
        PROVE  /\ p \in isInMerge'
               /\ \A w \in Worker : p \notin src'[w]
               /\ \A c \in Caller : p \notin claim'[c]
    <3>1. /\ p \in isInMerge
          /\ \A w \in Worker : p \notin src[w]
          /\ \A c \in Caller : p \notin claim[c]
      BY DEF DeleteClaims
    <3> QED BY <1>5, <3>1, ForeignFlagStays
  <2> DEFINE X == UNION {del[d].claimed : d \in Deleter}
  <2>2. ASSUME NEW p \in isInMerge'
        PROVE  \/ p \in X
               \/ \E w \in Worker : p \in src'[w]
               \/ \E c \in Caller : p \in claim'[c]
    <3>1. \A q \in isInMerge : q \in X \/ (\E w \in Worker : q \in src[w]) \/ \E c \in Caller : q \in claim[c]
      BY DEF DeleteClaims
    <3> HIDE DEF X
    <3> QED BY <1>5, <3>1, FlagsNext
  <2> QED BY <1>5, <2>1, <2>2 DEF DeleteClaims
<1> QED BY <1>1, <1>2, <1>3, <1>4, <1>5, ClaimedStay, DeleteKinds DEF DeleteOwn

-----------------------------------------------------------------------------
(* Parts are used as safely as without deletes *)

\* A source which isn't listed any more is held by the delete that merges it.
LEMMA DeleteLocks ==
  ASSUME ClaimCore', SourcesListed(Worker \ Deleter)', DeleteHolds'
  PROVE  LockInv'
<1>1. ASSUME NEW w \in Unswapped', NEW p \in src'[w] PROVE p \in listed' \/ Holders(p)' # {}
  <2>1. CASE w \in Deleter
    BY <2>1, Deleters DEF DeleteHolds, Holders
  <2>2. CASE w \notin Deleter
    BY <2>2 DEF SourcesListed, Unswapped
  <2> QED BY <2>1, <2>2
<1> QED BY <1>1 DEF LockInv, SourcesKept

\* A swap which goes on has found its sources in the lists.
LEMMA DeleteSwapsListed ==
  ASSUME DeleteTypeOK, SourcesListed(Worker \ Deleter),
         \A d \in Deleter : Untouched(d) \/ DeleteGoesOn(d)
  PROVE  SwapsListed
<1> SUFFICES ASSUME NEW w \in Worker, wpc[w] = "written", wpc'[w] = "dropping"
             PROVE  src[w] \subseteq listed
  BY DEF SwapsListed
<1>1. CASE w \notin Deleter
  BY <1>1 DEF SourcesListed
<1>2. CASE w \in Deleter
  <2>1. DeleteGoesOn(w)
    BY <1>2 DEF Untouched
  <2>2. w \in Worker /\ TypeOK
    BY DEF DeleteTypeOK
  <2>3. ASSUME UNCHANGED vars PROVE FALSE
    BY <2>3 DEF vars, merges
  <2>4. ~DeleteStart(w) /\ ~DeleteReturn(w) /\ ~DeleteEnd(w) /\ ~DeleteStop(w)
    BY <2>3 DEF DeleteStart, DeleteReturn, DeleteEnd, DeleteStop
  <2>5. \A p \in Part : ~DeleteSkip(w, p) /\ ~DeletePostpone(w, p) /\ ~DeleteClaim(w, p)
    BY <2>3 DEF DeleteSkip, DeletePostpone, DeleteClaim, merges
  <2>6. ~DeleteGetParts(w) /\ ~DeleteDecRef(w)
    BY DEF DeleteGetParts, DeleteDecRef, ReleaseOne, merges
  <2>7. ~DeleteMerge(w)
    BY <1>2, <2>3, DeleteMergeKinds
  <2>8. ~DeleteWrite(w) /\ ~DeleteInterrupt(w) /\ ~MergeStart(w) /\ ~MergeNoSpace(w)
        /\ ~MergeDrop(w) /\ ~MergeRelease(w)
    BY DEF DeleteWrite, DeleteInterrupt, MergeWriteRows, MergeStop, MergeStart, MergeNoSpace, MergeDrop,
           MergeRelease
  <2>9. DeleteSwap(w)
    BY <2>1, <2>4, <2>5, <2>6, <2>7, <2>8 DEF DeleteGoesOn, DeleteStep
  <2> QED BY <2>9 DEF DeleteSwap
<1> QED BY <1>1, <1>2

\* Deletes claim parts they hold, and merge them as any other merge.
LEMMA DeleteOwnParts ==
  ASSUME DeleteSafe, LockInv', NEW d \in Deleter, DeleteOwn(d)
  PROVE  PartsInv' /\ DstTypeFits'
<1> USE DEF disk, parts, merges, callers, readers
<1> d \in Worker /\ d \in Reader
  BY Deleters
<1> TypeOK /\ LockInv /\ PartsInv /\ DstTypeFits
  BY DEF DeleteSafe, UseInv, FlushInv
<1>1. ASSUME NEW p \in Part, DeleteClaim(d, p) PROVE PartsInv' /\ DstTypeFits'
  <2>1. p \in held[d] /\ isInMerge' = isInMerge \cup {p}
    BY <1>1 DEF DeleteClaim, DeleteSafe, DeleteInv, DeleteHolds
  <2>2. PartsInv'
    BY <1>1, <2>1, PartsStutter DEF DeleteClaim, Running
  <2>3. DstTypeFits'
    BY <1>1 DEF DeleteClaim, DstTypeFits, IsFinal
  <2> QED BY <2>2, <2>3
<1>2. CASE DeleteMergesClaimed(d)
  <2>1. /\ UNCHANGED <<phase, listed, ptype, refs, mustDrop, isInMerge, disk, dst, todrop, held, owner, cpc>>
        /\ src' = [src EXCEPT ![d] = del[d].claimed] /\ wpc' = [wpc EXCEPT ![d] = "claimed"]
        /\ wpc[d] = "idle"
    BY <1>2 DEF DeleteMergesClaimed, DeleteMerge, DeleteSafe, DeleteInv, DeleteShape
  <2>2. dst[d] = NoPart /\ \A w \in Worker \ {d} : wpc'[w] = wpc[w] /\ src'[w] = src[w]
    BY <2>1 DEF TypeOK, LockInv, ClaimCore, MergeShape
  <2>3. PartsInv'
    BY <2>1, <2>2, PartsStutter DEF Running
  <2>4. DstTypeFits'
    BY <2>1, <2>2, DstTypeKept
  <2> QED BY <2>3, <2>4
<1>3. CASE DeleteWrite(d) \/ DeleteInterrupt(d)
  BY <1>3, PartsWrite, DstTypeWrite DEF DeleteWrite, DeleteInterrupt
<1> QED BY <1>1, <1>2, <1>3 DEF DeleteOwn

\* parts.json names complete directories even after the panic.
LEMMA DeletePanicParts ==
  ASSUME DeleteSafe, NEW d \in Deleter, DeletePanic(d)
  PROVE  /\ Running /\ partsJSON = FileParts
         /\ partsJSON' = {q \in (listed \ src[d]) \cup NewPart(d) : ptype[q] \in FileType}
         /\ \A p \in partsJSON' : dir[p] = "complete"
<1> d \in Worker
  BY Deleters
<1> TypeOK /\ LockInv /\ PartsInv /\ DstTypeFits
  BY DEF DeleteSafe, UseInv, FlushInv
<1> DEFINE S == src[d] \cap listed
           N == NewPart(d)
           L == (listed \ src[d]) \cup N
<1>1. Running /\ wpc[d] = "written" /\ partsJSON' = PartsJSONAfter(S, L)
  BY DEF DeletePanic, LockInv, ClaimCore, CallerShape
<1>2. partsJSON = FileParts
  BY <1>1 DEF PartsInv, PartsFileIsTrue
<1>3. \A q \in N : /\ q = dst[d] /\ q \in Part /\ ptype[q] \in PartType
                   /\ ptype[q] \in FileType => dir[q] = "complete"
  BY <1>1 DEF NewPart, TypeOK, PartsInv, DstIsPrivate
<1>4. \A q \in listed : ptype[q] \in PartType /\ (ptype[q] \in FileType => dir[q] = "complete")
  BY DEF TypeOK, PartsInv, UsedPartsStayOpen, Usable
<1>5. S \in SUBSET listed /\ L = (listed \ S) \cup N
  OBVIOUS
<1>6. \A q \in listed \cup N : ptype[q] \in PartType
  BY <1>3, <1>4
<1>7. \A q \in L : ptype[q] \in FileType => dir[q] = "complete"
  BY <1>3, <1>4
<1> HIDE DEF S, N, L
<1>8. partsJSON' = {q \in L : ptype[q] \in FileType}
  BY <1>1, <1>2, <1>5, <1>6, PartsFileFollows
<1>9. \A p \in partsJSON' : dir[p] = "complete"
  BY <1>7, <1>8
<1> QED BY <1>1, <1>2, <1>8, <1>9 DEF L, N

LEMMA DiesParts ==
  ASSUME DeleteSafe, Dies, Crash \/ \E d \in Deleter : DeletePanic(d)
  PROVE  PartsInv' /\ FlushInv'
<1> TypeOK /\ PartsInv
  BY DEF DeleteSafe, UseInv
<1>1. PartsInv'
  <2>1. CASE Crash
    BY <2>1, PartsCrash
  <2>2. ASSUME NEW d \in Deleter, DeletePanic(d) PROVE PartsInv'
    <3>1. ~Running' /\ LoseMemory /\ UNCHANGED dir
      BY DEF Dies, Running
    <3> QED BY <2>2, <3>1, DeletePanicParts, PartsLost
  <2> QED BY <2>1, <2>2
<1>2. FlushInv'
  BY DEF Dies, LoseMemory, FlushInv, DstTypeFits, FinalFlushTakesAll, SnapshotShape, Reader
<1> QED BY <1>1, <1>2

LEMMA DeleteOwnFlush ==
  ASSUME DeleteSafe, NEW d \in Deleter, DeleteOwn(d)
  PROVE  phase = "open" /\ FinalFlushTakesAll' /\ SnapshotShape'
<1> USE DEF disk, parts, merges, callers, readers
<1>1. del[d].pc # "idle"
  BY DEF DeleteOwn, DeleteClaim, DeleteMergesClaimed, DeleteMerge, DeleteWrite, DeleteInterrupt,
         MergeWriteRows, MergeStop, DeleteSafe, DeleteInv, DeleteShape
<1>2. phase = "open" /\ phase' = phase
  BY <1>1, DeleteLives DEF DeleteSafe, DeleteInv, DeleteShape
<1>3. UNCHANGED <<cpc, held, linked>>
  BY DEF DeleteOwn, DeleteClaim, DeleteMergesClaimed, DeleteMerge, DeleteWrite, DeleteInterrupt,
         MergeWriteRows, MergeStop
<1> QED BY <1>2, <1>3 DEF FinalFlushTakesAll, SnapshotShape, DeleteSafe, UseInv, FlushInv

\* Before the final flush of a close all deletes are over.
LEMMA NoClaimsAtClose ==
  ASSUME DeleteShape, DeleteClaims, CloseFinalFlush
  PROVE  FlagsHaveOwners
BY DEF CloseFinalFlush, DeleteShape, DeleteClaims, FlagsHaveOwners

LEMMA UseNext ==
  ASSUME DeleteSafe, [DeleteNext]_dvars
  PROVE  UseInv' /\ SourcesListed(Worker \ Deleter)'
<1> UseInv /\ TypeOK /\ LockInv /\ ClaimCore /\ PartsInv /\ FlushInv /\ DeleteTypeOK /\ DeleteShape
    /\ DeleteHolds /\ DeleteClaims /\ SourcesListed(Worker \ Deleter)
  BY DEF DeleteSafe, UseInv, LockInv, DeleteInv
<1>1. TypeOK'
  BY DeleteTypeNext DEF DeleteTypeOK
<1>2. SourcesListed(Worker \ Deleter)'
  BY DeleteListed
<1>3. LockInv'
  BY <1>2, DeleteClaimCore, DeleteHoldsNext, DeleteLocks
<1>4. CASE Dies /\ (Crash \/ \E d \in Deleter : DeletePanic(d))
  BY <1>1, <1>2, <1>3, <1>4, DiesParts DEF UseInv
<1>5. CASE [Next]_vars /\ \A d \in Deleter : Untouched(d) \/ DeleteGoesOn(d)
  <2>1. SwapsListed
    BY <1>5, DeleteSwapsListed
  <2>2. PartsInv'
    BY <1>3, <1>5, <2>1, PartsNext
  <2>3. CloseFinalFlush => FlagsHaveOwners
    BY NoClaimsAtClose
  <2>4. FlushInv'
    BY <1>3, <1>5, <2>2, <2>3, DstTypeNext, FinalFlushNext, SnapshotShapeNext DEF FlushInv
  <2> QED BY <1>1, <1>2, <1>3, <2>2, <2>4 DEF UseInv
<1>6. ASSUME NEW d \in Deleter, DeleteOwn(d) PROVE UseInv'
  BY <1>1, <1>3, <1>6, DeleteOwnParts, DeleteOwnFlush DEF UseInv, FlushInv
<1> QED BY <1>2, <1>4, <1>5, <1>6, DeleteKinds

-----------------------------------------------------------------------------
(* What merges of deletes carry over *)

\* Filter and goal of a delete are those it started with.
LEMMA GoalStays ==
  ASSUME DeleteTypeOK, NEW d \in Deleter, Untouched(d) \/ DeleteGoesOn(d),
         ~DeleteStart(d), ~DeleteEnd(d)
  PROVE  del'[d].filter = del[d].filter /\ del'[d].goal = del[d].goal
<1> DEFINE Same == del'[d].filter = del[d].filter /\ del'[d].goal = del[d].goal
<1> del \in [Deleter -> DeleteType] /\ del[d] \in DeleteType
  BY DEF DeleteTypeOK
<1>1. CASE Untouched(d)
  BY <1>1 DEF Untouched
<1>2. ASSUME NEW p \in Part, DeleteSkip(d, p) \/ DeletePostpone(d, p) PROVE Same
  BY <1>2 DEF DeleteSkip, DeletePostpone, DeleteType
<1>3. ASSUME NEW p \in Part, DeleteClaim(d, p) PROVE Same
  BY <1>3 DEF DeleteClaim, DeleteType
<1>4. CASE DeleteGetParts(d)
  BY <1>4 DEF DeleteGetParts, DeleteType
<1>5. CASE DeleteMerge(d)
  BY <1>5, DeleteMergeKinds
<1>6. CASE DeleteSwap(d)
  BY <1>6 DEF DeleteSwap, DeleteType
<1>7. CASE DeleteReturn(d)
  BY <1>7 DEF DeleteReturn, DeleteType
<1>8. CASE DeleteStop(d)
  BY <1>8 DEF DeleteStop, DeleteType
<1> QED
  BY <1>1, <1>2, <1>3, <1>4, <1>5, <1>6, <1>7, <1>8
  DEF DeleteGoesOn, DeleteStep, DeleteDecRef, DeleteWrite, DeleteInterrupt

\* A delete whose merge has written its part has just done so.
LEMMA OnlyDeleteWrites ==
  ASSUME DeleteTypeOK, NEW d \in Deleter, DeleteGoesOn(d), wpc[d] # "written", wpc'[d] = "written"
  PROVE  DeleteWrite(d)
<1> USE DEF disk, parts, merges, callers, readers
<1> d \in Worker /\ TypeOK
  BY Deleters DEF DeleteTypeOK
<1>1. ASSUME UNCHANGED vars PROVE FALSE
  BY <1>1 DEF vars
<1>2. ~DeleteStart(d) /\ ~DeleteReturn(d) /\ ~DeleteEnd(d) /\ ~DeleteStop(d)
  BY <1>1 DEF DeleteStart, DeleteReturn, DeleteEnd, DeleteStop
<1>3. \A p \in Part : ~DeleteSkip(d, p) /\ ~DeletePostpone(d, p) /\ ~DeleteClaim(d, p)
  BY <1>1 DEF DeleteSkip, DeletePostpone, DeleteClaim
<1>4. ~DeleteGetParts(d) /\ ~DeleteDecRef(d)
  BY DEF DeleteGetParts, DeleteDecRef, ReleaseOne
<1>5. ~DeleteMerge(d)
  BY <1>1, DeleteMergeKinds
<1>6. /\ ~DeleteInterrupt(d) /\ ~MergeStart(d) /\ ~MergeNoSpace(d) /\ ~MergeDrop(d)
      /\ ~MergeRelease(d) /\ ~DeleteSwap(d)
  BY DEF DeleteInterrupt, MergeStop, MergeStart, MergeNoSpace, MergeDrop, MergeRelease, DeleteSwap,
         MergeSwap, TypeOK
<1> QED BY <1>2, <1>3, <1>4, <1>5, <1>6 DEF DeleteGoesOn, DeleteStep

\* The steps of deletes change no rows but those of the part they write.
LEMMA OwnRows ==
  ASSUME DeleteSafe, NEW d \in Deleter, DeleteOwn(d)
  PROVE  /\ UNCHANGED <<added, buf, listed, partsJSON>>
         /\ \/ UNCHANGED rows
            \/ /\ DeleteWrite(d) /\ dst[d] \in Part /\ dst[d] # NoPart
               /\ \A q \in Part \ {dst[d]} : rows'[q] = rows[q]
<1> USE DEF disk, parts, merges, callers, readers
<1> d \in Worker /\ UseInv
  BY Deleters DEF DeleteSafe
<1>1. CASE DeleteWrite(d)
  <2>1. dst[d] \in Part /\ dst[d] # NoPart
    BY <1>1, PartAssumption DEF DeleteWrite, MergeWriteRows, UseInv, LockInv, ClaimCore, MergeShape
  <2>2. \A q \in Part \ {dst[d]} : rows'[q] = rows[q]
    BY <1>1, WriteCarries DEF DeleteWrite
  <2> QED BY <1>1, <2>1, <2>2 DEF DeleteWrite, MergeWriteRows
<1>2. ASSUME NEW p \in Part, DeleteClaim(d, p) PROVE UNCHANGED <<added, buf, listed, partsJSON, rows>>
  BY <1>2 DEF DeleteClaim
<1>3. CASE DeleteMergesClaimed(d)
  BY <1>3 DEF DeleteMergesClaimed, DeleteMerge
<1>4. CASE DeleteInterrupt(d)
  BY <1>4 DEF DeleteInterrupt, MergeStop
<1> QED BY <1>1, <1>2, <1>3, <1>4 DEF DeleteOwn

\* A delete changes nothing about merges which have written their parts.
LEMMA OwnWrittenStay ==
  ASSUME DeleteSafe, NEW d \in Deleter, DeleteOwn(d), NEW w \in Worker, wpc'[w] = "written",
         ~DeleteWrite(w) \/ w \notin Deleter
  PROVE  /\ wpc[w] = "written"
         /\ RowsOf(src[w])' = RowsOf(src[w]) /\ RowsOf(NewPart(w))' = RowsOf(NewPart(w))
<1> USE DEF disk, parts, merges, callers, readers
<1> d \in Worker /\ UseInv /\ TypeOK /\ LockInv /\ PartsInv
  BY Deleters DEF DeleteSafe, UseInv
<1>1. wpc[w] = "written" /\ src'[w] = src[w] /\ dst'[w] = dst[w]
  <2>1. ASSUME NEW p \in Part, DeleteClaim(d, p) PROVE wpc[w] = "written" /\ UNCHANGED <<src, dst>>
    BY <2>1 DEF DeleteClaim
  <2>2. CASE DeleteMergesClaimed(d)
    BY <2>2 DEF DeleteMergesClaimed, DeleteMerge, TypeOK
  <2>3. CASE DeleteInterrupt(d)
    BY <2>3 DEF DeleteInterrupt, MergeStop, TypeOK
  <2>4. CASE DeleteWrite(d)
    <3>1. w # d
      BY <2>4
    <3>2. wpc' = [wpc EXCEPT ![d] = "written"] /\ src' = src
      BY <2>4 DEF DeleteWrite, MergeWriteRows
    <3>3. dst' = dst \/ dst' = [dst EXCEPT ![d] = NoPart]
      BY <2>4 DEF DeleteWrite, MergeWriteRows
    <3>4. wpc'[w] = wpc[w] /\ dst'[w] = dst[w]
      BY <3>1, <3>2, <3>3 DEF TypeOK
    <3> QED BY <3>2, <3>4
  <2> QED BY <2>1, <2>2, <2>3, <2>4 DEF DeleteOwn
<1>2. CASE UNCHANGED rows
  BY <1>1, <1>2 DEF RowsOf, NewPart
<1>3. CASE DeleteWrite(d) /\ dst[d] \in Part /\ dst[d] # NoPart /\ \A q \in Part \ {dst[d]} : rows'[q] = rows[q]
  <2>1. w # d
    BY <1>3
  <2>2. src[w] \subseteq Part /\ NewPart(w) \subseteq Part
    BY DEF TypeOK, NewPart
  <2>3. dst[d] \notin src[w]
    <3>1. \A p \in src[w] : p \in listed \/ \E r \in Reader : p \in held[r]
      BY <1>1 DEF LockInv, SourcesKept, Unswapped, Holders
    <3> QED BY <1>3, <3>1 DEF PartsInv, DstIsPrivate
  <2>4. dst[d] \notin NewPart(w)
    BY <1>3, <2>1 DEF PartsInv, DstIsPrivate, NewPart
  <2> QED BY <1>1, <1>3, <2>2, <2>3, <2>4 DEF RowsOf, NewPart
<1> QED BY <1>2, <1>3, OwnRows

\* Whatever runs beside it, a merge drops the rows its delete matches and no others.
LEMMA DeleteCarriesNext ==
  ASSUME DeleteSafe, UseInv', [DeleteNext]_dvars
  PROVE  DeleteCarries'
<1> UseInv /\ TypeOK /\ DeleteTypeOK /\ DeleteShape
  BY DEF DeleteSafe, UseInv, DeleteInv
<1> SUFFICES ASSUME NEW w \in Worker, wpc'[w] = "written"
             PROVE  RowsOf(NewPart(w))' =
                      RowsOf(src[w])' \ (IF w \in Deleter THEN del'[w].filter ELSE {})
  BY DEF DeleteCarries
<1>1. CASE Dies
  BY <1>1 DEF Dies, LoseMemory
<1> SUFFICES ASSUME ~Dies PROVE RowsOf(NewPart(w))' =
                      RowsOf(src[w])' \ (IF w \in Deleter THEN del'[w].filter ELSE {})
  BY <1>1
<1>2. \A d \in Deleter : Untouched(d) \/ DeleteGoesOn(d)
  BY DeleteKinds
<1>3. w \in Deleter /\ wpc[w] # "idle" => del'[w].filter = del[w].filter
  BY <1>2, GoalStays DEF DeleteShape, DeleteStart, DeleteEnd
<1>4. CASE w \in Deleter /\ DeleteWrite(w)
  BY <1>3, <1>4, WriteCarries DEF DeleteWrite
<1>5. CASE w \notin Deleter \/ ~DeleteWrite(w)
  <2>1. ASSUME /\ wpc[w] = "written"
               /\ RowsOf(src[w])' = RowsOf(src[w]) /\ RowsOf(NewPart(w))' = RowsOf(NewPart(w))
        PROVE  RowsOf(NewPart(w))' = RowsOf(src[w])' \ (IF w \in Deleter THEN del'[w].filter ELSE {})
    BY <1>3, <2>1 DEF DeleteSafe, DeleteInv, DeleteCarries
  <2>2. CASE [Next]_vars
    <3>1. CASE wpc[w] = "written"
      BY <2>1, <2>2, <3>1, WrittenStay
    <3>2. CASE wpc[w] # "written"
      <4>1. w \notin Deleter
        BY <1>2, <1>5, <3>2, OnlyDeleteWrites DEF Untouched
      <4>2. MergeWrite(w)
        BY <2>2, <3>2, OnlyWritesWrite
      <4> QED BY <4>1, <4>2, WriteCarries DEF MergeWrite
    <3> QED BY <3>1, <3>2
  <2>3. ASSUME NEW d \in Deleter, DeleteOwn(d)
        PROVE  RowsOf(NewPart(w))' = RowsOf(src[w])' \ (IF w \in Deleter THEN del'[w].filter ELSE {})
    BY <1>5, <2>1, <2>3, OwnWrittenStay
  <2> QED BY <2>2, <2>3, DeleteKinds
<1> QED BY <1>4, <1>5

-----------------------------------------------------------------------------
(* Rows that exist *)

\* Rows in shards and parts come from those accepted.
LEMMA AcceptedNext ==
  ASSUME TypeOK, [Next]_vars, \A s \in Shard : buf[s] \subseteq added,
         \A p \in Part : rows[p] \subseteq added
  PROVE  /\ added \subseteq added'
         /\ \A s \in Shard : buf'[s] \subseteq added' /\ buf'[s] \subseteq buf[s] \cup (added' \ added)
         /\ \A p \in Part : rows'[p] \subseteq added'
<1> USE DEF disk, parts, merges, callers, readers
<1> DEFINE Known == /\ added \subseteq added'
                    /\ \A s \in Shard : /\ buf'[s] \subseteq added'
                                        /\ buf'[s] \subseteq buf[s] \cup (added' \ added)
                    /\ \A p \in Part : rows'[p] \subseteq added'
<1> SUFFICES Known
  OBVIOUS
<1>1. ASSUME UNCHANGED <<added, buf, rows>> PROVE Known
  BY <1>1
<1>2. ASSUME UNCHANGED <<added, buf>>, \A p \in Part : rows'[p] \subseteq added PROVE Known
  BY <1>2
<1>3. ASSUME NEW s \in Shard, FlushRows(s) PROVE Known
  <2>1. PICK p \in Part : rows' = [rows EXCEPT ![p] = buf[s]]
    BY <1>3 DEF FlushRows, NewInmemoryPart, Fresh
  <2>2. added' = added /\ buf' = [buf EXCEPT ![s] = {}]
    BY <1>3 DEF FlushRows
  <2> QED BY <2>1, <2>2 DEF TypeOK
<1>4. ASSUME NEW s \in Shard, NEW R \in SUBSET Row, AddRows(s, R) PROVE Known
  <2>1. added' = added \cup R /\ R \cap added = {}
    BY <1>4 DEF AddRows
  <2>2. CASE buf' = [buf EXCEPT ![s] = @ \cup R] /\ UNCHANGED parts
    BY <2>1, <2>2 DEF TypeOK
  <2>3. ASSUME buf' = [buf EXCEPT ![s] = {}], NEW p \in Fresh, NewInmemoryPart(p, buf[s] \cup R)
        PROVE  Known
    <3>1. rows' = [rows EXCEPT ![p] = buf[s] \cup R] /\ p \in Part
      BY <2>3 DEF NewInmemoryPart, Fresh
    <3> QED BY <2>1, <2>3, <3>1 DEF TypeOK
  <2> QED BY <1>4, <2>2, <2>3 DEF AddRows
<1>5. ASSUME NEW p \in Part, DeadlinePasses(p) PROVE Known
  BY <1>1, <1>5 DEF DeadlinePasses
<1>6. ASSUME NEW P, NEW D, DecRef(P, D), UNCHANGED <<added, buf>> PROVE Known
  <2>1. \A p \in Part : rows'[p] = {} \/ rows'[p] = rows[p]
    BY <1>6 DEF DecRef
  <2> QED BY <1>2, <1>6, <2>1
<1>7. ASSUME NEW w \in Worker, MergeMoves(w) PROVE Known
  <2>1. CASE MergeWrite(w)
    <3>1. RowsOf(src[w]) \subseteq added
      BY DEF RowsOf, TypeOK
    <3>2. \A p \in Part : rows'[p] = rows[p] \/ rows'[p] = RowsOf(src[w])
      BY <2>1 DEF MergeWrite, MergeWriteRows, TypeOK
    <3>3. \A p \in Part : rows'[p] \subseteq added
      BY <3>1, <3>2
    <3> QED BY <1>2, <2>1, <3>3 DEF MergeWrite, MergeWriteRows
  <2>2. CASE MergeDrop(w)
    BY <1>6, <2>2 DEF MergeDrop
  <2>3. CASE \/ MergerStart(w) \/ MergerPick(w) \/ MergerGiveUp(w) \/ MergeStart(w) \/ MergeNoSpace(w)
             \/ MergeInterrupt(w) \/ MergeSwap(w) \/ MergeRelease(w) \/ \E c \in Caller : SpawnMerge(c, w)
    BY <1>1, <2>3 DEF MergerStart, MergerPick, MergerGiveUp, MergeStart, MergeNoSpace, MergeInterrupt,
                      MergeStop, MergeSwap, MergeRelease, SpawnMerge
  <2> QED BY <1>7, <2>1, <2>2, <2>3 DEF MergeMoves, MergeStep
<1>8. ASSUME NEW r \in Reader, ReleaseOne(r) PROVE Known
  BY <1>6, <1>8 DEF ReleaseOne
<1>9. ASSUME NEW q \in Query, QueryStart(q) PROVE Known
  BY <1>1, <1>9 DEF QueryStart
<1>10. ASSUME NEW s \in Snapshotter, \/ SnapshotStart(s) \/ SnapshotGrab(s) \/ SnapshotLink(s)
                                     \/ SnapshotLinked(s) \/ SnapshotDone(s)
       PROVE  Known
  BY <1>1, <1>10 DEF SnapshotStart, SnapshotGrab, SnapshotLink, SnapshotLinked, SnapshotDone
<1>11. ASSUME NEW f \in Forcer, ForceStart(f) \/ ForceCollect(f) \/ ForceDone(f) PROVE Known
  BY <1>1, <1>11 DEF ForceStart, ForceCollect, ForceDone
<1>12. CASE FlusherTick \/ FlusherDone \/ CloseBegin \/ CloseStop \/ CloseFinalFlush
  BY <1>1, <1>12 DEF FlusherTick, FlusherDone, CloseBegin, CloseStop, CloseFinalFlush
<1>13. CASE CloseEnd
  BY <1>6, <1>13 DEF CloseEnd
<1>14. CASE Crash
  BY <1>14 DEF Crash, LoseMemory
<1>15. CASE Open
  <2>1. \A p \in Part : rows'[p] = {} \/ rows'[p] = rows[p]
    BY <1>15 DEF Open
  <2> QED BY <1>2, <1>15, <2>1 DEF Open
<1> HIDE DEF Known
<1>16. CASE UNCHANGED vars
  BY <1>1, <1>16 DEF vars
<1> QED
  BY <1>3, <1>4, <1>5, <1>7, <1>8, <1>9, <1>10, <1>11, <1>12, <1>13, <1>14, <1>15, <1>16
  DEF Next, MergeMoves, Reader, QueryRelease, SnapshotRelease

\* Its flush is over when a delete takes references to the parts.
LEMMA FlushingEnds ==
  ASSUME DeleteTypeOK, NEW d \in Deleter, DeleteGoesOn(d),
         del[d].pc = "flushing", del'[d].pc # "flushing"
  PROVE  DeleteGetParts(d) \/ wpc[d] # "idle" \/ DeleteEnd(d)
<1> del \in [Deleter -> DeleteType] /\ del[d] \in DeleteType
  BY DEF DeleteTypeOK
<1>1. ~DeleteStart(d)
  BY DEF DeleteStart
<1>2. CASE DeleteStop(d)
  BY <1>1, <1>2 DEF DeleteStop, DeleteType
<1>3. CASE UNCHANGED del
  BY <1>1, <1>3
<1> QED
  BY <1>1, <1>2, <1>3
  DEF DeleteGoesOn, DeleteStep, DeleteSkip, DeleteClaim, DeletePostpone, DeleteMerge, DeleteWrite,
      DeleteInterrupt, DeleteSwap, MergeSwap, DeleteReturn, DeleteDecRef

LEMMA DeleteGoalsNext ==
  ASSUME DeleteSafe, [DeleteNext]_dvars
  PROVE  DeleteGoals'
<1> UseInv /\ TypeOK /\ DeleteTypeOK /\ DeleteShape /\ DeleteGoals
  BY DEF DeleteSafe, UseInv, DeleteInv
<1>1. /\ \A s \in Shard : buf[s] \subseteq added
      /\ \A p \in Part : rows[p] \subseteq added
      /\ \A d \in Deleter :
           /\ del[d].goal \subseteq del[d].filter \cap added
           /\ del[d].pc # "flushing" => \A s \in Shard : buf[s] \cap del[d].goal = {}
  BY DEF DeleteGoals
<1>2. CASE Dies
  BY <1>1, <1>2 DEF Dies, LoseMemory, DeleteGoals, NoDelete
<1>3. CASE ~Dies
  <2>1. \A d \in Deleter : Untouched(d) \/ DeleteGoesOn(d)
    BY <1>3, DeleteKinds
  <2>2. /\ added \subseteq added'
        /\ \A s \in Shard : buf'[s] \subseteq added' /\ buf'[s] \subseteq buf[s] \cup (added' \ added)
        /\ \A p \in Part : rows'[p] \subseteq added'
    <3>1. CASE [Next]_vars
      BY <1>1, <3>1, AcceptedNext
    <3>2. ASSUME NEW d \in Deleter, DeleteOwn(d)
          PROVE  UNCHANGED <<added, buf>> /\ \A p \in Part : rows'[p] \subseteq added
      <4>1. CASE UNCHANGED rows
        BY <1>1, <3>2, <4>1, OwnRows
      <4>2. CASE DeleteWrite(d)
        <5> DEFINE R == RowsOf(src[d]) \ del[d].filter
        <5>1. R \subseteq added
          BY <1>1, Deleters DEF RowsOf, TypeOK
        <5>2. MergeWriteRows(d, R, del[d].stop)
          BY <4>2 DEF DeleteWrite
        <5> HIDE DEF R
        <5>3. \A p \in Part : rows'[p] = rows[p] \/ rows'[p] = R
          BY <5>2 DEF MergeWriteRows, TypeOK
        <5> QED BY <1>1, <3>2, <5>1, <5>3, OwnRows
      <4> QED BY <3>2, <4>1, <4>2, OwnRows
    <3> QED BY <1>1, <1>3, <3>1, <3>2, DeleteKinds
  <2>3. ASSUME NEW d \in Deleter
        PROVE  /\ del'[d].goal \subseteq del'[d].filter \cap added'
               /\ del'[d].pc # "flushing" => \A s \in Shard : buf'[s] \cap del'[d].goal = {}
    <3>0. del \in [Deleter -> DeleteType] /\ del[d] \in DeleteType
      BY DEF DeleteTypeOK
    <3>1. CASE DeleteStart(d)
      <4>1. PICK F \in SUBSET Row :
              del' = [del EXCEPT ![d].pc = "flushing", ![d].filter = F,
                        ![d].goal = F \cap (RowsOf(listed) \cup UNION {buf[s] : s \in Shard})]
        BY <3>1 DEF DeleteStart
      <4> DEFINE A == RowsOf(listed) \cup UNION {buf[s] : s \in Shard}
      <4>2. A \subseteq added
        BY <1>1 DEF RowsOf, TypeOK
      <4>3. del'[d].pc = "flushing" /\ del'[d].filter = F /\ del'[d].goal = F \cap A
        BY <3>0, <4>1 DEF DeleteType
      <4> HIDE DEF A
      <4> QED BY <2>2, <4>2, <4>3
    <3>2. CASE DeleteEnd(d)
      <4>1. del'[d] = NoDelete
        BY <3>0, <3>2 DEF DeleteEnd
      <4> QED BY <4>1 DEF NoDelete
    <3>3. CASE ~DeleteStart(d) /\ ~DeleteEnd(d)
      <4>1. del'[d].filter = del[d].filter /\ del'[d].goal = del[d].goal
        BY <2>1, <3>3, GoalStays
      <4>2. del'[d].goal \subseteq del'[d].filter \cap added'
        BY <1>1, <2>2, <4>1
      <4>3. ASSUME del[d].pc # "flushing", NEW s \in Shard PROVE buf'[s] \cap del'[d].goal = {}
        BY <1>1, <2>2, <4>1, <4>3
      <4>4. ASSUME del[d].pc = "flushing", del'[d].pc # "flushing", NEW s \in Shard
            PROVE  buf'[s] \cap del'[d].goal = {}
        <5>1. DeleteGetParts(d)
          BY <2>1, <3>3, <4>4, FlushingEnds DEF Untouched, DeleteShape
        <5> QED BY <4>1, <5>1 DEF DeleteGetParts
      <4> QED BY <4>2, <4>3, <4>4
    <3> QED BY <3>1, <3>2, <3>3
  <2> QED BY <2>2, <2>3 DEF DeleteGoals
<1> QED BY <1>2, <1>3

-----------------------------------------------------------------------------
(* What a delete has found *)

\* The lists stay, or get rows nobody has seen before, or a merge replaces listed parts.
ListsKept == listed' = listed /\ \A p \in listed : rows'[p] = rows[p]

ListsGrow ==
  /\ \A p \in listed : rows'[p] = rows[p]
  /\ \E s \in Shard, p \in Part : /\ p \notin listed /\ ptype[p] = "none" /\ listed' = listed \cup {p}
                                  /\ rows'[p] \cap added \subseteq buf[s]

ListsSwap == \E w \in Worker : MergeSwap(w) /\ src[w] \subseteq listed

LEMMA ListsMove ==
  ASSUME DeleteSafe, [DeleteNext]_dvars, ~Dies, phase = "open", phase' = "open"
  PROVE  ListsKept \/ ListsGrow \/ ListsSwap
<1> USE DEF disk, parts, merges, callers, readers
<1> UseInv /\ TypeOK /\ PartsInv /\ DeleteTypeOK /\ DeleteShape /\ SourcesListed(Worker \ Deleter)
  BY DEF DeleteSafe, UseInv, DeleteInv
<1> Running
  BY DEF Running
<1>0. \A d \in Deleter : Untouched(d) \/ DeleteGoesOn(d)
  BY DeleteKinds
<1>1. CASE [Next]_vars /\ ~Crash
  <2>1. CASE Quiet
    BY <2>1 DEF Quiet, ListsKept
  <2>2. ASSUME NEW s \in Shard, NEW R, R \cap added = {}, UNCHANGED disk,
               NEW p \in Fresh, NewInmemoryPart(p, buf[s] \cup R)
        PROVE  ListsGrow
    <3>1. /\ p \in Part /\ p \notin listed /\ listed' = listed \cup {p} /\ rows'[p] = buf[s] \cup R
          /\ \A q \in Part \ {p} : rows'[q] = rows[q]
      BY <2>2, FlushAdds
    <3>2. ptype[p] = "none" /\ listed \subseteq Part
      BY DEF Fresh, TypeOK
    <3> QED BY <2>2, <3>1, <3>2 DEF ListsGrow
  <2>3. ASSUME NEW s \in Shard, FlushRows(s) PROVE ListsGrow
    <3>1. PICK p \in Fresh : NewInmemoryPart(p, buf[s])
      BY <2>3 DEF FlushRows
    <3>2. buf[s] \cup {} = buf[s] /\ {} \cap added = {} /\ UNCHANGED disk
      BY <2>3 DEF FlushRows
    <3> QED BY <2>2, <3>1, <3>2
  <2>4. ASSUME NEW s \in Shard, NEW R \in SUBSET Row, AddRows(s, R) PROVE ListsKept \/ ListsGrow
    <3>1. CASE UNCHANGED parts
      BY <3>1 DEF ListsKept
    <3>2. R \cap added = {} /\ UNCHANGED disk
      BY <2>4 DEF AddRows
    <3>3. UNCHANGED parts \/ \E p \in Fresh : NewInmemoryPart(p, buf[s] \cup R)
      BY <2>4 DEF AddRows
    <3> QED BY <2>2, <3>1, <3>2, <3>3
  <2>5. ASSUME NEW w \in Worker, MergeSwap(w) PROVE ListsSwap
    <3>1. wpc[w] = "written" /\ wpc'[w] = "dropping"
      BY <2>5 DEF MergeSwap, TypeOK
    <3>2. SwapsListed
      BY <1>0, DeleteSwapsListed
    <3> QED BY <2>5, <3>1, <3>2 DEF SwapsListed, ListsSwap
  <2>6. ~CloseEnd /\ ~Open
    BY DEF CloseEnd, Open
  <2> QED BY <1>1, <2>1, <2>3, <2>4, <2>5, <2>6, QuietNext
<1>2. ASSUME NEW d \in Deleter, DeleteOwn(d) PROVE ListsKept
  <2>1. dst[d] \in Part /\ dst[d] # NoPart => dst[d] \notin listed
    BY Deleters DEF PartsInv, DstIsPrivate
  <2>2. listed \subseteq Part
    BY DEF TypeOK
  <2> QED BY <1>2, <2>1, <2>2, OwnRows DEF ListsKept
<1> QED BY <1>1, <1>2, DeleteKinds

\* The rows of a part don't change while a delete references it.
LEMMA DeleteKeepsRows ==
  ASSUME DeleteSafe, UseInv', [DeleteNext]_dvars, ~Dies,
         NEW d \in Deleter, NEW p \in held[d], p \in held'[d]
  PROVE  rows'[p] = rows[p]
<1> UseInv /\ TypeOK /\ PartsInv /\ DeleteTypeOK /\ DeleteShape /\ d \in Reader
  BY Deleters DEF DeleteSafe, UseInv, DeleteInv
<1> p \in Part
  BY DEF TypeOK
<1>1. CASE [Next]_vars /\ ~Crash
  BY <1>1, HeldRowsStay
<1>2. ASSUME NEW e \in Deleter, DeleteOwn(e) PROVE rows'[p] = rows[p]
  <2>1. dst[e] # NoPart => dst[e] # p
    BY Deleters DEF PartsInv, DstIsPrivate
  <2> QED BY <1>2, <2>1, OwnRows
<1> QED BY <1>1, <1>2, DeleteKinds

\* A delete is before the swap of its merge.
Looking(d) == del[d].pc = "checking" \/ d \in Unswapped

LEMMA UnfinishedIsHeld ==
  ASSUME NEW d \in Deleter
  PROVE  /\ ClaimCore /\ DeleteShape /\ DeleteHolds /\ Looking(d) => Unfinished(d) \subseteq held[d]
         /\ (ClaimCore /\ DeleteShape /\ DeleteHolds /\ Looking(d) => Unfinished(d) \subseteq held[d])'
<1> d \in Worker
  BY Deleters
<1>1. ClaimCore /\ DeleteShape /\ DeleteHolds /\ Looking(d) => Unfinished(d) \subseteq held[d]
  BY DEF ClaimCore, MergeShape, DeleteShape, DeleteHolds, Looking, Unswapped, Unfinished
<1>2. (ClaimCore /\ DeleteShape /\ DeleteHolds /\ Looking(d) => Unfinished(d) \subseteq held[d])'
  BY DEF ClaimCore, MergeShape, DeleteShape, DeleteHolds, Looking, Unswapped, Unfinished
<1> QED BY <1>1, <1>2

\* Each row to be deleted is in a part the delete still works on, or has found in merge.
CoverOf(d) ==
  \A q \in listed : \A r \in del[d].goal \cap rows[q] :
    \/ del[d].repeat \/ q \in Unfinished(d)
    \/ \E p \in Unfinished(d) \ listed : r \in rows[p]

\* No rows of the goal arrive in the lists once they are flushed.
LEMMA NoneArrives ==
  ASSUME DeleteSafe, [DeleteNext]_dvars, ~Dies, phase = "open", phase' = "open",
         NEW d \in Deleter, del[d].pc # "flushing", NEW q \in listed', NEW r \in del[d].goal \cap rows'[q]
  PROVE  \/ q \in listed /\ r \in rows[q]
         \/ \E w \in Worker : /\ MergeSwap(w) /\ src[w] \subseteq listed /\ q \in NewPart(w)
                              /\ \E p \in src[w] : r \in rows[p]
<1>1. CASE ListsKept
  BY <1>1 DEF ListsKept
<1>2. CASE ListsGrow
  BY <1>2 DEF ListsGrow, DeleteSafe, DeleteInv, DeleteGoals
<1>3. ASSUME NEW w \in Worker, MergeSwap(w), src[w] \subseteq listed, ~(q \in listed /\ r \in rows[q])
      PROVE  q \in NewPart(w) /\ \E p \in src[w] : r \in rows[p]
  <2>1. q \in NewPart(w) /\ r \in rows[q]
    BY <1>3 DEF MergeSwap
  <2>2. RowsOf(NewPart(w)) \subseteq RowsOf(src[w])
    BY <1>3 DEF MergeSwap, DeleteSafe, DeleteInv, DeleteCarries
  <2> QED BY <2>1, <2>2 DEF RowsOf
<1> QED BY <1>1, <1>2, <1>3, ListsMove DEF ListsSwap

\* Whatever moves rows moves them from parts the delete knows.
LEMMA CoverMoves ==
  ASSUME DeleteSafe, UseInv', [DeleteNext]_dvars, ~Dies, phase = "open", phase' = "open",
         NEW d \in Deleter, Looking(d), CoverOf(d),
         Unfinished(d)' = Unfinished(d), Unfinished(d) \subseteq held[d] \cap held'[d],
         del'[d].goal = del[d].goal, del'[d].repeat = del[d].repeat
  PROVE  CoverOf(d)'
<1> UseInv /\ TypeOK /\ PartsInv /\ DeleteTypeOK /\ DeleteShape /\ d \in Reader
  BY Deleters DEF DeleteSafe, UseInv, DeleteInv
<1> DEFINE U == Unfinished(d)
<1>1. U' = U /\ U \subseteq held[d] /\ U \subseteq held'[d] /\ U \subseteq Part
  BY DEF TypeOK
<1>2. \A p \in U : rows'[p] = rows[p]
  BY <1>1, DeleteKeepsRows
<1>3. \A p \in U : p \notin listed => p \notin listed'
  <2> SUFFICES ASSUME NEW p \in U, p \notin listed, p \in listed' PROVE FALSE
    OBVIOUS
  <2>1. ptype[p] # "none" /\ \A w \in Worker : p \notin NewPart(w)
    BY <1>1 DEF PartsInv, UsedPartsStayOpen, Usable, DstIsPrivate, NewPart
  <2> QED BY <2>1, ListsMove DEF ListsKept, ListsGrow, ListsSwap, MergeSwap
<1>4. del[d].pc # "flushing"
  BY Deleters DEF Looking, DeleteShape, Unswapped
<1> HIDE DEF U
<1>5. ASSUME NEW q \in listed, NEW r \in del[d].goal \cap rows[q]
      PROVE  del[d].repeat \/ q \in U \/ \E p \in U \ listed : r \in rows[p]
  BY DEF CoverOf, U
<1>6. ASSUME NEW q \in listed', NEW r \in del[d].goal \cap rows'[q]
      PROVE  del[d].repeat \/ q \in U \/ \E p \in U \ listed' : r \in rows'[p]
  <2>1. CASE q \in listed /\ r \in rows[q]
    BY <1>2, <1>3, <1>5, <2>1
  <2>2. ASSUME NEW w \in Worker, MergeSwap(w), src[w] \subseteq listed, q \in NewPart(w),
               NEW p \in src[w], r \in rows[p]
        PROVE  del[d].repeat \/ q \in U \/ \E u \in U \ listed' : r \in rows'[u]
    <3>1. CASE p \in U
      <4>1. p \notin NewPart(w)
        BY <2>2 DEF NewPart, PartsInv, DstIsPrivate
      <4>2. p \notin listed'
        BY <2>2, <4>1 DEF MergeSwap
      <4> QED BY <1>2, <2>2, <3>1, <4>2
    <3>2. CASE p \notin U
      BY <1>2, <1>3, <1>5, <2>2, <3>2
    <3> QED BY <3>1, <3>2
  <2> QED BY <1>4, <1>6, <2>1, <2>2, NoneArrives
<1> QED BY <1>1, <1>6 DEF CoverOf, U

\* Deleted rows don't come back.
LEMMA GoneStays ==
  ASSUME DeleteSafe, [DeleteNext]_dvars, ~Dies, phase = "open", phase' = "open",
         NEW d \in Deleter, del[d].pc # "flushing", del[d].goal \cap RowsOf(listed) = {}
  PROVE  del[d].goal \cap RowsOf(listed)' = {}
<1> SUFFICES ASSUME NEW q \in listed', NEW r \in del[d].goal \cap rows'[q] PROVE FALSE
  BY DEF RowsOf
<1> QED BY NoneArrives DEF RowsOf

\* What a delete knows of its goal.
Knows(d) == ~del[d].stop =>
  /\ Looking(d) => CoverOf(d)
  /\ del[d].ok => del[d].goal \cap RowsOf(listed) = {}

LEMMA KnowsCovers ==
  /\ DeleteCovers <=> \A d \in Deleter : Knows(d)
  /\ DeleteCovers' <=> \A d \in Deleter : Knows(d)'
BY DEF DeleteCovers, Knows, Looking, CoverOf

\* A step which changes nothing about the parts a delete works on.
Steady(d) ==
  /\ del'[d].goal = del[d].goal /\ del'[d].repeat = del[d].repeat
  /\ del'[d].ok = del[d].ok /\ del'[d].stop = del[d].stop
  /\ Looking(d)' => Looking(d) /\ Unfinished(d)' = Unfinished(d)

LEMMA SteadyKnows ==
  ASSUME DeleteSafe, UseInv', [DeleteNext]_dvars, ~Dies, phase = "open", phase' = "open",
         NEW d \in Deleter, Steady(d)
  PROVE  Knows(d)'
<1> /\ UseInv /\ ClaimCore /\ ClaimCore' /\ DeleteTypeOK /\ DeleteShape /\ DeleteHolds /\ Knows(d)
    /\ DeleteCovers
  BY KnowsCovers DEF DeleteSafe, UseInv, DeleteInv, LockInv
<1> DeleteShape' /\ DeleteHolds'
  BY DeleteShapeNext, DeleteHoldsNext
<1> SUFFICES ASSUME ~del'[d].stop
             PROVE  /\ Looking(d)' => CoverOf(d)'
                    /\ del'[d].ok => del'[d].goal \cap RowsOf(listed)' = {}
  BY DEF Knows
<1>1. ~del[d].stop
  BY DEF Steady
<1>2. ASSUME Looking(d)' PROVE CoverOf(d)'
  <2>1. Looking(d) /\ CoverOf(d)
    BY <1>1, <1>2 DEF Steady, Knows
  <2>2. Unfinished(d) \subseteq held[d] /\ Unfinished(d)' \subseteq held'[d]
    BY <1>2, <2>1, UnfinishedIsHeld
  <2> QED BY <1>2, <2>1, <2>2, CoverMoves DEF Steady
<1>3. ASSUME del'[d].ok PROVE del'[d].goal \cap RowsOf(listed)' = {}
  <2>1. del[d].goal \cap RowsOf(listed) = {} /\ del[d].pc # "flushing"
    BY <1>1, <1>3 DEF Steady, Knows, DeleteShape
  <2> QED BY <2>1, GoneStays DEF Steady
<1> QED BY <1>2, <1>3

LEMMA SteadySteps ==
  ASSUME DeleteTypeOK, ClaimCore, DeleteShape, NEW d \in Deleter,
         \/ Untouched(d) \/ DeleteMergesClaimed(d) \/ DeleteWrite(d) \/ DeleteInterrupt(d)
         \/ UNCHANGED del /\ (MergeStart(d) \/ MergeNoSpace(d) \/ MergeDrop(d) \/ MergeRelease(d))
         \/ DeleteReturn(d) \/ DeleteDecRef(d) \/ \E p \in Part : DeleteClaim(d, p)
  PROVE  Steady(d)
<1> USE DEF disk, parts, merges, callers, readers
<1> d \in Worker /\ TypeOK /\ del \in [Deleter -> DeleteType] /\ del[d] \in DeleteType
  BY Deleters DEF DeleteTypeOK
<1>0. /\ wpc[d] # "idle" => del[d].pc = "merging"
      /\ del[d].pc # "checking" => del[d].todo = {} /\ del[d].claimed = {}
      /\ wpc[d] = "idle" => src[d] = {}
  BY DEF DeleteShape, ClaimCore, MergeShape
<1>1. CASE Untouched(d)
  BY <1>1 DEF Untouched, Steady, Looking, Unswapped, Unfinished
<1>2. CASE DeleteMergesClaimed(d)
  <2>1. DeleteMerge(d) /\ del[d].pc = "checking"
    BY <1>2 DEF DeleteMergesClaimed, DeleteMerge
  <2>2. del[d].claimed # {}
    BY <1>2 DEF DeleteMergesClaimed
  <2>3. /\ del[d].todo = {} /\ del'[d].todo = {} /\ del'[d].claimed = {}
        /\ del'[d].goal = del[d].goal /\ del'[d].repeat = del[d].repeat
        /\ del'[d].ok = del[d].ok /\ del'[d].stop = del[d].stop
        /\ src'[d] = del[d].claimed
    BY <2>1, <2>2, DeleteMergeKinds
  <2>4. src[d] = {}
    BY <1>0, <2>1
  <2> QED BY <2>1, <2>3, <2>4 DEF Steady, Looking, Unfinished
<1>3. CASE DeleteWrite(d) \/ DeleteInterrupt(d)
  BY <1>3 DEF DeleteWrite, DeleteInterrupt, MergeWriteRows, MergeStop, Steady, Looking, Unswapped, Unfinished,
              TypeOK
<1>4. CASE UNCHANGED del /\ (MergeStart(d) \/ MergeNoSpace(d))
  BY <1>4 DEF MergeStart, MergeNoSpace, Steady, Looking, Unswapped, Unfinished, TypeOK
<1>5. CASE UNCHANGED del /\ (MergeDrop(d) \/ MergeRelease(d))
  BY <1>0, <1>5 DEF MergeDrop, MergeRelease, Steady, Looking, Unswapped, TypeOK
<1>6. CASE DeleteReturn(d)
  BY <1>6 DEF DeleteReturn, vars, Steady, Looking, Unswapped, DeleteType
<1>7. CASE DeleteDecRef(d)
  BY <1>7 DEF DeleteDecRef, ReleaseOne, Steady, Looking, Unswapped, Unfinished
<1>8. ASSUME NEW p \in Part, DeleteClaim(d, p) PROVE Steady(d)
  <2>1. /\ p \in del[d].todo /\ del[d].pc = "checking" /\ UNCHANGED src
        /\ del' = [del EXCEPT ![d].todo = @ \ {p}, ![d].claimed = @ \cup {p}]
    BY <1>8 DEF DeleteClaim
  <2>2. /\ del'[d].goal = del[d].goal /\ del'[d].repeat = del[d].repeat
        /\ del'[d].ok = del[d].ok /\ del'[d].stop = del[d].stop
        /\ del'[d].todo = del[d].todo \ {p} /\ del'[d].claimed = del[d].claimed \cup {p}
    BY <2>1 DEF DeleteType
  <2> QED BY <2>1, <2>2 DEF Steady, Looking, Unfinished
<1> QED BY <1>1, <1>2, <1>3, <1>4, <1>5, <1>6, <1>7, <1>8

\* The steps between which a delete learns something.
LEMMA LearningKnows ==
  ASSUME DeleteTypeOK, DeleteGoals, ClaimCore, DeleteShape, NEW d \in Deleter, Knows(d), UNCHANGED vars,
         \/ DeleteStart(d) \/ DeleteEnd(d) \/ DeleteStop(d)
         \/ \E p \in Part : DeleteSkip(d, p) \/ DeletePostpone(d, p)
         \/ DeleteMerge(d)
  PROVE  Knows(d)'
<1> USE DEF vars, disk, parts, merges, callers, readers
<1> d \in Worker /\ TypeOK /\ del \in [Deleter -> DeleteType] /\ del[d] \in DeleteType
  BY Deleters DEF DeleteTypeOK
<1>0. /\ wpc[d] # "idle" => del[d].pc = "merging"
      /\ del[d].pc # "checking" => del[d].todo = {} /\ del[d].claimed = {}
      /\ wpc[d] = "idle" => src[d] = {}
      /\ del[d].ok => del[d].pc \in {"merging", "returning"}
  BY DEF DeleteShape, ClaimCore, MergeShape
<1>1. CASE DeleteStart(d)
  <2>1. PICK F, G : del' = [del EXCEPT ![d].pc = "flushing", ![d].filter = F, ![d].goal = G]
    BY <1>1 DEF DeleteStart
  <2>2. del[d].pc = "idle" /\ del'[d].pc = "flushing" /\ del'[d].ok = del[d].ok
    BY <1>1, <2>1 DEF DeleteStart, DeleteType
  <2> QED BY <1>0, <2>2 DEF Knows, Looking, Unswapped
<1>2. CASE DeleteEnd(d)
  <2>1. del'[d] = NoDelete /\ del[d].pc = "returning"
    BY <1>2 DEF DeleteEnd
  <2> QED BY <1>0, <2>1 DEF Knows, Looking, Unswapped, NoDelete
<1>3. CASE DeleteStop(d)
  BY <1>3 DEF DeleteStop, Knows, DeleteType
<1>4. ASSUME NEW p \in Part, DeleteSkip(d, p) PROVE Knows(d)'
  <2>1. /\ del[d].pc = "checking" /\ (rows[p] \cap del[d].filter = {} \/ del[d].stop)
        /\ del' = [del EXCEPT ![d].todo = @ \ {p}]
    BY <1>4 DEF DeleteSkip
  <2>2. /\ del'[d].goal = del[d].goal /\ del'[d].repeat = del[d].repeat
        /\ del'[d].ok = del[d].ok /\ del'[d].stop = del[d].stop
        /\ del'[d].todo = del[d].todo \ {p} /\ del'[d].claimed = del[d].claimed
    BY <2>1 DEF DeleteType
  <2>3. ~del[d].ok
    BY <1>0, <2>1
  <2>4. ASSUME ~del[d].stop PROVE CoverOf(d)'
    <3>1. rows[p] \cap del[d].goal = {}
      BY <2>1, <2>4 DEF DeleteGoals
    <3>2. CoverOf(d)
      BY <1>4, <2>4 DEF DeleteSkip, Knows, Looking
    <3>3. Unfinished(d)' \cup {p} = Unfinished(d) \cup {p}
      BY <1>4, <2>2 DEF DeleteSkip, Unfinished
    <3> QED BY <2>2, <3>1, <3>2, <3>3 DEF CoverOf
  <2> QED BY <2>2, <2>3, <2>4 DEF Knows
<1>5. ASSUME NEW p \in Part, DeletePostpone(d, p) PROVE Knows(d)'
  <2>1. del'[d].repeat /\ del'[d].ok = del[d].ok /\ del[d].pc = "checking"
    BY <1>5 DEF DeletePostpone, DeleteType
  <2> QED BY <1>0, <2>1 DEF Knows, CoverOf
<1>6. CASE DeleteMerge(d)
  <2>1. CASE del[d].claimed = {}
    <3>1. /\ del[d].pc = "checking" /\ del'[d].pc = "returning" /\ del'[d].ok = ~del[d].repeat
          /\ del[d].todo = {} /\ del'[d].goal = del[d].goal /\ del'[d].stop = del[d].stop
      BY <1>6, <2>1, DeleteMergeKinds DEF DeleteMergesClaimed
    <3>2. Unfinished(d) = {}
      BY <1>0, <2>1, <3>1 DEF Unfinished
    <3>3. wpc[d] = "idle"
      BY <1>0, <3>1
    <3>4. ASSUME ~del[d].stop, ~del[d].repeat PROVE del[d].goal \cap RowsOf(listed) = {}
      BY <3>1, <3>2, <3>4 DEF Knows, Looking, CoverOf, RowsOf
    <3>5. RowsOf(listed)' = RowsOf(listed)
      BY DEF RowsOf
    <3> QED BY <3>1, <3>3, <3>4, <3>5 DEF Knows, Looking, Unswapped
  <2>2. CASE del[d].claimed # {}
    <3>1. wpc'[d] = "claimed" /\ del[d].pc = "checking"
      BY <1>6, <2>2, DeleteMergeKinds
    <3> QED BY <1>0, <3>1
  <2> QED BY <2>1, <2>2
<1> QED BY <1>1, <1>2, <1>3, <1>4, <1>5, <1>6

\* All the parts are to be looked into.
LEMMA GetPartsKnows ==
  ASSUME DeleteTypeOK, DeleteShape, NEW d \in Deleter, DeleteGetParts(d)
  PROVE  Knows(d)'
<1> del \in [Deleter -> DeleteType] /\ del[d] \in DeleteType
  BY DEF DeleteTypeOK
<1>1. /\ del[d].pc = "flushing" /\ del'[d].todo = listed /\ del'[d].ok = del[d].ok /\ listed' = listed
  BY DEF DeleteGetParts, DeleteType
<1>2. ~del[d].ok
  BY <1>1 DEF DeleteShape
<1> QED BY <1>1, <1>2 DEF Knows, CoverOf, Unfinished

\* Nothing to be deleted is left when the swap finds all its sources in the lists.
LEMMA SwapKnows ==
  ASSUME DeleteSafe, NEW d \in Deleter, DeleteSwap(d)
  PROVE  Knows(d)'
<1> USE DEF disk, parts, merges, callers, readers
<1> /\ d \in Worker /\ TypeOK /\ DeleteShape /\ DeleteGoals /\ Knows(d)
    /\ del \in [Deleter -> DeleteType] /\ del[d] \in DeleteType
  BY Deleters, KnowsCovers DEF DeleteSafe, DeleteInv, DeleteTypeOK
<1>1. /\ src[d] \subseteq listed /\ wpc[d] = "written" /\ listed' = (listed \ src[d]) \cup NewPart(d)
      /\ wpc'[d] = "dropping" /\ UNCHANGED rows
      /\ del' = [del EXCEPT ![d].ok = ~del[d].repeat]
  BY DEF DeleteSwap, MergeSwap, TypeOK
<1>2. /\ del'[d].ok = ~del[d].repeat /\ del'[d].goal = del[d].goal
      /\ del'[d].stop = del[d].stop /\ del'[d].pc = del[d].pc
  BY <1>1 DEF DeleteType
<1>3. del[d].pc = "merging" /\ Unfinished(d) = src[d] /\ Looking(d)
  BY <1>1 DEF DeleteShape, Unfinished, Looking, Unswapped
<1>4. ASSUME ~del[d].stop, ~del[d].repeat, NEW q \in listed', NEW r \in del[d].goal \cap rows[q] PROVE FALSE
  <2>1. CASE q \in NewPart(d)
    <3>1. r \in RowsOf(NewPart(d))
      BY <1>4, <2>1 DEF RowsOf
    <3>2. RowsOf(NewPart(d)) = RowsOf(src[d]) \ del[d].filter
      BY <1>1 DEF DeleteSafe, DeleteInv, DeleteCarries
    <3>3. r \in del[d].filter
      BY <1>4 DEF DeleteGoals
    <3> QED BY <3>1, <3>2, <3>3
  <2>2. CASE q \in listed \ src[d]
    BY <1>1, <1>3, <1>4, <2>2 DEF Knows, CoverOf
  <2> QED BY <1>1, <1>4, <2>1, <2>2
<1>5. ASSUME ~del[d].stop, ~del[d].repeat PROVE del[d].goal \cap RowsOf(listed)' = {}
  BY <1>1, <1>4, <1>5 DEF RowsOf
<1> QED BY <1>1, <1>2, <1>3, <1>5 DEF Knows, Looking, Unswapped

LEMMA DeleteCoversNext ==
  ASSUME DeleteSafe, UseInv', [DeleteNext]_dvars
  PROVE  DeleteCovers'
<1> UseInv /\ ClaimCore /\ TypeOK /\ DeleteTypeOK /\ DeleteShape /\ DeleteGoals /\ \A d \in Deleter : Knows(d)
  BY KnowsCovers DEF DeleteSafe, UseInv, LockInv, DeleteInv
<1> SUFFICES ASSUME NEW d \in Deleter PROVE Knows(d)'
  BY KnowsCovers
<1> d \in Worker
  BY Deleters
<1>1. CASE Dies
  BY <1>1 DEF Dies, LoseMemory, Knows, Looking, Unswapped, NoDelete
<1>2. ASSUME ~Dies, del[d].pc # "idle", Steady(d) PROVE Knows(d)'
  <2>1. phase = "open" /\ phase' = "open"
    BY <1>2, PhaseStays DEF DeleteShape
  <2> QED BY <1>2, <2>1, SteadyKnows
<1>3. CASE ~Dies /\ Untouched(d)
  <2>1. Steady(d)
    BY <1>3, SteadySteps
  <2>2. ASSUME del[d].pc = "idle" PROVE Knows(d)'
    <3>1. del'[d] = del[d] /\ ~del[d].ok /\ wpc'[d] = "idle"
      BY <1>3, <2>2 DEF Untouched, DeleteShape
    <3> QED BY <2>2, <3>1 DEF Knows, Looking, Unswapped
  <2> QED BY <1>2, <1>3, <2>1, <2>2
<1>4. CASE ~Dies /\ DeleteGoesOn(d)
  <2>1. CASE \/ DeleteStart(d) \/ DeleteEnd(d) \/ DeleteStop(d)
             \/ \E p \in Part : DeleteSkip(d, p) \/ DeletePostpone(d, p)
    <3>1. UNCHANGED vars
      BY <2>1 DEF DeleteStart, DeleteEnd, DeleteStop, DeleteSkip, DeletePostpone
    <3> QED BY <2>1, <3>1, LearningKnows
  <2>2. CASE DeleteMerge(d)
    <3>1. CASE UNCHANGED vars
      BY <2>2, <3>1, LearningKnows
    <3>2. CASE DeleteMergesClaimed(d)
      <4>1. del[d].pc = "checking"
        BY <2>2 DEF DeleteMerge
      <4> QED BY <1>2, <1>4, <3>2, <4>1, SteadySteps
    <3> QED BY <2>2, <3>1, <3>2, DeleteMergeKinds
  <2>3. CASE DeleteGetParts(d)
    BY <2>3, GetPartsKnows
  <2>4. CASE DeleteSwap(d)
    BY <2>4, SwapKnows
  <2>5. CASE \/ DeleteWrite(d) \/ DeleteInterrupt(d)
             \/ UNCHANGED del /\ (MergeStart(d) \/ MergeNoSpace(d) \/ MergeDrop(d) \/ MergeRelease(d))
             \/ DeleteReturn(d) \/ DeleteDecRef(d) \/ \E p \in Part : DeleteClaim(d, p)
    <3>1. Steady(d)
      BY <2>5, SteadySteps
    <3>2. del[d].pc # "idle"
      BY <2>5 DEF DeleteWrite, DeleteInterrupt, MergeWriteRows, MergeStop, MergeStart, MergeNoSpace,
                  MergeDrop, MergeRelease, DeleteReturn, DeleteDecRef, DeleteClaim, DeleteShape
    <3> QED BY <1>2, <1>4, <3>1, <3>2
  <2> QED BY <1>4, <2>1, <2>2, <2>3, <2>4, <2>5 DEF DeleteGoesOn, DeleteStep
<1> QED BY <1>1, <1>3, <1>4, DeleteKinds

-----------------------------------------------------------------------------
(* The theorems *)

LEMMA ReadPartsHeld ==
  ASSUME UseInv, DeleteHolds
  PROVE  ReadPartsStayOpen
<1> SUFFICES ASSUME NEW d \in Deleter, NEW p \in DeleteReads(d) PROVE Usable(p)
  BY DEF ReadPartsStayOpen
<1>1. p \in held[d] /\ d \in Reader
  BY Deleters DEF DeleteReads, DeleteHolds, Unswapped
<1> QED BY <1>1 DEF UseInv, PartsInv, UsedPartsStayOpen

LEMMA DeleteSafeInit == DeleteInit => DeleteSafe
<1> SUFFICES ASSUME DeleteInit PROVE DeleteSafe
  OBVIOUS
<1> USE DEF DeleteInit
<1>1. UseInv /\ SourcesListed(Worker \ Deleter)
  BY TypeInit, ClaimInit, PartsInit, ClaimLocks DEF UseInv, ClaimInv, ClaimsAreExclusive, SourcesListed
<1>2. DeleteTypeOK
  BY <1>1 DEF UseInv, DeleteTypeOK, NoDelete, DeleteType
<1>3. DeleteShape /\ DeleteHolds
  BY Deleters DEF Init, DeleteShape, DeleteHolds, NoDelete, Unswapped
<1>4. DeleteClaims /\ DeleteCarries /\ DeleteGoals
  BY DEF Init, DeleteClaims, DeleteCarries, DeleteGoals, NoDelete
<1>5. DeleteCovers
  BY Deleters DEF Init, DeleteCovers, NoDelete, Unswapped
<1>6. ReadPartsStayOpen
  BY <1>1, <1>3, ReadPartsHeld
<1> QED BY <1>1, <1>2, <1>3, <1>4, <1>5, <1>6 DEF DeleteSafe, DeleteInv

LEMMA DeleteSafeNext == DeleteSafe /\ [DeleteNext]_dvars => DeleteSafe'
<1> SUFFICES ASSUME DeleteSafe, [DeleteNext]_dvars PROVE DeleteSafe'
  OBVIOUS
<1>1. /\ DeleteTypeOK /\ ClaimCore /\ DeleteShape /\ DeleteHolds /\ DeleteClaims
  BY DEF DeleteSafe, UseInv, LockInv, DeleteInv
<1>2. UseInv' /\ SourcesListed(Worker \ Deleter)'
  BY UseNext
<1>3. DeleteTypeOK' /\ DeleteShape' /\ DeleteHolds' /\ DeleteClaims'
  BY <1>1, DeleteTypeNext, DeleteShapeNext, DeleteHoldsNext, DeleteClaimsNext
<1>4. DeleteCarries' /\ DeleteGoals' /\ DeleteCovers'
  BY <1>2, DeleteCarriesNext, DeleteGoalsNext, DeleteCoversNext
<1>5. ReadPartsStayOpen'
  <2> SUFFICES ASSUME NEW d \in Deleter, NEW p \in DeleteReads(d)' PROVE Usable(p)'
    BY DEF ReadPartsStayOpen
  <2>1. p \in held'[d] /\ d \in Reader
    BY <1>3, Deleters DEF DeleteReads, DeleteHolds, Unswapped
  <2> QED BY <1>2, <2>1 DEF UseInv, PartsInv, UsedPartsStayOpen
<1> QED BY <1>2, <1>3, <1>4, <1>5 DEF DeleteSafe, DeleteInv

LEMMA DeleteIsSafe == DeleteSpec => []DeleteSafe
BY DeleteSafeInit, DeleteSafeNext, PTL DEF DeleteSpec

\* deleteRows() beside merges, flushes, searches, crashes and other deletes: the parts it
\* reads stay open and have their files, the parts it claims are its own, and its merges
\* carry over exactly the rows it doesn't match.
THEOREM DeletesAreSafe == DeleteSpec => []DeleteInv
<1>1. DeleteSafe => DeleteInv
  BY DEF DeleteSafe
<1> QED BY <1>1, DeleteIsSafe, PTL

\* Deletes disturb neither the reference counts of the parts, nor parts.json: a part is
\* closed, and its directory removed, when its last user is gone, and mustOpenDatadb()
\* finds every directory it looks for, even after the panic of a delete.
THEOREM DeletesKeepParts == DeleteSpec => [](RefInv /\ PartsFileIsTrue)
<1>1. DeleteSafe => RefInv /\ PartsFileIsTrue
  BY DEF DeleteSafe, UseInv, PartsInv, FlushInv, RefInv
<1> QED BY <1>1, DeleteIsSafe, PTL

\* A delete which wasn't stopped and returns true has left no matching row behind,
\* although parts are merged away while it looks into them.
THEOREM DeletesAreComplete == DeleteSpec => []DeleteIsComplete
<1>1. DeleteSafe => DeleteIsComplete
  BY DEF DeleteSafe, DeleteInv, DeleteCovers, DeleteIsComplete
<1> QED BY <1>1, DeleteIsSafe, PTL

-----------------------------------------------------------------------------
(* What leaves the disk *)

\* The rows deletes match.
Matching == UNION {del[d].filter : d \in Deleter}

\* Replacing the sources of a merge by its part takes only matching rows off the disk.
LEMMA SwapKeepsDurable ==
  ASSUME DeleteSafe, NEW w \in Worker, wpc[w] = "written", partsJSON = FileParts,
         partsJSON' = {q \in (listed \ src[w]) \cup NewPart(w) : ptype[q] \in FileType},
         \A q \in partsJSON' : rows'[q] = rows[q]
  PROVE  RowsOf(partsJSON) \ RowsOf(partsJSON)' \subseteq Matching
<1> TypeOK /\ PartsInv /\ DstTypeFits
  BY DEF DeleteSafe, UseInv, FlushInv
<1> SUFFICES ASSUME NEW q \in FileParts, NEW r \in rows[q], r \notin Matching
             PROVE  \E p \in partsJSON' : r \in rows'[p]
  BY DEF RowsOf
<1>1. CASE q \notin src[w]
  <2>1. q \in partsJSON'
    BY <1>1 DEF FileParts, OfType
  <2> QED BY <2>1
<1>2. CASE q \in src[w]
  <2>1. r \in RowsOf(src[w])
    BY <1>2 DEF RowsOf
  <2>2. w \in Deleter => r \notin del[w].filter
    BY DEF Matching
  <2>3. r \in RowsOf(NewPart(w))
    BY <2>1, <2>2 DEF DeleteSafe, DeleteInv, DeleteCarries
  <2>4. PICK p \in NewPart(w) : r \in rows[p]
    BY <2>3 DEF RowsOf
  <2>5. p = dst[w] /\ dst[w] # NoPart /\ ptype[p] \in PartType
    BY <2>4 DEF NewPart, TypeOK, PartsInv, DstIsPrivate
  <2>6. ptype[q] # "inmemory"
    BY DEF FileParts, OfType, FileType
  <2>7. ptype[p] \in FileType
    BY <1>2, <2>5, <2>6 DEF DstTypeFits, PartType, FileType
  <2>8. p \in partsJSON'
    BY <2>4, <2>7
  <2> QED BY <2>4, <2>8
<1> QED BY <1>1, <1>2

LEMMA MatchingNext ==
  ASSUME DeleteSafe, UseInv', [DeleteNext]_dvars
  PROVE  RowsOf(partsJSON) \ RowsOf(partsJSON)' \subseteq Matching
<1> USE DEF disk, parts, merges, callers, readers
<1> UseInv /\ TypeOK /\ PartsInv /\ PartsInv' /\ LockInv /\ DeleteTypeOK /\ DeleteShape
    /\ SourcesListed(Worker \ Deleter)
  BY DEF DeleteSafe, UseInv, DeleteInv
<1>0. /\ partsJSON \subseteq Part
      /\ Running => partsJSON = FileParts /\ partsJSON \subseteq listed
      /\ Running' => partsJSON' = FileParts'
  BY DEF TypeOK, PartsInv, PartsFileIsTrue, FileParts, OfType
<1>1. ASSUME UNCHANGED partsJSON, \A p \in partsJSON : rows'[p] = rows[p]
      PROVE  RowsOf(partsJSON) \ RowsOf(partsJSON)' \subseteq Matching
  BY <1>1 DEF RowsOf
<1>2. CASE CloseEnd \/ Crash \/ Open
  BY <1>1, <1>2, RestartKeeps
<1>3. CASE Quiet
  BY <1>1, <1>3 DEF Quiet
<1>4. ASSUME NEW R, NEW s \in Shard, UNCHANGED disk, Running, NEW p \in Fresh, NewInmemoryPart(p, buf[s] \cup R)
      PROVE  UNCHANGED partsJSON /\ \A q \in partsJSON : rows'[q] = rows[q]
  BY <1>0, <1>4, FlushAdds
<1>5. ASSUME NEW s \in Shard, FlushRows(s)
      PROVE  UNCHANGED partsJSON /\ \A q \in partsJSON : rows'[q] = rows[q]
  <2>1. PICK p \in Fresh : NewInmemoryPart(p, buf[s])
    BY <1>5 DEF FlushRows
  <2>2. buf[s] \cup {} = buf[s] /\ UNCHANGED disk /\ Running
    BY <1>5 DEF FlushRows, Running
  <2> QED BY <1>4, <2>1, <2>2
<1>6. ASSUME NEW s \in Shard, NEW R \in SUBSET Row, AddRows(s, R)
      PROVE  UNCHANGED partsJSON /\ \A q \in partsJSON : rows'[q] = rows[q]
  <2>1. UNCHANGED disk /\ Running
    BY <1>6 DEF AddRows, Running
  <2>2. UNCHANGED parts \/ \E p \in Fresh : NewInmemoryPart(p, buf[s] \cup R)
    BY <1>6 DEF AddRows
  <2> QED BY <1>4, <2>1, <2>2
<1>7. ASSUME NEW w \in Worker, MergeSwap(w)
      PROVE  RowsOf(partsJSON) \ RowsOf(partsJSON)' \subseteq Matching
  <2>1. /\ wpc[w] = "written" /\ listed' = (listed \ src[w]) \cup NewPart(w)
        /\ UNCHANGED <<rows, ptype, phase>>
    BY <1>7 DEF MergeSwap
  <2>2. Running /\ Running'
    BY <2>1 DEF LockInv, ClaimCore, CallerShape, Running
  <2>3. partsJSON' = {q \in (listed \ src[w]) \cup NewPart(w) : ptype[q] \in FileType}
    BY <1>0, <2>1, <2>2 DEF FileParts, OfType
  <2> QED BY <1>0, <2>1, <2>2, <2>3, SwapKeepsDurable
<1>8. ASSUME NEW d \in Deleter, DeletePanic(d)
      PROVE  RowsOf(partsJSON) \ RowsOf(partsJSON)' \subseteq Matching
  <2>1. /\ wpc[d] = "written" /\ LoseMemory
    BY <1>8 DEF DeletePanic
  <2>2. /\ partsJSON = FileParts
        /\ partsJSON' = {q \in (listed \ src[d]) \cup NewPart(d) : ptype[q] \in FileType}
        /\ \A p \in partsJSON' : dir[p] = "complete"
    BY <1>8, DeletePanicParts
  <2>3. partsJSON' \subseteq Part
    BY DEF UseInv, TypeOK
  <2>4. \A p \in partsJSON' : rows'[p] = rows[p]
    BY <2>1, <2>2, <2>3 DEF LoseMemory
  <2> QED BY <1>0, <2>1, <2>2, <2>4, Deleters, SwapKeepsDurable
<1>9. ASSUME NEW d \in Deleter, DeleteOwn(d)
      PROVE  UNCHANGED partsJSON /\ \A q \in partsJSON : rows'[q] = rows[q]
  <2>1. dst[d] # NoPart => dst[d] \notin partsJSON
    BY Deleters DEF PartsInv, DstIsPrivate
  <2> QED BY <1>0, <1>9, <2>1, OwnRows
<1> QED
  BY <1>1, <1>2, <1>3, <1>5, <1>6, <1>7, <1>8, <1>9, QuietNext, DeleteKinds

\* Deletes of different parts, merges, crashes, and the panic of a delete whose sources
\* were merged away: a row on disk leaves the disk only if a running delete matches it.
THEOREM DeletesAreExact == DeleteSpec => OnlyMatchingRowsAreDeleted
<1>1. DeleteSafe /\ DeleteSafe' /\ [DeleteNext]_dvars
        => [DurableRows \ DurableRows' \subseteq Matching]_dvars
  <2> SUFFICES ASSUME DeleteSafe, DeleteSafe', [DeleteNext]_dvars
               PROVE  DurableRows \ DurableRows' \subseteq Matching
    OBVIOUS
  <2>1. RowsOf(partsJSON) \ RowsOf(partsJSON)' \subseteq Matching
    BY MatchingNext DEF DeleteSafe
  <2>2. DurableRows = RowsOf(partsJSON)
    BY Durable DEF DeleteSafe, UseInv, PartsInv
  <2>3. DurableRows' = RowsOf(partsJSON)'
    BY DEF DeleteSafe, UseInv, PartsInv, PartsFileIsTrue, DurableRows, RowsOf
  <2> QED BY <2>1, <2>2, <2>3
<1> QED BY <1>1, DeleteIsSafe, PTL DEF DeleteSpec, OnlyMatchingRowsAreDeleted, Matching

=============================================================================
