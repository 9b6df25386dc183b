--------------------------- MODULE Datadb_proofs ---------------------------
(***************************************************************************)
(* Theorems about Datadb, for every set of rows, shards, parts, workers,   *)
(* searches, snapshots and forced merges, in three chapters, each on top   *)
(* of the ones before:                                                     *)
(*   - types, and which goroutine has claimed which parts;                 *)
(*   - references to parts, their directories and parts.json;              *)
(*   - rows: where they are, snapshots, flush deadlines and the refinement *)
(*     of RowStore.                                                        *)
(***************************************************************************)
EXTENDS Datadb, FiniteSetTheorems, TLAPS

(***************************************************************************)
(*                            TYPES AND CLAIMS                             *)
(***************************************************************************)

\* mustCreateDatadb() makes a well-typed datadb.
LEMMA TypeInit == Init => TypeOK
BY DEF Init, TypeOK, Caller, CallerPC, WorkerPC, Phase, PartType, Owner, Reader

\* decRef() keeps the types of everything it changes.
LEMMA DecRefType ==
  ASSUME TypeOK, NEW P \in SUBSET Part, NEW D \in SUBSET Part, DecRef(P, D)
  PROVE  /\ refs' \in [Part -> Int]
         /\ ptype' \in [Part -> PartType \cup {"none"}]
         /\ dir' \in [Part -> {"none", "partial", "complete"}]
         /\ rows' \in [Part -> SUBSET Row]
         /\ mustDrop' \subseteq Part
BY DEF TypeOK, DecRef, PartType

\* What the flushes claim and what merges write are parts and rows.
LEMMA SetTypes ==
  ASSUME TypeOK
  PROVE  /\ \A b \in BOOLEAN : ToFlush(b) \subseteq Part
         /\ FileParts \subseteq Part
         /\ \A S \in SUBSET Part : RowsOf(S) \subseteq Row
BY DEF TypeOK, ToFlush, InmemoryParts, FileParts, OfType, RowsOf

\* Claiming parts keeps the types of claims and flags.
LEMMA ClaimType ==
  ASSUME TypeOK, NEW c \in Caller, NEW S \in SUBSET Part, Claim(c, S)
  PROVE  claim' \in [Caller -> SUBSET Part] /\ isInMerge' \subseteq Part
BY DEF TypeOK, Claim

\* Everything the type of refs, ptype, dir, rows and mustDrop depends on is in
\* DecRefType for the actions which give references back.
LEMMA TypeNext == TypeOK /\ [Next]_vars => TypeOK'
<1> SUFFICES ASSUME TypeOK, [Next]_vars PROVE TypeOK'
  OBVIOUS
<1> USE DEF TypeOK, disk, parts, merges, callers, readers
<1>1. ASSUME NEW s \in Shard, FlushRows(s) PROVE TypeOK'
  BY <1>1 DEF FlushRows, NewInmemoryPart, Fresh, PartType
<1>2. ASSUME NEW s \in Shard, NEW R \in SUBSET Row, AddRows(s, R) PROVE TypeOK'
  BY <1>2 DEF AddRows, NewInmemoryPart, Fresh, PartType
<1>3. ASSUME NEW p \in Part, DeadlinePasses(p) PROVE TypeOK'
  BY <1>3 DEF DeadlinePasses
<1>4. ASSUME NEW w \in Worker, MergerStart(w) \/ MergerPick(w) \/ MergerGiveUp(w)
      PROVE TypeOK'
  BY <1>4 DEF MergerStart, MergerPick, MergerGiveUp, OfType, WorkerPC
<1>5. ASSUME NEW c \in Caller, NEW w \in Worker, SpawnMerge(c, w) PROVE TypeOK'
  BY <1>5 DEF SpawnMerge, WorkerPC, Owner
<1>6. ASSUME NEW w \in Worker, MergeStep(w) PROVE TypeOK'
  <2>1. CASE MergeStart(w)
    BY <2>1 DEF MergeStart, DstTypes, Fresh, PartType, FileType, WorkerPC
  <2>2. CASE MergeNoSpace(w)
    BY <2>2 DEF MergeNoSpace, WorkerPC
  <2>3. CASE MergeWrite(w)
    <3>1. RowsOf(src[w]) \subseteq Row /\ MergeWriteRows(w, RowsOf(src[w]), Stopped)
      BY <2>3, SetTypes DEF MergeWrite
    <3>2. QED BY <3>1, SMTT(30) DEF MergeWriteRows, WorkerPC, PartType
  <2>4. CASE MergeInterrupt(w)
    BY <2>4 DEF MergeInterrupt, MergeStop, WorkerPC
  <2>5. CASE MergeSwap(w)
    BY <2>5 DEF MergeSwap, DueAfterMerge, NewPart, PartsJSONAfter, WorkerPC
  <2>6. CASE MergeDrop(w)
    <3>1. PICK p \in todrop[w] :
            /\ DecRef({p}, mustDrop \cup {p})
            /\ todrop' = [todrop EXCEPT ![w] = @ \ {p}]
            /\ wpc' = [wpc EXCEPT ![w] = IF todrop[w] = {p} THEN "releasing" ELSE @]
      BY <2>6 DEF MergeDrop
    <3>2. p \in Part /\ mustDrop \cup {p} \subseteq Part
      BY <3>1
    <3>3. /\ refs' \in [Part -> Int] /\ ptype' \in [Part -> PartType \cup {"none"}]
          /\ dir' \in [Part -> {"none", "partial", "complete"}]
          /\ rows' \in [Part -> SUBSET Row] /\ mustDrop' \subseteq Part
      BY <3>1, <3>2, DecRefType
    <3>4. wpc' \in [Worker -> WorkerPC] /\ todrop' \in [Worker -> SUBSET Part]
      BY <3>1 DEF WorkerPC
    <3> QED BY <2>6, <3>3, <3>4 DEF MergeDrop
  <2>7. CASE MergeRelease(w)
    BY <2>7 DEF MergeRelease, WorkerPC, Owner
  <2> QED BY <1>6, <2>1, <2>2, <2>3, <2>4, <2>5, <2>6, <2>7 DEF MergeStep
<1>7. CASE FlusherTick \/ FlusherDone
  <2>1. CASE FlusherTick
    BY <2>1, SetTypes, ClaimType DEF FlusherTick, Caller, CallerPC
  <2>2. CASE FlusherDone
    BY <2>2 DEF FlusherDone, Caller, CallerPC
  <2> QED BY <1>7, <2>1, <2>2
<1>8. ASSUME NEW f \in Forcer, ForceStart(f) \/ ForceCollect(f) \/ ForceDone(f)
      PROVE TypeOK'
  <2> f \in Caller /\ FileParts \ isInMerge \in SUBSET Part
    BY SetTypes DEF Caller
  <2>1. CASE ForceStart(f)
    BY <2>1, SetTypes, ClaimType DEF ForceStart, CallerPC
  <2>2. CASE ForceCollect(f)
    BY <2>2, ClaimType DEF ForceCollect, CallerPC
  <2>3. CASE ForceDone(f)
    BY <2>3 DEF ForceDone, CallerPC
  <2> QED BY <1>8, <2>1, <2>2, <2>3
<1>9. ASSUME NEW r \in Reader, ReleaseOne(r) PROVE TypeOK'
  <2>1. PICK p \in held[r] :
          held' = [held EXCEPT ![r] = @ \ {p}] /\ DecRef({p}, mustDrop)
    BY <1>9 DEF ReleaseOne
  <2>2. QED BY <1>9, <2>1, DecRefType DEF ReleaseOne
<1>10. ASSUME NEW q \in Query, QueryStart(q) PROVE TypeOK'
  BY <1>10 DEF QueryStart, IncRef, Reader
<1>11. ASSUME NEW s \in Snapshotter, SnapshotStart(s) \/ SnapshotGrab(s) PROVE TypeOK'
  <2>1. CASE SnapshotStart(s)
    <3>1. SnapshotGoal \subseteq Row /\ RowsOf(listed) \subseteq Row /\ ToFlush(TRUE) \subseteq Part
      BY SetTypes DEF SnapshotGoal
    <3>2. QED BY <2>1, <3>1, ClaimType DEF SnapshotStart, Caller, CallerPC
  <2>2. CASE SnapshotGrab(s)
    BY <2>2 DEF SnapshotGrab, FileParts, OfType, IncRef, Caller, CallerPC, Reader
  <2> QED BY <1>11, <2>1, <2>2
<1>12. ASSUME NEW s \in Snapshotter,
              SnapshotLink(s) \/ SnapshotLinked(s) \/ SnapshotDone(s)
       PROVE TypeOK'
  <2>1. CASE SnapshotLink(s)
    BY <2>1 DEF SnapshotLink, Reader
  <2>2. CASE SnapshotLinked(s)
    BY <2>2 DEF SnapshotLinked, Caller, CallerPC
  <2>3. CASE SnapshotDone(s)
    BY <2>3 DEF SnapshotDone, Caller, CallerPC
  <2> QED BY <1>12, <2>1, <2>2, <2>3
<1>13. CASE CloseBegin \/ CloseStop
  BY <1>13 DEF CloseBegin, CloseStop, Phase
<1>18. CASE CloseFinalFlush
  BY <1>18, SetTypes, ClaimType DEF CloseFinalFlush, Caller, CallerPC, Phase
<1>14. CASE CloseEnd
  <2>1. FileParts \in SUBSET Part /\ DecRef(FileParts, mustDrop)
    BY <1>14 DEF CloseEnd, FileParts, OfType
  <2>2. QED BY <1>14, <2>1, DecRefType DEF CloseEnd, Phase, Caller, CallerPC
<1>15. CASE Crash
  BY <1>15 DEF Crash, LoseMemory, WorkerPC, CallerPC, Owner, PartType, Phase
<1>16. CASE Open
  BY <1>16 DEF Open, UnusedDirs, PartType, Phase
<1>17. CASE UNCHANGED vars
  BY <1>17 DEF vars
<1> QED
  BY <1>1, <1>2, <1>3, <1>4, <1>5, <1>6, <1>7, <1>8, <1>9, <1>10, <1>11, <1>12, <1>13,
     <1>14, <1>15, <1>16, <1>17, <1>18
  DEF Next, Reader, QueryRelease, SnapshotRelease

\* Every variable keeps its type.
THEOREM TypeCorrect == Spec => []TypeOK
BY TypeInit, TypeNext, PTL DEF Spec

-----------------------------------------------------------------------------
(* isInMerge is an exclusive lock *)

\* The variables ClaimInv is about.
claimVars == <<phase, listed, isInMerge, wpc, owner, src, dst, todrop, cpc, claim, held>>

\* A new datadb has no claims.
LEMMA ClaimInit == Init => ClaimInv
BY CallerAssumption
DEF Init, ClaimInv, MergeShape, CallerShape, FlagsHaveOwners, ClaimsAreExclusive, ClaimsAreDisjoint, SourcesListed,
    Running, Caller, Reader

\* Steps which touch none of claimVars, such as those of searches, keep the claims.
LEMMA ClaimStutter == ClaimCore /\ UNCHANGED claimVars => ClaimCore'
BY DEF ClaimCore, MergeShape, CallerShape, ClaimsAreDisjoint, Running, claimVars

\* A caller claims parts of the lists which aren't in merge.
LEMMA ClaimTaken ==
  ASSUME TypeOK, ClaimCore, NEW c \in Caller, NEW S \in SUBSET (listed \ isInMerge),
         Claim(c, S), claim[c] = {},
         UNCHANGED <<listed, src, wpc>>
  PROVE  ClaimsAreDisjoint'
BY DEF TypeOK, ClaimCore, ClaimsAreDisjoint, Claim

\* A snapshot or a forced merge claims parts and is about to have them flushed.
LEMMA CallerStarts ==
  ASSUME TypeOK, CallerShape, phase = "open",
         NEW c \in Snapshotter \cup Forcer, NEW S, Claim(c, S),
         cpc' = [cpc EXCEPT ![c] = "flushing"],
         UNCHANGED <<phase, listed, wpc, owner, held>>
  PROVE  CallerShape'
<1> c \in Caller /\ c # "closer"
  BY CallerAssumption DEF Caller
<1>1. \A w \in Worker : owner'[w] \in Caller => cpc'[owner'[w]] \in {"flushing", "merging"}
  BY DEF TypeOK, CallerShape
<1>2. \A d \in Caller : claim'[d] # {} => cpc'[d] \in {"flushing", "merging"}
  BY DEF TypeOK, CallerShape, Claim
<1>3. cpc'["closer"] = cpc["closer"]
  BY DEF TypeOK, Caller
<1> QED
  BY <1>1, <1>2, <1>3 DEF CallerShape, Running

\* The new part is written with any rows, or given up: the claims don't change.
LEMMA ClaimWrite ==
  ASSUME TypeOK, ClaimCore, NEW w \in Worker, NEW R, NEW stop,
         MergeWriteRows(w, R, stop) \/ MergeStop(w, stop)
  PROVE  ClaimCore'
<1> USE DEF readers, callers
<1>1. wpc[w] = "writing" /\ wpc' = [wpc EXCEPT ![w] = wpc'[w]] /\ wpc'[w] \in {"written", "releasing"}
  BY DEF MergeWriteRows, MergeStop, TypeOK
<1>2. /\ UNCHANGED <<phase, listed, isInMerge, owner, src, todrop, cpc, claim, held>>
      /\ \A v \in Worker \ {w} : dst'[v] = dst[v]
      /\ dst'[w] = NoPart \/ wpc'[w] = "written"
  BY <1>1 DEF MergeWriteRows, MergeStop, TypeOK
<1>3. MergeShape'
  BY <1>1, <1>2 DEF TypeOK, ClaimCore, MergeShape
<1>4. CallerShape'
  BY <1>1, <1>2 DEF TypeOK, ClaimCore, CallerShape, Running
<1>5. ClaimsAreDisjoint'
  BY <1>2 DEF ClaimCore, ClaimsAreDisjoint
<1> QED BY <1>3, <1>4, <1>5 DEF ClaimCore

\* No step of merges, flushes, snapshots, closes or crashes breaks the claims.
LEMMA ClaimCoreNext == TypeOK /\ ClaimCore /\ [Next]_vars => ClaimCore'
<1> SUFFICES ASSUME TypeOK, ClaimCore, [Next]_vars PROVE ClaimCore'
  OBVIOUS
<1> USE DEF disk, parts, merges, callers, readers
<1>1. ASSUME NEW s \in Shard, FlushRows(s) PROVE ClaimCore'
  <2>1. PICK p \in Fresh : listed' = listed \cup {p}
    BY <1>1 DEF FlushRows, NewInmemoryPart
  <2>2. QED
    BY <1>1, <2>1 DEF FlushRows, ClaimCore, MergeShape, CallerShape,
                      ClaimsAreDisjoint, Running
<1>2. ASSUME NEW s \in Shard, NEW R \in SUBSET Row, AddRows(s, R) PROVE ClaimCore'
  <2>1. listed \subseteq listed' /\ phase = "open"
    BY <1>2 DEF AddRows, NewInmemoryPart
  <2>2. QED
    BY <1>2, <2>1 DEF AddRows, ClaimCore, MergeShape, CallerShape,
                      ClaimsAreDisjoint, Running
<1>3. ASSUME NEW p \in Part, DeadlinePasses(p) PROVE ClaimCore'
  BY <1>3, ClaimStutter DEF DeadlinePasses, claimVars
<1>4. ASSUME NEW w \in Worker, MergerStart(w) \/ MergerGiveUp(w) PROVE ClaimCore'
  <2>1. MergeShape'
    BY <1>4 DEF MergerStart, MergerGiveUp, TypeOK, ClaimCore, MergeShape
  <2>2. CallerShape'
    BY <1>4 DEF MergerStart, MergerGiveUp, TypeOK, ClaimCore, CallerShape, Running
  <2>3. ClaimsAreDisjoint'
    BY <1>4 DEF MergerStart, MergerGiveUp, TypeOK, ClaimCore,
                ClaimsAreDisjoint
  <2> QED BY <2>1, <2>2, <2>3 DEF ClaimCore
<1>5. ASSUME NEW w \in Worker, MergerPick(w) PROVE ClaimCore'
  <2>1. PICK S \in SUBSET (listed \ isInMerge) :
          src' = [src EXCEPT ![w] = S] /\ isInMerge' = isInMerge \cup S
    BY <1>5 DEF MergerPick, OfType
  <2>2. MergeShape' /\ CallerShape'
    BY <1>5, <2>1 DEF MergerPick, TypeOK, ClaimCore, MergeShape, CallerShape, Running
  <2>3. ClaimsAreDisjoint'
    BY <1>5, <2>1 DEF MergerPick, TypeOK, ClaimCore, MergeShape, ClaimsAreDisjoint
  <2> QED BY <2>2, <2>3 DEF ClaimCore
<1>6. ASSUME NEW c \in Caller, NEW w \in Worker, SpawnMerge(c, w) PROVE ClaimCore'
  <2>1. PICK S \in SUBSET claim[c] :
          /\ S # {}
          /\ claim' = [claim EXCEPT ![c] = @ \ S]
          /\ src' = [src EXCEPT ![w] = S]
    BY <1>6 DEF SpawnMerge
  <2>2. MergeShape'
    BY <1>6, <2>1 DEF SpawnMerge, TypeOK, ClaimCore, MergeShape
  <2>3. CallerShape'
    BY <1>6, <2>1, CallerAssumption
    DEF SpawnMerge, TypeOK, ClaimCore, CallerShape, Running, Caller, Owner, Phase
  <2>5. ClaimsAreDisjoint'
    BY <1>6, <2>1 DEF SpawnMerge, TypeOK, ClaimCore, MergeShape, ClaimsAreDisjoint
  <2> QED BY <2>2, <2>3, <2>5 DEF ClaimCore
<1>7. ASSUME NEW w \in Worker, MergeStep(w) PROVE ClaimCore'
  <2>1. CASE MergeStart(w)
    <3>1. MergeShape'
      BY <2>1 DEF MergeStart, Fresh, TypeOK, ClaimCore, MergeShape
    <3>2. CallerShape'
      BY <2>1 DEF MergeStart, TypeOK, ClaimCore, CallerShape, Running
    <3>3. ClaimsAreDisjoint'
      BY <2>1 DEF MergeStart, TypeOK, ClaimCore, ClaimsAreDisjoint
    <3> QED BY <3>1, <3>2, <3>3 DEF ClaimCore
  <2>2. CASE MergeNoSpace(w)
    <3>1. MergeShape'
      BY <2>2 DEF MergeNoSpace, TypeOK, ClaimCore, MergeShape
    <3>2. CallerShape'
      BY <2>2 DEF MergeNoSpace, TypeOK, ClaimCore, CallerShape, Running
    <3>3. ClaimsAreDisjoint'
      BY <2>2 DEF MergeNoSpace, TypeOK, ClaimCore, ClaimsAreDisjoint
    <3> QED BY <3>1, <3>2, <3>3 DEF ClaimCore
  <2>3. CASE MergeWrite(w) \/ MergeInterrupt(w)
    BY <2>3, ClaimWrite DEF MergeWrite, MergeInterrupt
  <2>5. CASE MergeSwap(w)
    <3>1. MergeShape'
      BY <2>5 DEF MergeSwap, TypeOK, ClaimCore, MergeShape
    <3>2. CallerShape'
      BY <2>5 DEF MergeSwap, TypeOK, ClaimCore, CallerShape, Running
    <3>4. ClaimsAreDisjoint'
      BY <2>5 DEF MergeSwap, TypeOK, ClaimCore, ClaimsAreDisjoint
    <3> QED BY <3>1, <3>2, <3>4 DEF ClaimCore
  <2>6. CASE MergeDrop(w)
    <3>1. MergeShape'
      BY <2>6 DEF MergeDrop, TypeOK, ClaimCore, MergeShape
    <3>2. CallerShape'
      BY <2>6 DEF MergeDrop, TypeOK, ClaimCore, CallerShape, Running
    <3>3. ClaimsAreDisjoint'
      BY <2>6 DEF MergeDrop, TypeOK, ClaimCore, ClaimsAreDisjoint
    <3> QED BY <3>1, <3>2, <3>3 DEF ClaimCore
  <2>7. CASE MergeRelease(w)
    <3>1. MergeShape'
      BY <2>7 DEF MergeRelease, TypeOK, ClaimCore, MergeShape
    <3>2. CallerShape'
      BY <2>7, CallerAssumption
      DEF MergeRelease, TypeOK, ClaimCore, CallerShape, Running, Caller
    <3>4. ClaimsAreDisjoint'
      BY <2>7 DEF MergeRelease, TypeOK, ClaimCore, ClaimsAreDisjoint
    <3> QED BY <3>1, <3>2, <3>4 DEF ClaimCore
  <2> QED BY <1>7, <2>1, <2>2, <2>3, <2>5, <2>6, <2>7 DEF MergeStep
<1>8. CASE FlusherTick
  <2> ToFlush(FALSE) \in SUBSET (listed \ isInMerge) /\ "flusher" \in Caller
    BY DEF ToFlush, InmemoryParts, OfType, Caller
  <2>1. claim["flusher"] = {}
    BY <1>8 DEF FlusherTick, ClaimCore, CallerShape, Caller
  <2>2. MergeShape'
    BY <1>8 DEF FlusherTick, Claim, ClaimCore, MergeShape
  <2>3. CallerShape'
    BY <1>8, CallerAssumption
    DEF FlusherTick, Claim, TypeOK, ClaimCore, CallerShape, Running, Caller
  <2> QED BY <1>8, <2>1, <2>2, <2>3, ClaimTaken DEF FlusherTick, ClaimCore
<1>9. CASE FlusherDone
  <2> "flusher" \in Caller
    BY DEF Caller
  <2>1. MergeShape' /\ ClaimsAreDisjoint'
    BY <1>9 DEF FlusherDone, ClaimCore, MergeShape, ClaimsAreDisjoint
  <2>2. CallerShape'
    BY <1>9, CallerAssumption
    DEF FlusherDone, AllMerged, TypeOK, ClaimCore, CallerShape, Running, Caller
  <2> QED BY <2>1, <2>2 DEF ClaimCore
<1>10. ASSUME NEW f \in Forcer, ForceStart(f) \/ ForceCollect(f) \/ ForceDone(f)
       PROVE ClaimCore'
  <2> f \in Caller /\ f # "closer" /\ f # "flusher"
    BY CallerAssumption DEF Caller
  <2> ToFlush(TRUE) \in SUBSET (listed \ isInMerge)
    BY DEF ToFlush, InmemoryParts, OfType
  <2> FileParts \ isInMerge \in SUBSET (listed \ isInMerge)
    BY DEF FileParts, OfType
  <2>1. MergeShape'
    BY <1>10 DEF ForceStart, ForceCollect, ForceDone, Claim, ClaimCore, MergeShape
  <2>2. phase \notin {"draining", "stopping", "final"} /\ Running
    BY <1>10 DEF ForceStart, ForceCollect, ForceDone, ClaimCore, CallerShape, Running
  <2>3. CallerShape'
    <3>1. CASE ForceStart(f)
      BY <3>1, CallerStarts DEF ForceStart, ClaimCore
    <3>2. CASE ForceCollect(f)
      BY <3>2, <2>2 DEF ForceCollect, Claim, TypeOK, ClaimCore, CallerShape, Running
    <3>3. CASE ForceDone(f)
      <4>1. \A w \in Worker : owner[w] # f
        BY <3>3, CallerAssumption DEF ForceDone, AllMerged, ClaimCore, CallerShape
      <4> QED BY <3>3, <2>2, <4>1 DEF ForceDone, AllMerged, TypeOK, ClaimCore, CallerShape, Running
    <3> QED BY <1>10, <3>1, <3>2, <3>3
  <2>4. CASE ForceStart(f)
    <3>1. claim[f] = {}
      BY <2>4 DEF ForceStart, ClaimCore, CallerShape
    <3> QED BY <2>4, <2>1, <2>3, <3>1, ClaimTaken DEF ForceStart, ClaimCore
  <2>5. CASE ForceCollect(f)
    BY <2>5, <2>1, <2>3, ClaimTaken DEF ForceCollect, AllMerged, ClaimCore
  <2>6. CASE ForceDone(f)
    BY <2>6, <2>1, <2>3 DEF ForceDone, ClaimCore, ClaimsAreDisjoint
  <2> QED BY <1>10, <2>4, <2>5, <2>6
<1>11. ASSUME NEW r \in Reader, ReleaseOne(r) PROVE ClaimCore'
  BY <1>11 DEF ReleaseOne, TypeOK, ClaimCore, MergeShape, CallerShape,
               ClaimsAreDisjoint, Running
<1>12. ASSUME NEW q \in Query, QueryStart(q) PROVE ClaimCore'
  <2>1. MergeShape' /\ ClaimsAreDisjoint'
    BY <1>12 DEF QueryStart, ClaimCore, MergeShape, ClaimsAreDisjoint
  <2>2. CallerShape'
    BY <1>12 DEF QueryStart, TypeOK, ClaimCore, CallerShape, Running
  <2> QED BY <2>1, <2>2 DEF ClaimCore
<1>13. ASSUME NEW s \in Snapshotter,
              SnapshotStart(s) \/ SnapshotGrab(s) \/ SnapshotLink(s) \/ SnapshotLinked(s)
              \/ SnapshotDone(s)
       PROVE ClaimCore'
  <2> s \in Caller /\ s \in Reader /\ s # "closer" /\ s # "flusher"
    BY CallerAssumption DEF Caller, Reader
  <2>1. CASE SnapshotStart(s)
    <3> ToFlush(TRUE) \in SUBSET (listed \ isInMerge)
      BY DEF ToFlush, InmemoryParts, OfType
    <3>1. claim[s] = {}
      BY <2>1 DEF SnapshotStart, ClaimCore, CallerShape
    <3>2. MergeShape'
      BY <2>1 DEF SnapshotStart, ClaimCore, MergeShape
    <3>3. CallerShape'
      BY <2>1, CallerStarts DEF SnapshotStart, ClaimCore
    <3> QED BY <2>1, <3>1, <3>2, <3>3, ClaimTaken DEF SnapshotStart, ClaimCore
  <2>2. CASE SnapshotGrab(s)
    <3>1. MergeShape' /\ ClaimsAreDisjoint'
      BY <2>2 DEF SnapshotGrab, ClaimCore, MergeShape, ClaimsAreDisjoint
    <3>2. phase \notin {"draining", "stopping", "final"} /\ Running
      BY <2>2 DEF SnapshotGrab, ClaimCore, CallerShape, Running
    <3>3. \A w \in Worker : owner[w] # s
      BY <2>2, CallerAssumption DEF SnapshotGrab, AllMerged, ClaimCore, CallerShape
    <3>4. CallerShape'
      BY <2>2, <3>2, <3>3 DEF SnapshotGrab, AllMerged, TypeOK, ClaimCore, CallerShape, Running
    <3> QED BY <3>1, <3>4 DEF ClaimCore
  <2>3. CASE SnapshotLink(s)
    BY <2>3, ClaimStutter DEF SnapshotLink, claimVars
  <2>4. CASE SnapshotLinked(s) \/ SnapshotDone(s)
    <3>1. MergeShape' /\ ClaimsAreDisjoint'
      BY <2>4 DEF SnapshotLinked, SnapshotDone, ClaimCore, MergeShape,
                  ClaimsAreDisjoint
    <3>2. phase \notin {"draining", "stopping", "final"} /\ Running
      BY <2>4 DEF SnapshotLinked, SnapshotDone, ClaimCore, CallerShape, Running
    <3>3. \A w \in Worker : owner[w] # s
      BY <2>4 DEF SnapshotLinked, SnapshotDone, ClaimCore, CallerShape
    <3>4. claim[s] = {}
      BY <2>4 DEF SnapshotLinked, SnapshotDone, ClaimCore, CallerShape
    <3>5. \A c \in Caller \ {s} : cpc'[c] = cpc[c]
      BY <2>4 DEF SnapshotLinked, SnapshotDone, TypeOK
    <3>6. UNCHANGED <<phase, listed, wpc, owner, claim, held>>
      BY <2>4 DEF SnapshotLinked, SnapshotDone
    <3>7. CallerShape'
      BY <3>2, <3>3, <3>4, <3>5, <3>6 DEF ClaimCore, CallerShape, Running, Caller
    <3> QED BY <3>1, <3>7 DEF ClaimCore
  <2> QED BY <1>13, <2>1, <2>2, <2>3, <2>4
<1>14. CASE CloseBegin
  BY <1>14 DEF CloseBegin, ClaimCore, MergeShape, CallerShape,
               ClaimsAreDisjoint, Running
<1>15. CASE CloseStop
  BY <1>15 DEF CloseStop, ClaimCore, MergeShape, CallerShape,
               ClaimsAreDisjoint, Running
<1>16. CASE CloseFinalFlush
  <2> ToFlush(TRUE) \in SUBSET (listed \ isInMerge) /\ "closer" \in Caller
    BY DEF ToFlush, InmemoryParts, OfType, Caller
  <2>1. claim["closer"] = {} /\ cpc["closer"] = "idle"
    BY <1>16 DEF CloseFinalFlush, ClaimCore, CallerShape
  <2>2. MergeShape'
    BY <1>16 DEF CloseFinalFlush, ClaimCore, MergeShape
  <2>3. CallerShape'
    BY <1>16, <2>1, CallerAssumption
    DEF CloseFinalFlush, Claim, TypeOK, ClaimCore, CallerShape, Running, Caller
  <2> QED BY <1>16, <2>1, <2>2, <2>3, ClaimTaken DEF CloseFinalFlush, ClaimCore
<1>17. CASE CloseEnd
  <2> "closer" \in Caller
    BY DEF Caller
  <2>1. MergeShape'
    BY <1>17 DEF CloseEnd, ClaimCore, MergeShape
  <2>2. \A w \in Worker : owner[w] = "merger" /\ wpc[w] = "idle"
    <3>1. ASSUME NEW w \in Worker PROVE owner[w] = "merger" \/ owner[w] = "closer"
      BY <1>17, CallerAssumption DEF CloseEnd, TypeOK, ClaimCore, CallerShape, Owner, Caller
    <3> QED BY <1>17, <3>1 DEF CloseEnd, AllMerged, ClaimCore, CallerShape
  <2>3. \A c \in Caller : claim[c] = {}
    BY <1>17 DEF CloseEnd, AllMerged, ClaimCore, CallerShape, Caller
  <2>4. ClaimsAreDisjoint'
    BY <1>17, <2>2, <2>3 DEF CloseEnd, ClaimCore, ClaimsAreDisjoint
  <2>5. \A c \in Caller : cpc'[c] = "idle"
    BY <1>17 DEF CloseEnd, TypeOK, ClaimCore, CallerShape, Caller
  <2>6. CallerShape'
    BY <1>17, <2>2, <2>3, <2>5, CallerAssumption
    DEF CloseEnd, ClaimCore, CallerShape, Running, Caller
  <2> QED BY <2>1, <2>4, <2>6 DEF ClaimCore
<1>18. CASE Crash
  <2>1. MergeShape' /\ ClaimsAreDisjoint'
    BY <1>18 DEF Crash, LoseMemory, MergeShape, ClaimsAreDisjoint
  <2>2. CallerShape'
    BY <1>18, CallerAssumption DEF Crash, LoseMemory, CallerShape, Running, Caller
  <2> QED BY <2>1, <2>2 DEF ClaimCore
<1>19. CASE Open
  <2>1. MergeShape'
    BY <1>19 DEF Open, ClaimCore, MergeShape
  <2>2. ClaimsAreDisjoint'
    BY <1>19 DEF Open, ClaimCore, CallerShape, ClaimsAreDisjoint, Running
  <2>3. CallerShape'
    BY <1>19 DEF Open, ClaimCore, CallerShape, Running, Caller
  <2> QED BY <2>1, <2>2, <2>3 DEF ClaimCore
<1>20. CASE UNCHANGED vars
  BY <1>20, ClaimStutter DEF vars, claimVars
<1> QED
  BY <1>1, <1>2, <1>3, <1>4, <1>5, <1>6, <1>7, <1>8, <1>9, <1>10, <1>11, <1>12, <1>13,
     <1>14, <1>15, <1>16, <1>17, <1>18, <1>19, <1>20
  DEF Next, Reader, QueryRelease, SnapshotRelease

\* Steps which leave lists, positions and sources alone.
LEMMA ListedStutter ==
  ASSUME NEW W \in SUBSET Worker, SourcesListed(W), listed \subseteq listed', UNCHANGED <<wpc, src>>
  PROVE  SourcesListed(W)'
BY DEF SourcesListed

\* Nobody but the merge itself takes its sources out of the lists before the swap: true
\* of all merges which claim listed parts and keep them in the lists.
LEMMA ListedNext ==
  ASSUME TypeOK, ClaimCore, NEW W \in SUBSET Worker, SourcesListed(W), [Next]_vars
  PROVE  SourcesListed(W)'
<1> USE DEF disk, parts, merges, callers, readers
<1>1. ASSUME NEW s \in Shard, FlushRows(s) PROVE SourcesListed(W)'
  BY <1>1, ListedStutter DEF FlushRows, NewInmemoryPart
<1>2. ASSUME NEW s \in Shard, NEW R \in SUBSET Row, AddRows(s, R) PROVE SourcesListed(W)'
  BY <1>2, ListedStutter DEF AddRows, NewInmemoryPart
<1>3. ASSUME NEW p \in Part, DeadlinePasses(p) PROVE SourcesListed(W)'
  BY <1>3, ListedStutter DEF DeadlinePasses
<1>4. ASSUME NEW w \in Worker, MergerStart(w) \/ MergerPick(w) \/ MergerGiveUp(w)
      PROVE  SourcesListed(W)'
  <2>1. CASE MergerStart(w) \/ MergerGiveUp(w)
    BY <2>1 DEF MergerStart, MergerGiveUp, SourcesListed, TypeOK
  <2>2. CASE MergerPick(w)
    <3>1. PICK S \in SUBSET listed : src' = [src EXCEPT ![w] = S]
      BY <2>2 DEF MergerPick, OfType
    <3>2. UNCHANGED listed /\ \A v \in Worker \ {w} : wpc'[v] = wpc[v]
      BY <2>2 DEF MergerPick, TypeOK
    <3> QED BY <3>1, <3>2 DEF SourcesListed, TypeOK
  <2> QED BY <1>4, <2>1, <2>2
<1>5. ASSUME NEW c \in Caller, NEW w \in Worker, SpawnMerge(c, w) PROVE SourcesListed(W)'
  <2>1. PICK S \in SUBSET claim[c] : src' = [src EXCEPT ![w] = S]
    BY <1>5 DEF SpawnMerge
  <2>2. S \subseteq listed
    BY DEF ClaimCore, ClaimsAreDisjoint
  <2>3. UNCHANGED listed /\ \A v \in Worker \ {w} : wpc'[v] = wpc[v]
    BY <1>5 DEF SpawnMerge, TypeOK
  <2> QED BY <2>1, <2>2, <2>3 DEF SourcesListed, TypeOK
<1>6. ASSUME NEW w \in Worker, MergeStep(w) PROVE SourcesListed(W)'
  <2>1. CASE MergeSwap(w)
    <3>1. listed \ src[w] \subseteq listed' /\ UNCHANGED src /\ wpc'[w] = "dropping"
          /\ \A v \in Worker \ {w} : wpc'[v] = wpc[v]
      BY <2>1 DEF MergeSwap, TypeOK
    <3>2. \A v \in Worker \ {w} : src[v] \cap src[w] = {}
      BY DEF ClaimCore, ClaimsAreDisjoint
    <3> QED BY <3>1, <3>2 DEF SourcesListed
  <2>2. CASE MergeRelease(w)
    BY <2>2 DEF MergeRelease, SourcesListed, TypeOK
  <2>3. CASE MergeStart(w) \/ MergeNoSpace(w) \/ MergeWrite(w) \/ MergeInterrupt(w) \/ MergeDrop(w)
    <3>1. UNCHANGED <<listed, src>>
      BY <2>3 DEF MergeStart, MergeNoSpace, MergeWrite, MergeWriteRows, MergeInterrupt, MergeStop,
                  MergeDrop
    <3>2. \A v \in Worker : wpc'[v] \in {"claimed", "writing", "written"}
                             => wpc[v] \in {"claimed", "writing", "written"}
      <4>1. CASE MergeStart(w)
        BY <4>1 DEF MergeStart, TypeOK
      <4>2. CASE MergeNoSpace(w)
        BY <4>2 DEF MergeNoSpace, TypeOK
      <4>3. CASE MergeWrite(w)
        <5>1. wpc[w] = "writing" /\ wpc' = [wpc EXCEPT ![w] = "written"]
          BY <4>3 DEF MergeWrite, MergeWriteRows
        <5> QED BY <5>1 DEF TypeOK
      <4>4. CASE MergeInterrupt(w)
        <5>1. wpc' = [wpc EXCEPT ![w] = "releasing"]
          BY <4>4 DEF MergeInterrupt, MergeStop
        <5> QED BY <5>1 DEF TypeOK
      <4>5. CASE MergeDrop(w)
        <5>1. \E pc \in {"releasing", wpc[w]} : wpc' = [wpc EXCEPT ![w] = pc]
          BY <4>5 DEF MergeDrop
        <5> QED BY <5>1 DEF TypeOK
      <4> QED BY <2>3, <4>1, <4>2, <4>3, <4>4, <4>5
    <3> QED BY <3>1, <3>2 DEF SourcesListed
  <2> QED BY <1>6, <2>1, <2>2, <2>3 DEF MergeStep
<1>7. ASSUME FlusherTick \/ FlusherDone PROVE SourcesListed(W)'
  BY <1>7, ListedStutter DEF FlusherTick, FlusherDone
<1>8. ASSUME NEW f \in Forcer, ForceStart(f) \/ ForceCollect(f) \/ ForceDone(f)
      PROVE  SourcesListed(W)'
  BY <1>8, ListedStutter DEF ForceStart, ForceCollect, ForceDone
<1>9. ASSUME NEW q \in Query, QueryStart(q) PROVE SourcesListed(W)'
  BY <1>9, ListedStutter DEF QueryStart
<1>10. ASSUME NEW r \in Reader, ReleaseOne(r) PROVE SourcesListed(W)'
  BY <1>10, ListedStutter DEF ReleaseOne
<1>11. ASSUME NEW s \in Snapshotter, \/ SnapshotStart(s) \/ SnapshotGrab(s) \/ SnapshotLink(s)
                                     \/ SnapshotLinked(s) \/ SnapshotDone(s)
       PROVE  SourcesListed(W)'
  BY <1>11, ListedStutter DEF SnapshotStart, SnapshotGrab, SnapshotLink, SnapshotLinked, SnapshotDone
<1>12. ASSUME CloseBegin \/ CloseStop \/ CloseFinalFlush PROVE SourcesListed(W)'
  BY <1>12, ListedStutter DEF CloseBegin, CloseStop, CloseFinalFlush
<1>13. ASSUME CloseEnd \/ Crash \/ Open PROVE SourcesListed(W)'
  <2>1. CASE Crash
    BY <2>1 DEF Crash, LoseMemory, SourcesListed
  <2>2. CASE Open
    BY <2>2, ListedStutter DEF Open, ClaimCore, CallerShape, Running
  <2>3. CASE CloseEnd
    <3>1. \A w \in Worker : owner[w] = "merger" \/ owner[w] = "closer"
      BY <2>3, CallerAssumption DEF CloseEnd, TypeOK, ClaimCore, CallerShape, Owner, Caller
    <3>2. \A w \in Worker : wpc[w] = "idle"
      BY <2>3, <3>1 DEF CloseEnd, AllMerged, ClaimCore, CallerShape
    <3> QED BY <2>3, <3>2 DEF CloseEnd, SourcesListed
  <2> QED BY <1>13, <2>1, <2>2, <2>3
<1>14. ASSUME UNCHANGED vars PROVE SourcesListed(W)'
  BY <1>14, ListedStutter DEF vars
<1> QED
  BY <1>1, <1>2, <1>3, <1>4, <1>5, <1>6, <1>7, <1>8, <1>9, <1>10, <1>11, <1>12, <1>13, <1>14
  DEF Next, Reader, QueryRelease, SnapshotRelease

\* Whoever sets isInMerge is known until he clears it; X are parts whose owner is no
\* merge and no caller.
LEMMA FlagsNext ==
  ASSUME TypeOK, ClaimCore, [Next]_vars, NEW X,
         \A p \in isInMerge : \/ p \in X
                              \/ \E w \in Worker : p \in src[w]
                              \/ \E c \in Caller : p \in claim[c],
         NEW p \in isInMerge'
  PROVE  \/ p \in X
         \/ \E w \in Worker : p \in src'[w]
         \/ \E c \in Caller : p \in claim'[c]
<1> USE DEF disk, parts, merges, callers, readers
<1> DEFINE Owned == p \in X \/ (\E w \in Worker : p \in src'[w]) \/ \E c \in Caller : p \in claim'[c]
<1> SUFFICES Owned
  OBVIOUS
<1>1. ASSUME UNCHANGED <<isInMerge, src, claim>> PROVE Owned
  BY <1>1
<1> HIDE DEF Owned
<1>2. ASSUME NEW c \in Caller, NEW S, Claim(c, S), claim[c] = {}, UNCHANGED src PROVE Owned
  BY <1>2 DEF Owned, Claim, TypeOK
<1>3. ASSUME NEW s \in Shard, NEW R \in SUBSET Row, FlushRows(s) \/ AddRows(s, R) PROVE Owned
  BY <1>1, <1>3 DEF FlushRows, AddRows
<1>4. ASSUME NEW s \in Shard, FlushRows(s) PROVE Owned
  BY <1>1, <1>4 DEF FlushRows
<1>5. ASSUME NEW q \in Part, DeadlinePasses(q) PROVE Owned
  BY <1>1, <1>5 DEF DeadlinePasses
<1>6. ASSUME NEW w \in Worker, MergerStart(w) \/ MergerPick(w) \/ MergerGiveUp(w) PROVE Owned
  <2>1. CASE MergerStart(w) \/ MergerGiveUp(w)
    BY <1>1, <2>1 DEF MergerStart, MergerGiveUp
  <2>2. CASE MergerPick(w)
    <3>1. src[w] = {} /\ UNCHANGED claim
      BY <2>2 DEF MergerPick, ClaimCore, MergeShape
    <3>2. PICK S : src' = [src EXCEPT ![w] = S] /\ isInMerge' = isInMerge \cup S
      BY <2>2 DEF MergerPick
    <3> QED BY <3>1, <3>2 DEF Owned, TypeOK
  <2> QED BY <1>6, <2>1, <2>2
<1>7. ASSUME NEW c \in Caller, NEW w \in Worker, SpawnMerge(c, w) PROVE Owned
  <2>1. src[w] = {} /\ UNCHANGED isInMerge
    BY <1>7 DEF SpawnMerge, ClaimCore, MergeShape
  <2>2. PICK S : claim' = [claim EXCEPT ![c] = @ \ S] /\ src' = [src EXCEPT ![w] = S]
    BY <1>7 DEF SpawnMerge
  <2> QED BY <2>1, <2>2 DEF Owned, TypeOK
<1>8. ASSUME NEW w \in Worker, MergeStep(w) PROVE Owned
  <2>1. CASE MergeRelease(w)
    BY <2>1 DEF MergeRelease, Owned, TypeOK
  <2> QED BY <1>1, <1>8, <2>1 DEF MergeStep, MergeStart, MergeNoSpace, MergeWrite, MergeWriteRows,
                                  MergeInterrupt, MergeStop, MergeSwap, MergeDrop
<1>9. ASSUME FlusherTick \/ FlusherDone \/ CloseFinalFlush PROVE Owned
  <2> "flusher" \in Caller /\ "closer" \in Caller
    BY DEF Caller
  <2>1. CASE FlusherTick
    <3>1. claim["flusher"] = {}
      BY <2>1 DEF FlusherTick, ClaimCore, CallerShape
    <3> QED BY <1>2, <2>1, <3>1 DEF FlusherTick
  <2>2. CASE FlusherDone
    BY <1>1, <2>2 DEF FlusherDone
  <2>3. CASE CloseFinalFlush
    <3>1. claim["closer"] = {}
      BY <2>3 DEF CloseFinalFlush, ClaimCore, CallerShape
    <3> QED BY <1>2, <2>3, <3>1 DEF CloseFinalFlush
  <2> QED BY <1>9, <2>1, <2>2, <2>3
<1>10. ASSUME NEW f \in Forcer, ForceStart(f) \/ ForceCollect(f) \/ ForceDone(f) PROVE Owned
  <2> f \in Caller
    BY DEF Caller
  <2>1. CASE ForceStart(f)
    <3>1. claim[f] = {}
      BY <2>1 DEF ForceStart, ClaimCore, CallerShape
    <3> QED BY <1>2, <2>1, <3>1 DEF ForceStart
  <2>2. CASE ForceCollect(f)
    BY <1>2, <2>2 DEF ForceCollect, AllMerged
  <2>3. CASE ForceDone(f)
    BY <1>1, <2>3 DEF ForceDone
  <2> QED BY <1>10, <2>1, <2>2, <2>3
<1>11. ASSUME NEW q \in Query, QueryStart(q) PROVE Owned
  BY <1>1, <1>11 DEF QueryStart
<1>12. ASSUME NEW r \in Reader, ReleaseOne(r) PROVE Owned
  BY <1>1, <1>12 DEF ReleaseOne
<1>13. ASSUME NEW s \in Snapshotter, \/ SnapshotStart(s) \/ SnapshotGrab(s) \/ SnapshotLink(s)
                                     \/ SnapshotLinked(s) \/ SnapshotDone(s)
       PROVE  Owned
  <2> s \in Caller
    BY DEF Caller
  <2>1. CASE SnapshotStart(s)
    <3>1. claim[s] = {}
      BY <2>1 DEF SnapshotStart, ClaimCore, CallerShape
    <3> QED BY <1>2, <2>1, <3>1 DEF SnapshotStart
  <2> QED BY <1>1, <1>13, <2>1 DEF SnapshotGrab, SnapshotLink, SnapshotLinked, SnapshotDone
<1>14. ASSUME CloseBegin \/ CloseStop \/ CloseEnd \/ Open PROVE Owned
  BY <1>1, <1>14 DEF CloseBegin, CloseStop, CloseEnd, Open
<1>15. ASSUME Crash PROVE Owned
  BY <1>15 DEF Crash, LoseMemory
<1>16. ASSUME UNCHANGED vars PROVE Owned
  BY <1>1, <1>16 DEF vars
<1> QED
  BY <1>3, <1>4, <1>5, <1>6, <1>7, <1>8, <1>9, <1>10, <1>11, <1>12, <1>13, <1>14, <1>15, <1>16
  DEF Next, Reader, QueryRelease, SnapshotRelease

\* All together: isInMerge is an exclusive lock, and nobody forgets it.
LEMMA ClaimNext == TypeOK /\ ClaimInv /\ [Next]_vars => ClaimInv'
<1> SUFFICES ASSUME TypeOK, ClaimInv, [Next]_vars PROVE ClaimInv'
  OBVIOUS
<1>1. ClaimCore /\ SourcesListed(Worker) /\ FlagsHaveOwners
  BY DEF ClaimInv, ClaimsAreExclusive, ClaimCore
<1>2. ClaimCore'
  BY <1>1, ClaimCoreNext
<1>3. SourcesListed(Worker)'
  BY <1>1, ListedNext
<1>4. FlagsHaveOwners'
  <2> SUFFICES ASSUME NEW p \in isInMerge'
               PROVE  (\E w \in Worker : p \in src'[w]) \/ \E c \in Caller : p \in claim'[c]
    BY DEF FlagsHaveOwners
  <2>1. \A q \in isInMerge : \/ q \in {}
                             \/ \E w \in Worker : q \in src[w]
                             \/ \E c \in Caller : q \in claim[c]
    BY <1>1 DEF FlagsHaveOwners
  <2>2. \/ p \in {}
        \/ \E w \in Worker : p \in src'[w]
        \/ \E c \in Caller : p \in claim'[c]
    BY <1>1, <2>1, FlagsNext
  <2> QED BY <2>2
<1> QED BY <1>2, <1>3, <1>4 DEF ClaimInv, ClaimsAreExclusive, ClaimCore

\* isInMerge works as a lock for all merges, flushes, snapshots and forced merges:
\* mustMergePartsInternal() never meets a source part which somebody else merges,
\* whose flag was cleared, or which left the lists before its own swap.
THEOREM ClaimsCorrect == Spec => []ClaimInv
<1>1. TypeOK /\ ClaimInv /\ [Next]_vars => TypeOK' /\ ClaimInv'
  BY TypeNext, ClaimNext
<1> QED
  BY <1>1, TypeInit, ClaimInit, PTL DEF Spec

(***************************************************************************)
(*                   REFERENCES, DIRECTORIES, PARTS.JSON                   *)
(*                                                                         *)
(* decRef() closes and deletes a part exactly when its last user is gone,  *)
(* and parts.json always names complete directories.                       *)
(***************************************************************************)

\* What is true of parts whoever flushes, merges, reads or closes. The two other
\* conjuncts of RefInv are about the types of destination parts (see FlushInv).
PartsInv ==
  /\ RefsAreExact /\ DstIsPrivate /\ DroppedPartsAreUnlisted /\ UsedPartsStayOpen
  /\ DirsHaveParts /\ PartsFileIsTrue

FlushInv == DstTypeFits /\ FinalFlushTakesAll /\ SnapshotShape

-----------------------------------------------------------------------------
(* Counting the readers of a part *)

\* Finitely many searches and snapshots hold a part; the count is zero only if none.
LEMMA HoldersCount ==
  ASSUME NEW p
  PROVE  /\ IsFiniteSet(Holders(p)) /\ Cardinality(Holders(p)) \in Nat
         /\ Cardinality(Holders(p)) = 0 <=> Holders(p) = {}
<1>1. IsFiniteSet(Reader)
  BY ReaderAssumption, FS_Union DEF Reader
<1>2. Holders(p) \subseteq Reader
  BY DEF Holders
<1>3. IsFiniteSet(Holders(p))
  BY <1>1, <1>2, FS_Subset
<1> QED BY <1>3, FS_CardinalityType, FS_EmptySet

\* The references of one reader change.
LEMMA HoldersChange ==
  ASSUME TypeOK, NEW r \in Reader, NEW S \in SUBSET Part, held' = [held EXCEPT ![r] = S],
         NEW p \in Part
  PROVE  /\ Holders(p)' = IF p \in S THEN Holders(p) \cup {r} ELSE Holders(p) \ {r}
         /\ Cardinality(Holders(p)') = Cardinality(Holders(p))
              + (IF p \in S THEN 1 ELSE 0) - (IF p \in held[r] THEN 1 ELSE 0)
<1>1. Holders(p)' = IF p \in S THEN Holders(p) \cup {r} ELSE Holders(p) \ {r}
  BY DEF Holders, TypeOK
<1>2. r \in Holders(p) <=> p \in held[r]
  BY DEF Holders
<1>3. IsFiniteSet(Holders(p)) /\ Cardinality(Holders(p)) \in Nat
  BY HoldersCount
<1>4. Cardinality(Holders(p) \cup {r}) =
        IF r \in Holders(p) THEN Cardinality(Holders(p)) ELSE Cardinality(Holders(p)) + 1
  BY <1>3, FS_AddElement
<1>5. Cardinality(Holders(p) \ {r}) =
        IF r \in Holders(p) THEN Cardinality(Holders(p)) - 1 ELSE Cardinality(Holders(p))
  BY <1>3, FS_RemoveElement
<1> QED BY <1>1, <1>2, <1>3, <1>4, <1>5

\* Nothing changes for a part while nobody takes or gives back references.
LEMMA HoldersStutter ==
  ASSUME UNCHANGED held, NEW p
  PROVE  Holders(p)' = Holders(p)
BY DEF Holders

\* A part which is closed has no owner, no reader and no directory.
LEMMA ClosedPart ==
  ASSUME TypeOK, PartsInv, NEW p \in Part, ptype[p] = "none"
  PROVE  /\ ~HasOwner(p) /\ Holders(p) = {} /\ refs[p] = 0
         /\ p \notin listed /\ p \notin mustDrop
         /\ \A w \in Worker : dst[w] # p
         /\ Running => p \notin partsJSON
<1>1. ~HasOwner(p) /\ Holders(p) = {}
  BY DEF PartsInv, RefsAreExact
<1>2. refs[p] = 0
  BY <1>1, HoldersCount DEF PartsInv, RefsAreExact
<1>3. p \notin listed /\ p \notin mustDrop
  BY <1>1 DEF HasOwner, PartsInv, DroppedPartsAreUnlisted
<1>4. \A w \in Worker : dst[w] # p
  BY PartAssumption DEF PartsInv, DstIsPrivate
<1>5. Running => p \notin partsJSON
  BY DEF PartsInv, PartsFileIsTrue, FileParts, OfType, FileType
<1> QED BY <1>1, <1>2, <1>3, <1>4, <1>5

-----------------------------------------------------------------------------
(* Steps *)

\* Without deletes, the sources of merges are listed.
LEMMA ClaimLocks ==
  /\ ClaimInv => LockInv
  /\ ClaimInv' => LockInv'
BY DEF ClaimInv, ClaimsAreExclusive, SourcesListed, LockInv, ClaimCore, SourcesKept, Unswapped

\* The sources of a merge are open as long as the listed parts are.
LEMMA SourcesOpen ==
  ASSUME LockInv', \A p \in listed' : Usable(p)',
         \A r \in Reader : \A p \in held'[r] : Usable(p)'
  PROVE  UsedPartsStayOpen'
BY DEF LockInv, SourcesKept, Unswapped, Holders, UsedPartsStayOpen

\* Claims, merges which start, end or give up, and the steps of callers don't matter
\* to parts.
LEMMA PartsStutter ==
  ASSUME TypeOK, PartsInv, LockInv',
         UNCHANGED <<listed, ptype, refs, mustDrop, disk, dst, todrop, held>>,
         \A p \in isInMerge' : p \in isInMerge \cup listed \/ \E r \in Reader : p \in held[r],
         \A w \in Worker : dst[w] # NoPart => wpc'[w] = wpc[w],
         Running' = Running
  PROVE  PartsInv'
<1> USE DEF disk
<1>1. \A p : Holders(p)' = Holders(p)
  BY HoldersStutter
<1>2. \A p \in Part : HasOwner(p)' = HasOwner(p)
  BY PartAssumption DEF HasOwner
<1>3. RefsAreExact'
  BY <1>1, <1>2, PartAssumption DEF PartsInv, RefsAreExact
<1>4. DstIsPrivate'
  BY <1>1 DEF PartsInv, DstIsPrivate
<1>5. DroppedPartsAreUnlisted'
  BY <1>1, <1>2 DEF PartsInv, DroppedPartsAreUnlisted, TypeOK
<1>6. UsedPartsStayOpen'
  BY SourcesOpen DEF PartsInv, UsedPartsStayOpen, Usable
<1>7. DirsHaveParts' /\ PartsFileIsTrue'
  BY DEF PartsInv, DirsHaveParts, PartsFileIsTrue, FileParts, OfType
<1> QED BY <1>3, <1>4, <1>5, <1>6, <1>7 DEF PartsInv

\* mustFlushLogRows()
LEMMA PartsNewInmemory ==
  ASSUME TypeOK, PartsInv, LockInv', NEW p \in Fresh, NEW R, NewInmemoryPart(p, R),
         UNCHANGED <<phase, isInMerge, disk, merges, held>>
  PROVE  PartsInv'
<1> USE DEF disk, merges, NewInmemoryPart
<1> p \in Part /\ ptype[p] = "none" /\ dir[p] = "none" /\ p \notin isInMerge
  BY DEF Fresh
<1>0. /\ ~HasOwner(p) /\ Holders(p) = {} /\ p \notin listed /\ p \notin mustDrop
      /\ \A w \in Worker : dst[w] # p
  BY ClosedPart
<1>1. \A q : Holders(q)' = Holders(q)
  BY HoldersStutter
<1>2. HasOwner(p)' /\ \A q \in Part \ {p} : HasOwner(q)' = HasOwner(q)
  BY DEF HasOwner
<1>3. RefsAreExact'
  <2>1. ASSUME NEW q \in Part \ {p}
        PROVE  refs'[q] = refs[q] /\ ptype'[q] = ptype[q]
    BY DEF TypeOK
  <2>2. refs'[p] = 1 /\ ptype'[p] = "inmemory" /\ Cardinality(Holders(p)) = 0
    BY <1>0, HoldersCount DEF TypeOK
  <2>3. ASSUME NEW q \in Part \ {p}
        PROVE  /\ refs'[q] = (IF HasOwner(q)' THEN 1 ELSE 0) + Cardinality(Holders(q)')
               /\ ptype'[q] # "none" <=> \/ HasOwner(q)' \/ Holders(q)' # {}
                                        \/ \E w \in Worker : wpc'[w] = "writing" /\ dst'[w] = q
    BY <1>1, <1>2, <2>1 DEF PartsInv, RefsAreExact
  <2>4. Cardinality(Holders(p)') = 0
    BY <1>1, <2>2
  <2>5. refs'[p] = (IF HasOwner(p)' THEN 1 ELSE 0) + Cardinality(Holders(p)')
    BY <1>2, <2>2, <2>4
  <2> QED BY <1>2, <2>2, <2>3, <2>5 DEF RefsAreExact
<1>4. DstIsPrivate'
  BY <1>0 DEF PartsInv, DstIsPrivate, TypeOK
<1>5. DroppedPartsAreUnlisted'
  <2>1. \A w \in Worker : p \notin todrop[w]
    BY <1>0 DEF HasOwner
  <2>2. \A r \in Reader : \A q \in held[r] : HasOwner(q)' \/ q \in mustDrop
    BY <1>2 DEF PartsInv, DroppedPartsAreUnlisted, TypeOK
  <2> QED BY <1>0, <1>1, <1>2, <2>1, <2>2 DEF PartsInv, DroppedPartsAreUnlisted, TypeOK
<1>6. UsedPartsStayOpen'
  <2>1. \A q \in Part : Usable(q) => Usable(q)'
    BY DEF Usable, TypeOK, FileType
  <2>2. Usable(p)'
    BY DEF Usable, TypeOK, FileType
  <2> QED BY <2>1, <2>2, SourcesOpen DEF PartsInv, UsedPartsStayOpen, TypeOK
<1>7. DirsHaveParts'
  BY DEF PartsInv, DirsHaveParts, Running, TypeOK
<1>8. PartsFileIsTrue'
  <2>1. FileParts' = FileParts
    BY <1>0 DEF FileParts, OfType, FileType, TypeOK
  <2> QED BY <2>1 DEF PartsInv, PartsFileIsTrue, Running
<1> QED BY <1>3, <1>4, <1>5, <1>6, <1>7, <1>8 DEF PartsInv

\* The destination part of a merge is created: an identity nobody knows.
LEMMA PartsMergeStart ==
  ASSUME TypeOK, PartsInv, LockInv, LockInv', NEW w \in Worker, MergeStart(w)
  PROVE  PartsInv'
<1> USE DEF disk, parts, callers, readers
<1>0. PICK t \in PartType, p \in Fresh :
        /\ dst' = [dst EXCEPT ![w] = p]
        /\ ptype' = [ptype EXCEPT ![p] = t]
        /\ dir' = [dir EXCEPT ![p] = IF t = "inmemory" THEN "none" ELSE "partial"]
  BY DEF MergeStart, DstTypes, PartType, FileType
<1> p \in Part /\ ptype[p] = "none" /\ dir[p] = "none" /\ p \notin isInMerge /\ t # "none"
  BY DEF Fresh, PartType
<1> UNCHANGED <<listed, refs, mustDrop, isInMerge, partsJSON, todrop, held, phase>>
  BY DEF MergeStart
<1>1. /\ ~HasOwner(p) /\ Holders(p) = {} /\ p \notin listed /\ p \notin mustDrop
      /\ \A v \in Worker : dst[v] # p
      /\ refs[p] = 0
  BY ClosedPart
<1>2. p \notin partsJSON
  BY DEF PartsInv, PartsFileIsTrue
<1>3. wpc[w] = "claimed" /\ dst[w] = NoPart /\ wpc' = [wpc EXCEPT ![w] = "writing"]
  BY DEF MergeStart, LockInv, ClaimCore, MergeShape
<1>4. \A q : Holders(q)' = Holders(q)
  BY HoldersStutter
<1>5. \A q \in Part : HasOwner(q)' = HasOwner(q)
  BY <1>0, <1>1, <1>3, PartAssumption DEF HasOwner, TypeOK
<1>6. \A q \in Part \ {p} : ptype'[q] = ptype[q] /\ dir'[q] = dir[q]
  BY <1>0 DEF TypeOK
<1>7. ptype'[p] = t /\ dir'[p] = IF t = "inmemory" THEN "none" ELSE "partial"
  BY <1>0 DEF TypeOK
<1>8. dst'[w] = p /\ wpc'[w] = "writing"
      /\ \A v \in Worker \ {w} : dst'[v] = dst[v] /\ wpc'[v] = wpc[v]
  BY <1>0, <1>3 DEF TypeOK
<1>9. RefsAreExact'
  <2>1. ASSUME NEW q \in Part
        PROVE  (\E v \in Worker : wpc'[v] = "writing" /\ dst'[v] = q)
                 <=> q = p \/ \E v \in Worker : wpc[v] = "writing" /\ dst[v] = q
    BY <1>3, <1>8
  <2>2. \A q \in Part : refs[q] = (IF HasOwner(q)' THEN 1 ELSE 0) + Cardinality(Holders(q)')
    BY <1>4, <1>5 DEF PartsInv, RefsAreExact
  <2>3. \A q \in Part \ {p} :
          ptype'[q] # "none" <=> \/ HasOwner(q)' \/ Holders(q)' # {}
                                \/ \E v \in Worker : wpc'[v] = "writing" /\ dst'[v] = q
    BY <1>4, <1>5, <1>6, <2>1 DEF PartsInv, RefsAreExact
  <2> QED BY <1>7, <2>1, <2>2, <2>3 DEF RefsAreExact
<1>10. DstIsPrivate'
  <2>1. ASSUME NEW v \in Worker \ {w}, dst[v] # NoPart
        PROVE  /\ dst'[v] \notin listed \cup isInMerge \cup mustDrop \cup partsJSON
               /\ (\A r \in Reader : dst'[v] \notin held[r]) /\ ptype'[dst'[v]] # "none"
               /\ \A u \in Worker \ {v} : dst'[u] # dst'[v]
               /\ ptype'[dst'[v]] \in FileType =>
                    dir'[dst'[v]] = IF wpc'[v] = "writing" THEN "partial" ELSE "complete"
    <3>1. dst[v] \in Part /\ dst[v] # p
      BY <1>1, <2>1 DEF TypeOK
    <3> QED BY <1>1, <1>6, <1>8, <2>1, <3>1 DEF PartsInv, DstIsPrivate
  <2>2. \A r \in Reader : p \notin held[r]
    BY <1>1 DEF Holders
  <2>3. t \in FileType => t # "inmemory"
    BY DEF FileType
  <2> QED BY <1>1, <1>2, <1>7, <1>8, <2>1, <2>2, <2>3 DEF DstIsPrivate
<1>11. DroppedPartsAreUnlisted'
  BY <1>4, <1>5 DEF PartsInv, DroppedPartsAreUnlisted, TypeOK
<1>12. UsedPartsStayOpen'
  <2>1. \A r \in Reader : p \notin held[r]
    BY <1>1 DEF Holders
  <2>2. \A q \in Part \ {p} : Usable(q)' = Usable(q)
    BY <1>6 DEF Usable
  <2> QED BY <1>1, <2>1, <2>2, SourcesOpen DEF PartsInv, UsedPartsStayOpen, TypeOK
<1>13. DirsHaveParts'
  BY <1>6, <1>7 DEF PartsInv, DirsHaveParts, Running, PartType, FileType
<1>14. PartsFileIsTrue'
  <2>1. FileParts' = FileParts
    BY <1>1, <1>6 DEF FileParts, OfType, TypeOK
  <2> QED BY <1>2, <1>6, <2>1 DEF PartsInv, PartsFileIsTrue, Running, TypeOK
<1> QED BY <1>9, <1>10, <1>11, <1>12, <1>13, <1>14 DEF PartsInv

\* The destination part is closed again: the merge was interrupted or has no rows.
LEMMA PartsDstRemoved ==
  ASSUME TypeOK, PartsInv, LockInv, LockInv', NEW w \in Worker, wpc[w] = "writing",
         ptype' = [ptype EXCEPT ![dst[w]] = "none"],
         dir' = [dir EXCEPT ![dst[w]] = "none"],
         dst' = [dst EXCEPT ![w] = NoPart],
         NEW pc, wpc' = [wpc EXCEPT ![w] = pc],
         UNCHANGED <<phase, listed, refs, mustDrop, isInMerge, partsJSON, todrop, held>>
  PROVE  PartsInv'
<1>0. PICK p \in Part : dst[w] = p
  BY DEF LockInv, ClaimCore, MergeShape
<1> p # NoPart
  BY PartAssumption
<1>1. /\ p \notin listed /\ p \notin isInMerge /\ p \notin mustDrop /\ p \notin partsJSON
      /\ Holders(p) = {} /\ \A v \in Worker \ {w} : dst[v] # p
  BY <1>0 DEF PartsInv, DstIsPrivate, Holders
<1>2. \A v \in Worker : p \notin todrop[v]
  BY <1>1 DEF LockInv, ClaimCore, ClaimsAreDisjoint, MergeShape
<1>3. \A v \in Worker \ {w} : dst'[v] = dst[v] /\ wpc'[v] = wpc[v]
  BY DEF TypeOK
<1>4. dst'[w] = NoPart
  BY DEF TypeOK
<1>5. ~HasOwner(p) /\ ~HasOwner(p)'
  BY <1>0, <1>1, <1>2, <1>3, <1>4 DEF HasOwner
<1>6. \A q \in Part : HasOwner(q)' = HasOwner(q)
  BY <1>0, <1>3, <1>4, <1>5, PartAssumption DEF HasOwner
<1>7. \A q : Holders(q)' = Holders(q)
  BY HoldersStutter
<1>8. \A q \in Part \ {p} : ptype'[q] = ptype[q] /\ dir'[q] = dir[q]
  BY <1>0 DEF TypeOK
<1>9. ptype'[p] = "none" /\ dir'[p] = "none"
  BY <1>0 DEF TypeOK
<1>10. RefsAreExact'
  <2>1. ASSUME NEW q \in Part \ {p}
        PROVE  (\E v \in Worker : wpc'[v] = "writing" /\ dst'[v] = q)
                 <=> \E v \in Worker : wpc[v] = "writing" /\ dst[v] = q
    BY <1>0, <1>3, <1>4, PartAssumption
  <2>2. ~\E v \in Worker : wpc'[v] = "writing" /\ dst'[v] = p
    BY <1>1, <1>3, <1>4
  <2>3. \A q \in Part : refs[q] = (IF HasOwner(q)' THEN 1 ELSE 0) + Cardinality(Holders(q)')
    BY <1>6, <1>7 DEF PartsInv, RefsAreExact
  <2>4. \A q \in Part \ {p} :
          ptype'[q] # "none" <=> \/ HasOwner(q)' \/ Holders(q)' # {}
                                \/ \E v \in Worker : wpc'[v] = "writing" /\ dst'[v] = q
    BY <1>6, <1>7, <1>8, <2>1 DEF PartsInv, RefsAreExact
  <2> QED BY <1>1, <1>5, <1>7, <1>9, <2>2, <2>3, <2>4 DEF RefsAreExact
<1>11. DstIsPrivate'
  <2>1. ASSUME NEW v \in Worker \ {w}, dst[v] # NoPart
        PROVE  /\ dst'[v] \notin listed \cup isInMerge \cup mustDrop \cup partsJSON
               /\ (\A r \in Reader : dst'[v] \notin held[r]) /\ ptype'[dst'[v]] # "none"
               /\ \A u \in Worker \ {v} : dst'[u] # dst'[v]
               /\ ptype'[dst'[v]] \in FileType =>
                    dir'[dst'[v]] = IF wpc'[v] = "writing" THEN "partial" ELSE "complete"
    <3>1. dst[v] \in Part /\ dst[v] # p
      BY <1>1, <2>1 DEF TypeOK
    <3> QED BY <1>3, <1>4, <1>8, <2>1, <3>1 DEF PartsInv, DstIsPrivate
  <2> QED BY <1>3, <1>4, <2>1 DEF DstIsPrivate
<1>12. DroppedPartsAreUnlisted'
  BY <1>6, <1>7 DEF PartsInv, DroppedPartsAreUnlisted, TypeOK
<1>13. UsedPartsStayOpen'
  <2>1. \A r \in Reader : p \notin held[r]
    BY <1>1 DEF Holders
  <2>2. \A q \in Part \ {p} : Usable(q)' = Usable(q)
    BY <1>8 DEF Usable
  <2> QED BY <1>1, <2>1, <2>2, SourcesOpen DEF PartsInv, UsedPartsStayOpen, TypeOK
<1>14. DirsHaveParts'
  BY <1>8, <1>9 DEF PartsInv, DirsHaveParts, Running
<1>15. PartsFileIsTrue'
  <2>1. FileParts' = FileParts
    BY <1>1, <1>8 DEF FileParts, OfType, TypeOK
  <2> QED BY <1>1, <1>8, <2>1 DEF PartsInv, PartsFileIsTrue, Running, TypeOK
<1> QED BY <1>10, <1>11, <1>12, <1>13, <1>14, <1>15 DEF PartsInv

\* openCreatedPart(): the destination part has its directory and its reference.
LEMMA PartsDstWritten ==
  ASSUME TypeOK, PartsInv, LockInv, LockInv', NEW w \in Worker, wpc[w] = "writing",
         dir' = [dir EXCEPT ![dst[w]] = IF @ = "partial" THEN "complete" ELSE @],
         refs' = [refs EXCEPT ![dst[w]] = 1],
         wpc' = [wpc EXCEPT ![w] = "written"],
         UNCHANGED <<phase, listed, ptype, mustDrop, isInMerge, partsJSON, dst, todrop, held>>
  PROVE  PartsInv'
<1>0. PICK p \in Part : dst[w] = p
  BY DEF LockInv, ClaimCore, MergeShape
<1> p # NoPart
  BY PartAssumption
<1>1. /\ p \notin listed /\ p \notin isInMerge /\ p \notin mustDrop /\ p \notin partsJSON
      /\ Holders(p) = {} /\ \A v \in Worker \ {w} : dst[v] # p
      /\ ptype[p] # "none" /\ (ptype[p] \in FileType => dir[p] = "partial")
  BY <1>0 DEF PartsInv, DstIsPrivate, Holders
<1>2. \A v \in Worker \ {w} : wpc'[v] = wpc[v]
  BY DEF TypeOK
<1>3. wpc'[w] = "written"
  BY DEF TypeOK
<1>4. HasOwner(p)' /\ \A q \in Part \ {p} : HasOwner(q)' = HasOwner(q)
  BY <1>0, <1>2, <1>3 DEF HasOwner
<1>5. \A q : Holders(q)' = Holders(q)
  BY HoldersStutter
<1>6. \A q \in Part \ {p} : refs'[q] = refs[q] /\ dir'[q] = dir[q]
  BY <1>0 DEF TypeOK
<1>7. refs'[p] = 1 /\ (dir[p] = "partial" => dir'[p] = "complete")
  BY <1>0 DEF TypeOK
<1>8. RefsAreExact'
  <2>1. ASSUME NEW q \in Part \ {p}
        PROVE  /\ refs'[q] = (IF HasOwner(q)' THEN 1 ELSE 0) + Cardinality(Holders(q)')
               /\ ptype'[q] # "none" <=> \/ HasOwner(q)' \/ Holders(q)' # {}
                                        \/ \E v \in Worker : wpc'[v] = "writing" /\ dst'[v] = q
    <3>1. (\E v \in Worker : wpc'[v] = "writing" /\ dst'[v] = q)
            <=> \E v \in Worker : wpc[v] = "writing" /\ dst[v] = q
      BY <1>0, <1>2, <1>3
    <3> QED BY <1>4, <1>5, <1>6, <3>1 DEF PartsInv, RefsAreExact
  <2>2. Cardinality(Holders(p)') = 0
    BY <1>1, <1>5, HoldersCount
  <2>3. refs'[p] = (IF HasOwner(p)' THEN 1 ELSE 0) + Cardinality(Holders(p)')
    BY <1>4, <1>7, <2>2
  <2> QED BY <1>1, <1>4, <2>1, <2>3 DEF RefsAreExact
<1>9. DstIsPrivate'
  <2>1. ASSUME NEW v \in Worker \ {w}, dst[v] # NoPart
        PROVE  dst[v] # p /\ dst[v] \in Part
    BY <1>1, <2>1 DEF TypeOK
  <2>2. ptype[p] \in FileType => dir'[p] = "complete"
    BY <1>1, <1>7
  <2> QED BY <1>0, <1>2, <1>3, <1>5, <1>6, <2>1, <2>2 DEF PartsInv, DstIsPrivate
<1>10. DroppedPartsAreUnlisted'
  <2>1. \A r \in Reader : \A q \in held[r] : HasOwner(q)' \/ q \in mustDrop
    BY <1>4 DEF PartsInv, DroppedPartsAreUnlisted, TypeOK
  <2> QED BY <1>1, <1>4, <1>5, <2>1 DEF PartsInv, DroppedPartsAreUnlisted, TypeOK
<1>11. UsedPartsStayOpen'
  <2>1. \A r \in Reader : p \notin held[r]
    BY <1>1 DEF Holders
  <2>2. \A q \in Part \ {p} : Usable(q)' = Usable(q)
    BY <1>6 DEF Usable
  <2> QED BY <1>1, <2>1, <2>2, SourcesOpen DEF PartsInv, UsedPartsStayOpen, TypeOK
<1>12. DirsHaveParts'
  BY <1>1, <1>6 DEF PartsInv, DirsHaveParts, Running
<1>13. PartsFileIsTrue'
  BY <1>1, <1>6 DEF PartsInv, PartsFileIsTrue, FileParts, OfType, Running, TypeOK
<1> QED BY <1>8, <1>9, <1>10, <1>11, <1>12, <1>13 DEF PartsInv

\* parts.json names the file parts of the lists again after every swap: a swap which
\* neither removes nor adds a file part leaves the file alone.
LEMMA PartsFileFollows ==
  ASSUME partsJSON = FileParts, NEW S \in SUBSET listed, NEW N,
         \A q \in listed \cup N : ptype[q] \in PartType,
         NEW L, L = (listed \ S) \cup N
  PROVE  PartsJSONAfter(S, L) = {q \in L : ptype[q] \in FileType}
<1> DEFINE files(T) == {q \in T : ptype[q] # "inmemory"}
<1> DEFINE P == PartsJSONAfter(S, L)
<1>1. files(L) = {q \in L : ptype[q] \in FileType}
  BY DEF PartType, FileType
<1>2. files(listed) = partsJSON
  BY DEF FileParts, OfType, PartType, FileType
<1>3. P = IF files(S) # {} \/ files(L) # files(listed) THEN files(L) ELSE partsJSON
  BY DEF PartsJSONAfter
<1> HIDE DEF files, P
<1>4. P = {q \in L : ptype[q] \in FileType}
  BY <1>1, <1>2, <1>3
<1> QED BY <1>4 DEF P

\* The new part takes the place of its sources in the lists and in parts.json.
LEMMA PartsMergeSwap ==
  ASSUME TypeOK, PartsInv, LockInv, LockInv', NEW w \in Worker, MergeSwap(w),
         src[w] \subseteq listed
  PROVE  PartsInv'
<1> USE DEF callers, readers
<1>0. /\ wpc[w] = "written" /\ todrop[w] = {} /\ src[w] \subseteq listed /\ Running
      /\ NewPart(w) \subseteq Part
      /\ \A q \in NewPart(w) : q = dst[w] /\ dst[w] # NoPart
  BY DEF MergeSwap, LockInv, ClaimCore, MergeShape, ClaimsAreDisjoint, CallerShape, NewPart, TypeOK
<1>1. /\ listed' = (listed \ src[w]) \cup NewPart(w)
      /\ UNCHANGED <<phase, ptype, refs, mustDrop, isInMerge, dir, held>>
      /\ partsJSON' = PartsJSONAfter(src[w] \cap listed, listed')
  BY DEF MergeSwap
<1>2. /\ dst'[w] = NoPart /\ todrop'[w] = src[w] /\ wpc'[w] = "dropping"
      /\ \A v \in Worker \ {w} : dst'[v] = dst[v] /\ todrop'[v] = todrop[v] /\ wpc'[v] = wpc[v]
  BY DEF MergeSwap, TypeOK
<1>3. \A p \in NewPart(w) :
        /\ p \notin listed \cup isInMerge \cup mustDrop \cup partsJSON
        /\ ptype[p] # "none" /\ (ptype[p] \in FileType => dir[p] = "complete")
        /\ \A v \in Worker \ {w} : dst[v] # p
        /\ \A r \in Reader : p \notin held[r]
  BY <1>0 DEF PartsInv, DstIsPrivate
<1>4. \A v \in Worker : todrop[v] \subseteq isInMerge /\ src[v] \subseteq isInMerge
  BY DEF LockInv, ClaimCore, MergeShape, ClaimsAreDisjoint
<1>5. \A q \in Part : HasOwner(q)' = HasOwner(q)
  <2>1. ASSUME NEW q \in Part, HasOwner(q) PROVE HasOwner(q)'
    <3>1. CASE q \in listed
      BY <3>1, <1>1, <1>2 DEF HasOwner
    <3>2. CASE \E v \in Worker : q \in todrop[v]
      BY <3>2, <1>0, <1>2 DEF HasOwner
    <3>3. CASE \E v \in Worker : wpc[v] = "written" /\ dst[v] = q
      BY <3>3, <1>1, <1>2, PartAssumption DEF HasOwner, NewPart
    <3> QED BY <2>1, <3>1, <3>2, <3>3 DEF HasOwner
  <2>2. ASSUME NEW q \in Part, HasOwner(q)' PROVE HasOwner(q)
    <3>1. CASE q \in listed'
      BY <3>1, <1>0, <1>1 DEF HasOwner
    <3>2. CASE \E v \in Worker : q \in todrop'[v]
      BY <3>2, <1>0, <1>2 DEF HasOwner
    <3>3. CASE \E v \in Worker : wpc'[v] = "written" /\ dst'[v] = q
      BY <3>3, <1>2 DEF HasOwner
    <3> QED BY <2>2, <3>1, <3>2, <3>3 DEF HasOwner
  <2> QED BY <2>1, <2>2 DEF HasOwner
<1>6. \A q : Holders(q)' = Holders(q)
  BY <1>1, HoldersStutter
<1>7. RefsAreExact'
  <2>1. ASSUME NEW q \in Part
        PROVE  (\E v \in Worker : wpc'[v] = "writing" /\ dst'[v] = q)
                 <=> \E v \in Worker : wpc[v] = "writing" /\ dst[v] = q
    BY <1>0, <1>2
  <2> QED BY <1>1, <1>5, <1>6, <2>1 DEF PartsInv, RefsAreExact
<1>8. PartsFileIsTrue'
  <2>1. partsJSON = FileParts /\ \A q \in partsJSON : dir[q] = "complete"
    BY <1>0 DEF PartsInv, PartsFileIsTrue
  <2>2. \A q \in listed \cup NewPart(w) : ptype[q] \in PartType
    BY <1>0, <1>3 DEF TypeOK, PartsInv, UsedPartsStayOpen, Usable
  <2>3. partsJSON' = {q \in listed' : ptype[q] \in FileType}
    <3>1. src[w] \cap listed = src[w] /\ src[w] \in SUBSET listed
      BY <1>0
    <3>2. PartsJSONAfter(src[w], listed') = {q \in listed' : ptype[q] \in FileType}
      BY <1>1, <2>1, <2>2, <3>1, PartsFileFollows
    <3> QED BY <1>1, <3>1, <3>2
  <2>4. partsJSON' = FileParts'
    BY <1>1, <2>3 DEF FileParts, OfType
  <2>5. \A q \in partsJSON' : dir[q] = "complete"
    BY <1>1, <1>3, <2>1, <2>3 DEF FileParts, OfType
  <2> QED BY <1>1, <2>4, <2>5 DEF PartsFileIsTrue
<1>9. DstIsPrivate'
  <2>1. ASSUME NEW v \in Worker \ {w}, dst[v] # NoPart
        PROVE  /\ dst[v] \notin listed' \cup isInMerge \cup mustDrop \cup partsJSON'
               /\ (\A r \in Reader : dst[v] \notin held[r]) /\ ptype[dst[v]] # "none"
               /\ \A u \in Worker \ {v} : dst'[u] # dst[v]
               /\ ptype[dst[v]] \in FileType =>
                    dir[dst[v]] = IF wpc[v] = "writing" THEN "partial" ELSE "complete"
    <3>1. dst[v] \notin listed'
      BY <1>1, <1>3, <2>1 DEF PartsInv, DstIsPrivate
    <3>2. dst[v] \notin partsJSON'
      BY <1>0, <1>1, <1>8, <3>1 DEF PartsFileIsTrue, FileParts, OfType, Running
    <3>3. \A u \in Worker \ {v} : dst'[u] # dst[v]
      BY <1>2, <2>1 DEF PartsInv, DstIsPrivate
    <3> QED BY <2>1, <3>1, <3>2, <3>3 DEF PartsInv, DstIsPrivate
  <2>2. ASSUME NEW v \in Worker, dst'[v] # NoPart
        PROVE  v # w /\ dst'[v] = dst[v] /\ wpc'[v] = wpc[v]
    BY <1>2, <2>2
  <2>3. UNCHANGED <<ptype, mustDrop, isInMerge, dir, held>>
    BY <1>1
  <2> QED BY <2>1, <2>2, <2>3 DEF DstIsPrivate
<1>10. DroppedPartsAreUnlisted'
  <2>1. \A v \in Worker : todrop'[v] \cap listed' = {}
    BY <1>0, <1>1, <1>2, <1>3, <1>4 DEF PartsInv, DroppedPartsAreUnlisted
  <2>2. \A r \in Reader : \A q \in held'[r] : HasOwner(q)' \/ q \in mustDrop'
    BY <1>1, <1>5 DEF PartsInv, DroppedPartsAreUnlisted, TypeOK
  <2> QED BY <1>1, <1>5, <1>6, <2>1, <2>2 DEF PartsInv, DroppedPartsAreUnlisted, TypeOK
<1>11. UsedPartsStayOpen'
  <2>1. \A q : Usable(q)' = Usable(q)
    BY <1>1 DEF Usable
  <2> QED BY <1>1, <1>3, <2>1, SourcesOpen DEF PartsInv, UsedPartsStayOpen, Usable
<1>12. DirsHaveParts'
  BY <1>1 DEF PartsInv, DirsHaveParts, Running
<1> QED BY <1>7, <1>8, <1>9, <1>10, <1>11, <1>12 DEF PartsInv

-----------------------------------------------------------------------------
(* Giving references back *)

\* What decRef() does to one part.
LEMMA DecRefOne ==
  ASSUME TypeOK, NEW p \in Part, NEW D, DecRef({p}, D)
  PROVE  /\ refs'[p] = refs[p] - 1
         /\ ptype'[p] = IF refs[p] = 1 THEN "none" ELSE ptype[p]
         /\ dir'[p] = IF refs[p] = 1 /\ p \in D /\ ptype[p] # "inmemory"
                     THEN "none" ELSE dir[p]
         /\ mustDrop' = IF refs[p] = 1 THEN D \ {p} ELSE D
         /\ \A q \in Part \ {p} : /\ refs'[q] = refs[q] /\ ptype'[q] = ptype[q]
                                  /\ dir'[q] = dir[q] /\ rows'[q] = rows[q]
BY DEF DecRef, TypeOK

\* One reference to p is given back: by the lists, when a merge has replaced p, or by
\* a reader. D are the parts with mustDrop set.
LEMMA PartsGiveBack ==
  ASSUME TypeOK, PartsInv, LockInv', Running,
         NEW p \in Part, NEW D, D = mustDrop \/ D = mustDrop \cup {p}, DecRef({p}, D),
         UNCHANGED <<phase, listed, isInMerge, partsJSON, dst>>,
         \A w \in Worker : todrop'[w] \subseteq todrop[w],
         \A w \in Worker : dst[w] # NoPart => wpc'[w] = wpc[w],
         \A w \in Worker : dst[w] # p,
         \A r \in Reader : held'[r] \subseteq held[r],
         \A q \in Part \ {p} : HasOwner(q)' = HasOwner(q) /\ Holders(q)' = Holders(q),
         HasOwner(p) \/ Holders(p) # {},
         refs'[p] = (IF HasOwner(p)' THEN 1 ELSE 0) + Cardinality(Holders(p)'),
         Cardinality(Holders(p)') \in Nat,
         Cardinality(Holders(p)') = 0 <=> Holders(p)' = {},
         HasOwner(p)' <=> p \notin D
  PROVE  PartsInv'
<1>1. /\ refs'[p] = refs[p] - 1
      /\ ptype'[p] = IF refs[p] = 1 THEN "none" ELSE ptype[p]
      /\ dir'[p] = IF refs[p] = 1 /\ p \in D /\ ptype[p] # "inmemory"
                  THEN "none" ELSE dir[p]
      /\ mustDrop' = IF refs[p] = 1 THEN D \ {p} ELSE D
  BY DecRefOne
<1>2. \A q \in Part \ {p} : refs'[q] = refs[q] /\ ptype'[q] = ptype[q] /\ dir'[q] = dir[q]
  BY DecRefOne
<1>3. refs[p] \in Int /\ ptype[p] # "none"
  BY DEF TypeOK, PartsInv, RefsAreExact
<1>4. refs[p] = 1 <=> ~HasOwner(p)' /\ Holders(p)' = {}
  BY <1>1, <1>3
<1>5. p \in listed => HasOwner(p)'
  BY DEF HasOwner
<1>6. \A r \in Reader : p \in held'[r] => Holders(p)' # {}
  BY DEF Holders
<1>7. RefsAreExact'
  <2>1. \A q \in Part \ {p} :
          (\E w \in Worker : wpc'[w] = "writing" /\ dst'[w] = q)
            <=> \E w \in Worker : wpc[w] = "writing" /\ dst[w] = q
    BY PartAssumption
  <2>2. \A q \in Part \ {p} :
          /\ refs'[q] = (IF HasOwner(q)' THEN 1 ELSE 0) + Cardinality(Holders(q)')
          /\ ptype'[q] # "none" <=> \/ HasOwner(q)' \/ Holders(q)' # {}
                                   \/ \E w \in Worker : wpc'[w] = "writing" /\ dst'[w] = q
    BY <1>2, <2>1 DEF PartsInv, RefsAreExact
  <2>3. ptype'[p] # "none" <=> \/ HasOwner(p)' \/ Holders(p)' # {}
                              \/ \E w \in Worker : wpc'[w] = "writing" /\ dst'[w] = p
    BY <1>1, <1>3, <1>4
  <2> QED BY <2>2, <2>3 DEF RefsAreExact
<1>8. DstIsPrivate'
  <2>1. \A w \in Worker : dst[w] # NoPart => dst[w] \in Part \ {p}
    BY DEF TypeOK
  <2>2. mustDrop' \subseteq mustDrop \cup {p}
    BY <1>1
  <2> QED BY <1>2, <2>1, <2>2 DEF PartsInv, DstIsPrivate
<1>9. DroppedPartsAreUnlisted'
  <2>1. \A q \in Part \ {p} : q \in mustDrop' <=> q \in mustDrop
    BY <1>1
  <2>2. p \in mustDrop' => ~HasOwner(p)' /\ Holders(p)' # {}
    BY <1>1, <1>4
  <2>3. \A r \in Reader : \A q \in held'[r] : HasOwner(q)' \/ q \in mustDrop'
    <3>1. ASSUME NEW r \in Reader, p \in held'[r] PROVE HasOwner(p)' \/ p \in mustDrop'
      BY <1>1, <1>4, <1>6, <3>1
    <3> QED BY <2>1, <3>1 DEF PartsInv, DroppedPartsAreUnlisted, TypeOK
  <2>4. mustDrop' \subseteq Part
    BY <1>1 DEF TypeOK
  <2> QED BY <2>1, <2>2, <2>3, <2>4 DEF PartsInv, DroppedPartsAreUnlisted
<1>10. UsedPartsStayOpen'
  <2>1. \A q \in Part \ {p} : Usable(q)' = Usable(q)
    BY <1>2 DEF Usable
  <2>2. p \in listed => Usable(p)'
    BY <1>1, <1>4, <1>5 DEF PartsInv, UsedPartsStayOpen, Usable
  <2>3. \A r \in Reader : p \in held'[r] => Usable(p)'
    BY <1>1, <1>4, <1>6 DEF PartsInv, UsedPartsStayOpen, Usable
  <2> QED BY <2>1, <2>2, <2>3, SourcesOpen DEF PartsInv, UsedPartsStayOpen, TypeOK
<1>11. DirsHaveParts'
  BY <1>1, <1>2, <1>4 DEF PartsInv, DirsHaveParts, Running, FileType
<1>12. PartsFileIsTrue'
  <2>1. FileParts' = FileParts
    BY <1>1, <1>2, <1>4, <1>5 DEF FileParts, OfType, TypeOK
  <2>2. p \in partsJSON => dir'[p] = dir[p]
    BY <1>1, <1>4, <1>5 DEF PartsInv, PartsFileIsTrue, FileParts, OfType
  <2> QED BY <1>2, <2>1, <2>2 DEF PartsInv, PartsFileIsTrue, Running, TypeOK
<1> QED BY <1>7, <1>8, <1>9, <1>10, <1>11, <1>12 DEF PartsInv

\* The lists give back their reference to a part a merge has replaced.
LEMMA PartsMergeDrop ==
  ASSUME TypeOK, PartsInv, LockInv, LockInv', NEW w \in Worker, MergeDrop(w)
  PROVE  PartsInv'
<1> USE DEF callers, readers
<1>0. PICK p \in todrop[w] :
        /\ DecRef({p}, mustDrop \cup {p})
        /\ todrop' = [todrop EXCEPT ![w] = @ \ {p}]
        /\ wpc' = [wpc EXCEPT ![w] = IF todrop[w] = {p} THEN "releasing" ELSE @]
  BY DEF MergeDrop
<1> p \in Part
  BY DEF TypeOK
<1>1. UNCHANGED <<phase, listed, isInMerge, partsJSON, dst, held>>
  BY DEF MergeDrop
<1>2. wpc[w] = "dropping" /\ dst[w] = NoPart /\ Running
  BY DEF MergeDrop, LockInv, ClaimCore, MergeShape, CallerShape
<1>3. \A v \in Worker \ {w} : wpc'[v] = wpc[v] /\ todrop'[v] = todrop[v]
  BY <1>0 DEF TypeOK
<1>4. todrop'[w] = todrop[w] \ {p} /\ wpc'[w] \in {"dropping", "releasing"}
  BY <1>0, <1>2 DEF TypeOK
<1>5. p \in isInMerge /\ p \notin listed /\ \A v \in Worker \ {w} : p \notin todrop[v]
  BY DEF LockInv, ClaimCore, MergeShape, ClaimsAreDisjoint, PartsInv, DroppedPartsAreUnlisted
<1>6. \A v \in Worker : dst[v] # p
  BY <1>5, PartAssumption DEF PartsInv, DstIsPrivate
<1>7. HasOwner(p) /\ ~HasOwner(p)'
  BY <1>1, <1>3, <1>4, <1>5, <1>6 DEF HasOwner
<1>8. \A q \in Part \ {p} : HasOwner(q)' = HasOwner(q)
  BY <1>1, <1>2, <1>3, <1>4 DEF HasOwner
<1>9. \A q : Holders(q)' = Holders(q)
  BY <1>1, HoldersStutter
<1>10. refs'[p] = Cardinality(Holders(p)')
  <2>1. refs'[p] = refs[p] - 1
    BY <1>0, DecRefOne
  <2>2. refs[p] = 1 + Cardinality(Holders(p)) /\ Cardinality(Holders(p)) \in Nat
    BY <1>7, HoldersCount DEF PartsInv, RefsAreExact
  <2> QED BY <1>9, <2>1, <2>2
<1>11. Cardinality(Holders(p)') \in Nat /\ (Cardinality(Holders(p)') = 0 <=> Holders(p)' = {})
  BY <1>9, HoldersCount
<1>12. \A v \in Worker : todrop'[v] \subseteq todrop[v]
  BY <1>3, <1>4
<1>13. \A v \in Worker : dst[v] # NoPart => wpc'[v] = wpc[v]
  BY <1>2, <1>3
<1> QED BY <1>0, <1>1, <1>2, <1>6, <1>7, <1>8, <1>9, <1>10, <1>11, <1>12, <1>13, PartsGiveBack

\* A search, or a snapshot, gives back one reference.
LEMMA PartsRelease ==
  ASSUME TypeOK, PartsInv, LockInv, LockInv', NEW r \in Reader, ReleaseOne(r)
  PROVE  PartsInv'
<1> USE DEF merges, callers
<1>0. PICK p \in held[r] : held' = [held EXCEPT ![r] = @ \ {p}] /\ DecRef({p}, mustDrop)
  BY DEF ReleaseOne
<1> p \in Part
  BY DEF TypeOK
<1>1. UNCHANGED <<phase, listed, isInMerge, partsJSON, dst, wpc, todrop>>
  BY DEF ReleaseOne
<1>2. Running
  BY DEF LockInv, ClaimCore, CallerShape
<1>3. \A w \in Worker : dst[w] # p
  BY PartAssumption DEF PartsInv, DstIsPrivate
<1>4. \A q \in Part : HasOwner(q)' = HasOwner(q)
  BY <1>1 DEF HasOwner
<1>5. held[r] \ {p} \in SUBSET Part /\ held' = [held EXCEPT ![r] = held[r] \ {p}]
  BY <1>0 DEF TypeOK
<1>6. ASSUME NEW q \in Part \ {p} PROVE Holders(q)' = Holders(q)
  BY <1>0 DEF Holders, TypeOK
<1>7. r \in Holders(p) /\ Holders(p)' = Holders(p) \ {r}
      /\ Cardinality(Holders(p)') = Cardinality(Holders(p)) - 1
  <2>1. Cardinality(Holders(p)) \in Nat
    BY HoldersCount
  <2>2. Cardinality(Holders(p)') = Cardinality(Holders(p)) + 0 - 1
        /\ Holders(p)' = Holders(p) \ {r}
    <3> DEFINE S == held[r] \ {p}
    <3>1. S \in SUBSET Part /\ held' = [held EXCEPT ![r] = S] /\ p \notin S /\ p \in held[r]
      BY <1>5
    <3> HIDE DEF S
    <3>2. /\ Holders(p)' = IF p \in S THEN Holders(p) \cup {r} ELSE Holders(p) \ {r}
          /\ Cardinality(Holders(p)') = Cardinality(Holders(p))
               + (IF p \in S THEN 1 ELSE 0) - (IF p \in held[r] THEN 1 ELSE 0)
      BY <3>1, HoldersChange
    <3> QED BY <3>1, <3>2
  <2> QED BY <2>1, <2>2 DEF Holders
<1>8. Cardinality(Holders(p)') \in Nat /\ (Cardinality(Holders(p)') = 0 <=> Holders(p)' = {})
  <2>1. IsFiniteSet(Holders(p)')
    BY <1>7, HoldersCount, FS_RemoveElement
  <2> QED BY <2>1, FS_CardinalityType, FS_EmptySet
<1>9. refs'[p] = (IF HasOwner(p)' THEN 1 ELSE 0) + Cardinality(Holders(p)')
  <2>1. refs'[p] = refs[p] - 1
    BY <1>0, DecRefOne
  <2>2. refs[p] = (IF HasOwner(p) THEN 1 ELSE 0) + Cardinality(Holders(p))
    BY DEF PartsInv, RefsAreExact
  <2> QED BY <1>4, <1>7, <1>8, <2>1, <2>2, HoldersCount
<1>10. HasOwner(p)' <=> p \notin mustDrop
  BY <1>4 DEF PartsInv, DroppedPartsAreUnlisted
<1>11. \A s \in Reader : held'[s] \subseteq held[s]
  BY <1>0 DEF TypeOK
<1> QED BY <1>0, <1>1, <1>2, <1>3, <1>4, <1>6, <1>7, <1>8, <1>9, <1>10, <1>11, PartsGiveBack

\* getPartsForTimeRange() and the snapshot take references to listed parts.
LEMMA PartsTake ==
  ASSUME TypeOK, PartsInv, LockInv', Running, NEW r \in Reader, held[r] = {},
         NEW S \in SUBSET listed, held' = [held EXCEPT ![r] = S], IncRef(S),
         UNCHANGED <<phase, listed, ptype, mustDrop, isInMerge, disk, dst, todrop, wpc>>
  PROVE  PartsInv'
<1> USE DEF disk
<1> S \in SUBSET Part
  BY DEF TypeOK
<1>1. \A q \in Part : HasOwner(q)' = HasOwner(q)
  BY DEF HasOwner
<1>2. \A q \in Part : /\ Holders(q)' = IF q \in S THEN Holders(q) \cup {r} ELSE Holders(q) \ {r}
                      /\ Cardinality(Holders(q)') = Cardinality(Holders(q))
                           + (IF q \in S THEN 1 ELSE 0) - (IF q \in held[r] THEN 1 ELSE 0)
  BY HoldersChange
<1>3. \A q \in Part : r \notin Holders(q) /\ Cardinality(Holders(q)) \in Nat
  BY HoldersCount DEF Holders
<1>4. \A q \in Part : refs'[q] = IF q \in S THEN refs[q] + 1 ELSE refs[q]
  BY DEF IncRef
<1>5. RefsAreExact'
  <2>1. ASSUME NEW q \in Part
        PROVE  refs'[q] = (IF HasOwner(q)' THEN 1 ELSE 0) + Cardinality(Holders(q)')
    <3>1. refs[q] = (IF HasOwner(q) THEN 1 ELSE 0) + Cardinality(Holders(q))
      BY DEF PartsInv, RefsAreExact
    <3>2. Cardinality(Holders(q)') = Cardinality(Holders(q)) + (IF q \in S THEN 1 ELSE 0)
      BY <1>2, <1>3
    <3> QED BY <1>1, <1>3, <1>4, <3>1, <3>2
  <2>2. ASSUME NEW q \in Part
        PROVE  ptype'[q] # "none" <=> \/ HasOwner(q)' \/ Holders(q)' # {}
                                     \/ \E w \in Worker : wpc'[w] = "writing" /\ dst'[w] = q
    <3>1. CASE q \in S
      BY <3>1, <1>1 DEF PartsInv, RefsAreExact, HasOwner
    <3>2. CASE q \notin S
      BY <3>2, <1>1, <1>2, <1>3 DEF PartsInv, RefsAreExact
    <3> QED BY <3>1, <3>2
  <2> QED BY <2>1, <2>2 DEF RefsAreExact
<1>6. DstIsPrivate'
  BY DEF PartsInv, DstIsPrivate, TypeOK
<1>7. DroppedPartsAreUnlisted'
  <2>1. \A q \in mustDrop : Holders(q)' # {}
    BY <1>2, <1>3 DEF PartsInv, DroppedPartsAreUnlisted, TypeOK
  <2>2. ASSUME NEW s \in Reader, NEW q \in held'[s] PROVE HasOwner(q)' \/ q \in mustDrop
    <3>1. CASE s = r
      BY <3>1 DEF HasOwner, TypeOK
    <3>2. CASE s # r
      BY <3>2, <1>1 DEF PartsInv, DroppedPartsAreUnlisted, TypeOK
    <3> QED BY <3>1, <3>2
  <2> QED BY <1>1, <2>1, <2>2 DEF PartsInv, DroppedPartsAreUnlisted, TypeOK
<1>8. UsedPartsStayOpen'
  <2>1. \A q : Usable(q)' = Usable(q)
    BY DEF Usable
  <2>2. \A s \in Reader : held'[s] \subseteq held[s] \cup listed
    BY DEF TypeOK
  <2> QED BY <2>1, <2>2, SourcesOpen DEF PartsInv, UsedPartsStayOpen
<1>9. DirsHaveParts' /\ PartsFileIsTrue'
  BY DEF PartsInv, DirsHaveParts, PartsFileIsTrue, FileParts, OfType, Running
<1> QED BY <1>5, <1>6, <1>7, <1>8, <1>9 DEF PartsInv

-----------------------------------------------------------------------------
(* Closing, crashing and opening *)

\* A datadb which doesn't run has no merges, readers and listed parts.
LEMMA NobodyThere ==
  ASSUME LockInv, ~Running
  PROVE  /\ listed = {} /\ \A r \in Reader : held[r] = {}
         /\ \A w \in Worker : wpc[w] = "idle" /\ dst[w] = NoPart /\ todrop[w] = {} /\ src[w] = {}
         /\ \A p : ~HasOwner(p) /\ Holders(p) = {}
<1>1. /\ listed = {} /\ \A r \in Reader : held[r] = {}
      /\ \A w \in Worker : wpc[w] = "idle" /\ dst[w] = NoPart /\ todrop[w] = {} /\ src[w] = {}
  BY DEF LockInv, ClaimCore, CallerShape, MergeShape
<1> QED BY <1>1 DEF HasOwner, Holders

\* mustCloseDatadb() meets nobody: only in the lists are parts left.
LEMMA OnlyListed ==
  ASSUME TypeOK, LockInv, phase = "final", AllMerged("closer")
  PROVE  /\ \A r \in Reader : held[r] = {}
         /\ \A w \in Worker : wpc[w] = "idle" /\ dst[w] = NoPart /\ todrop[w] = {} /\ src[w] = {}
         /\ \A p : (HasOwner(p) <=> p \in listed) /\ Holders(p) = {}
<1>1. \A r \in Reader : held[r] = {}
  BY DEF LockInv, ClaimCore, CallerShape
<1>2. ASSUME NEW w \in Worker PROVE wpc[w] = "idle"
  <2>1. owner[w] = "merger" \/ owner[w] = "closer"
    BY CallerAssumption DEF TypeOK, LockInv, ClaimCore, CallerShape, Owner, Caller
  <2> QED BY <2>1 DEF AllMerged, LockInv, ClaimCore, CallerShape
<1>3. \A w \in Worker : dst[w] = NoPart /\ todrop[w] = {} /\ src[w] = {}
  BY <1>2 DEF LockInv, ClaimCore, MergeShape
<1> QED BY <1>1, <1>2, <1>3 DEF HasOwner, Holders

\* The last step of mustCloseDatadb(), once no in-memory part is left.
LEMMA PartsCloseEnd ==
  ASSUME TypeOK, PartsInv, LockInv, LockInv', InmemoryParts = {}, CloseEnd
  PROVE  PartsInv'
<1> USE DEF merges, readers
<1>0. /\ phase = "final" /\ AllMerged("closer") /\ phase' = "closed" /\ listed' = {}
      /\ DecRef(FileParts, mustDrop)
      /\ UNCHANGED <<isInMerge, partsJSON, wpc, dst, todrop, held>>
  BY DEF CloseEnd
<1>1. /\ \A r \in Reader : held[r] = {}
      /\ \A w \in Worker : wpc[w] = "idle" /\ dst[w] = NoPart /\ todrop[w] = {}
      /\ \A p : (HasOwner(p) <=> p \in listed) /\ Holders(p) = {}
  BY <1>0, OnlyListed
<1>2. FileParts = listed
  BY DEF FileParts, InmemoryParts, OfType, PartsInv, UsedPartsStayOpen, Usable, TypeOK,
         PartType, FileType
<1>3. \A p \in Part : refs[p] = IF p \in listed THEN 1 ELSE 0
  BY <1>1, HoldersCount DEF PartsInv, RefsAreExact
<1>4. mustDrop = {}
  BY <1>1 DEF PartsInv, DroppedPartsAreUnlisted
<1>5. \A p \in Part : refs'[p] = 0 /\ dir'[p] = dir[p] /\ ptype'[p] = "none"
  <2>1. \A p \in Part : ptype[p] # "none" => p \in listed
    BY <1>1 DEF PartsInv, RefsAreExact
  <2> QED BY <1>0, <1>2, <1>3, <1>4, <2>1 DEF DecRef
<1>6. mustDrop' = {}
  BY <1>0, <1>4 DEF DecRef
<1>7. \A p : ~HasOwner(p)' /\ Holders(p)' = {}
  BY <1>0, <1>1 DEF HasOwner, Holders
<1>8. RefsAreExact'
  <2>1. \A p : Cardinality(Holders(p)') = 0
    BY <1>7, FS_EmptySet
  <2> QED BY <1>0, <1>1, <1>5, <1>7, <2>1 DEF RefsAreExact
<1>9. DstIsPrivate' /\ DroppedPartsAreUnlisted'
  BY <1>0, <1>1, <1>6 DEF DstIsPrivate, DroppedPartsAreUnlisted
<1>10. UsedPartsStayOpen'
  BY <1>0, <1>1 DEF UsedPartsStayOpen
<1>11. DirsHaveParts' /\ PartsFileIsTrue'
  BY <1>0, <1>5 DEF PartsInv, DirsHaveParts, PartsFileIsTrue, Running, TypeOK
<1> QED BY <1>8, <1>9, <1>10, <1>11 DEF PartsInv

\* The process dies when parts.json names complete directories.
LEMMA PartsLost ==
  ASSUME TypeOK, PartsInv, LoseMemory, ~Running', UNCHANGED dir,
         \A p \in partsJSON' : dir[p] = "complete"
  PROVE  PartsInv'
<1>1. /\ mustDrop' = {}
      /\ \A p \in Part : refs'[p] = 0 /\ ptype'[p] = "none"
  BY DEF LoseMemory
<1>2. /\ listed' = {} /\ \A r \in Reader : held'[r] = {}
      /\ \A w \in Worker : wpc'[w] = "idle" /\ dst'[w] = NoPart /\ todrop'[w] = {}
  BY DEF LoseMemory
<1>3. \A p : ~HasOwner(p)' /\ Holders(p)' = {}
  BY <1>2 DEF HasOwner, Holders
<1>4. RefsAreExact'
  <2>1. \A p : Cardinality(Holders(p)') = 0
    BY <1>3, FS_EmptySet
  <2> QED BY <1>1, <1>2, <1>3, <2>1 DEF RefsAreExact
<1>5. DstIsPrivate' /\ DroppedPartsAreUnlisted'
  BY <1>1, <1>2 DEF DstIsPrivate, DroppedPartsAreUnlisted
<1>6. UsedPartsStayOpen'
  BY <1>2 DEF UsedPartsStayOpen
<1>7. DirsHaveParts' /\ PartsFileIsTrue'
  BY <1>1 DEF PartsInv, DirsHaveParts, PartsFileIsTrue
<1> QED BY <1>4, <1>5, <1>6, <1>7 DEF PartsInv

\* A crash leaves the disk alone.
LEMMA PartsCrash ==
  ASSUME TypeOK, PartsInv, Crash
  PROVE  PartsInv'
<1>1. LoseMemory /\ ~Running' /\ UNCHANGED <<dir, partsJSON>>
  BY DEF Crash, Running, disk
<1>2. \A p \in partsJSON : dir[p] = "complete"
  BY DEF PartsInv, PartsFileIsTrue
<1> QED BY <1>1, <1>2, PartsLost

\* mustOpenDatadb() opens what parts.json names and removes everything else.
LEMMA PartsOpen ==
  ASSUME TypeOK, PartsInv, LockInv, LockInv', Open
  PROVE  PartsInv'
<1> USE DEF merges, callers, readers
<1>0. PICK B \in SUBSET partsJSON :
        ptype' = [p \in Part |-> IF p \in B THEN "big"
                                 ELSE IF p \in partsJSON THEN "small" ELSE "none"]
  BY DEF Open
<1>1. /\ listed' = partsJSON /\ Running'
      /\ refs' = [p \in Part |-> IF p \in partsJSON THEN 1 ELSE 0]
      /\ dir' = [p \in Part |-> IF p \in UnusedDirs THEN "none" ELSE dir[p]]
      /\ UNCHANGED <<mustDrop, partsJSON, wpc, dst, todrop, held>>
  BY DEF Open, Running
<1>2. /\ \A r \in Reader : held[r] = {}
      /\ \A w \in Worker : wpc[w] = "idle" /\ dst[w] = NoPart /\ todrop[w] = {}
      /\ \A p : Holders(p) = {}
  <2>1. ~Running
    BY DEF Open, Running
  <2> QED BY <2>1, NobodyThere
<1>3. \A p \in partsJSON : p \in Part /\ dir[p] = "complete"
  BY DEF TypeOK, PartsInv, PartsFileIsTrue
<1>4. \A p \in Part : /\ dir'[p] = IF p \in partsJSON THEN "complete" ELSE "none"
                      /\ ptype'[p] \in FileType <=> p \in partsJSON
                      /\ ptype'[p] # "none" <=> p \in partsJSON
                      /\ refs'[p] = IF p \in partsJSON THEN 1 ELSE 0
  BY <1>0, <1>1, <1>3 DEF UnusedDirs, FileType
<1>5. mustDrop = {}
  BY <1>2 DEF PartsInv, DroppedPartsAreUnlisted
<1>6. \A p : (HasOwner(p)' <=> p \in partsJSON) /\ Holders(p)' = {}
  BY <1>1, <1>2 DEF HasOwner, Holders
<1>7. RefsAreExact'
  <2>1. \A p : Cardinality(Holders(p)') = 0
    BY <1>6, FS_EmptySet
  <2> QED BY <1>1, <1>2, <1>4, <1>6, <2>1 DEF RefsAreExact
<1>8. DstIsPrivate' /\ DroppedPartsAreUnlisted'
  BY <1>1, <1>2, <1>5 DEF DstIsPrivate, DroppedPartsAreUnlisted
<1>9. UsedPartsStayOpen'
  BY <1>1, <1>2, <1>3, <1>4 DEF UsedPartsStayOpen, Usable
<1>10. DirsHaveParts'
  BY <1>4 DEF DirsHaveParts
<1>11. PartsFileIsTrue'
  BY <1>1, <1>3, <1>4 DEF PartsFileIsTrue, FileParts, OfType
<1> QED BY <1>7, <1>8, <1>9, <1>10, <1>11 DEF PartsInv

-----------------------------------------------------------------------------
(* In-memory parts and flushes *)

\* A step keeps DstTypeFits if it leaves alone the running merges which create an
\* in-memory part, and turns none of them into a flush.
LEMMA DstTypeKept ==
  ASSUME DstTypeFits,
         \A w \in Worker : dst'[w] # NoPart /\ ptype'[dst'[w]] = "inmemory" =>
           /\ dst'[w] = dst[w] /\ ptype[dst[w]] = "inmemory"
           /\ src'[w] = src[w] /\ \A p \in src[w] : ptype'[p] = ptype[p]
           /\ owner'[w] = owner[w]
           /\ owner[w] \in Caller /\ cpc'[owner[w]] = "flushing" => cpc[owner[w]] = "flushing"
  PROVE  DstTypeFits'
BY DEF DstTypeFits, IsFinal

\* While a merge has a destination part, its sources are open, and differ from it.
LEMMA DstNeedsSources ==
  ASSUME TypeOK, LockInv, PartsInv, NEW w \in Worker, dst[w] # NoPart
  PROVE  /\ wpc[w] \in {"writing", "written"}
         /\ \A q \in src[w] : q \in Part /\ ptype[q] # "none" /\ \A v \in Worker : dst[v] # q
<1>1. wpc[w] \in {"writing", "written"}
  BY DEF LockInv, ClaimCore, MergeShape, TypeOK
<1>2. ASSUME NEW q \in src[w] PROVE q \in listed \/ \E r \in Reader : q \in held[r]
  BY <1>1 DEF LockInv, SourcesKept, Unswapped, Holders
<1>3. \A q \in src[w] : q \in Part /\ ptype[q] # "none"
  BY <1>2 DEF TypeOK, PartsInv, UsedPartsStayOpen, Usable
<1>4. \A q \in src[w], v \in Worker : dst[v] # q
  BY <1>2, <1>3, PartAssumption DEF PartsInv, DstIsPrivate
<1> QED BY <1>1, <1>3, <1>4

\* The same in the next state.
LEMMA SourcesStayOpen ==
  ASSUME LockInv', PartsInv', NEW w \in Worker, wpc'[w] \in {"writing", "written"}
  PROVE  \A q \in src'[w] : ptype'[q] # "none"
<1>1. ASSUME NEW q \in src'[w] PROVE q \in listed' \/ \E r \in Reader : q \in held'[r]
  BY <1>1 DEF LockInv, SourcesKept, Unswapped, Holders
<1> QED BY <1>1 DEF PartsInv, UsedPartsStayOpen, Usable

\* A caller which starts to flush has no merges yet.
LEMMA FlushesAreNew ==
  ASSUME TypeOK, LockInv, DstTypeFits, NEW c \in Caller, cpc[c] = "idle", NEW pc,
         cpc' = [cpc EXCEPT ![c] = pc], UNCHANGED <<ptype, merges>>
  PROVE  DstTypeFits'
<1> USE DEF merges
<1>1. \A w \in Worker : owner[w] \in Caller => owner[w] # c
  BY DEF LockInv, ClaimCore, CallerShape
<1> QED BY <1>1, DstTypeKept DEF TypeOK

\* Writing or giving up the destination part doesn't matter to other merges.
LEMMA DstTypeWrite ==
  ASSUME TypeOK, LockInv, PartsInv, DstTypeFits, NEW w \in Worker, NEW R, NEW stop,
         MergeWriteRows(w, R, stop) \/ MergeStop(w, stop)
  PROVE  DstTypeFits'
<1> USE DEF callers
<1>1. PICK p \in Part : dst[w] = p
  BY DEF MergeWriteRows, MergeStop, LockInv, ClaimCore, MergeShape
<1>2. \A v \in Worker \ {w} : dst[v] # p
  BY <1>1, PartAssumption DEF PartsInv, DstIsPrivate
<1>3. UNCHANGED <<src, owner, cpc>>
  BY DEF MergeWriteRows, MergeStop
<1>4. CASE UNCHANGED <<ptype, dst>>
  BY <1>3, <1>4, DstTypeKept
<1>5. CASE ptype' = [ptype EXCEPT ![p] = "none"] /\ dst' = [dst EXCEPT ![w] = NoPart]
  <2>1. \A q : q # p => ptype'[q] = ptype[q]
    BY <1>5 DEF TypeOK
  <2>2. dst'[w] = NoPart /\ \A v \in Worker \ {w} : dst'[v] = dst[v]
    BY <1>5 DEF TypeOK
  <2>3. \A v \in Worker : dst[v] # NoPart => p \notin src[v]
    BY <1>1, DstNeedsSources
  <2> QED BY <1>2, <1>3, <2>1, <2>2, <2>3, DstTypeKept
<1> QED BY <1>1, <1>4, <1>5 DEF MergeWriteRows, MergeStop

\* getDstPartType() chooses the type when the merge starts, and nothing which matters to
\* the choice changes until the swap.
LEMMA DstTypeNext ==
  ASSUME TypeOK, LockInv, PartsInv, DstTypeFits, LockInv', PartsInv', [Next]_vars
  PROVE  DstTypeFits'
<1> USE DEF disk, parts, merges, callers, readers
<1>1. ASSUME NEW p \in Fresh, NEW R, NewInmemoryPart(p, R), UNCHANGED <<merges, cpc>>
      PROVE  DstTypeFits'
  <2>1. p \in Part /\ ptype[p] = "none" /\ \A w \in Worker : dst[w] # p
    BY ClosedPart DEF Fresh
  <2>2. \A q : q # p => ptype'[q] = ptype[q]
    BY <1>1 DEF NewInmemoryPart, TypeOK
  <2> QED BY <1>1, <2>1, <2>2, DstNeedsSources, DstTypeKept
<1>2. ASSUME NEW s \in Shard, FlushRows(s) PROVE DstTypeFits'
  BY <1>1, <1>2 DEF FlushRows
<1>3. ASSUME NEW s \in Shard, NEW R \in SUBSET Row, AddRows(s, R) PROVE DstTypeFits'
  <2>1. CASE UNCHANGED parts
    BY <1>3, <2>1, DstTypeKept DEF AddRows
  <2> QED BY <1>1, <1>3, <2>1 DEF AddRows
<1>4. ASSUME UNCHANGED <<ptype, owner, src, dst, cpc>> PROVE DstTypeFits'
  BY <1>4, DstTypeKept
<1>5. ASSUME NEW w \in Worker, MergerPick(w) PROVE DstTypeFits'
  <2>1. dst[w] = NoPart
    BY <1>5 DEF MergerPick, LockInv, ClaimCore, MergeShape
  <2> QED BY <1>5, <2>1, DstTypeKept DEF MergerPick, TypeOK
<1>6. ASSUME NEW c \in Caller, NEW w \in Worker, SpawnMerge(c, w) PROVE DstTypeFits'
  <2>1. dst[w] = NoPart
    BY <1>6 DEF SpawnMerge, LockInv, ClaimCore, MergeShape
  <2>2. UNCHANGED <<ptype, dst, cpc>>
    BY <1>6 DEF SpawnMerge
  <2>3. \A v \in Worker \ {w} : src'[v] = src[v] /\ owner'[v] = owner[v]
    BY <1>6 DEF SpawnMerge, TypeOK
  <2> QED BY <2>1, <2>2, <2>3, DstTypeKept
<1>7. ASSUME NEW w \in Worker, MergeStep(w) PROVE DstTypeFits'
  <2>1. CASE MergeStart(w)
    <3>1. PICK t \in DstTypes(w), p \in Fresh :
            dst' = [dst EXCEPT ![w] = p] /\ ptype' = [ptype EXCEPT ![p] = t]
      BY <2>1 DEF MergeStart
    <3>2. p \in Part /\ ptype[p] = "none" /\ \A v \in Worker : dst[v] # p
      BY ClosedPart DEF Fresh
    <3>3. \A q \in src[w] : ptype[q] # "none"
      BY <2>1 DEF MergeStart, PartsInv, UsedPartsStayOpen, Usable
    <3>4. \A q : q # p => ptype'[q] = ptype[q]
      BY <3>1 DEF TypeOK
    <3>5. dst'[w] = p /\ ptype'[p] = t /\ \A v \in Worker \ {w} : dst'[v] = dst[v]
      BY <3>1, <3>2 DEF TypeOK
    <3>6. UNCHANGED <<src, owner, cpc>>
      BY <2>1 DEF MergeStart
    <3>7. t = "inmemory" => ~IsFinal(w)' /\ \A q \in src[w] : ptype'[q] = "inmemory"
      BY <3>2, <3>3, <3>4, <3>6 DEF DstTypes, FileType, IsFinal
    <3>8. ASSUME NEW v \in Worker \ {w}, dst[v] # NoPart, ptype'[dst[v]] = "inmemory"
          PROVE  ~IsFinal(v)' /\ \A q \in src[v] : ptype'[q] = "inmemory"
      BY <3>2, <3>4, <3>6, <3>8, DstNeedsSources DEF DstTypeFits, IsFinal
    <3> QED BY <3>5, <3>6, <3>7, <3>8 DEF DstTypeFits
  <2>2. CASE MergeNoSpace(w)
    BY <1>4, <2>2 DEF MergeNoSpace
  <2>3. CASE MergeWrite(w) \/ MergeInterrupt(w)
    BY <2>3, DstTypeWrite DEF MergeWrite, MergeInterrupt
  <2>4. CASE MergeSwap(w)
    BY <2>4, DstTypeKept DEF MergeSwap, TypeOK
  <2>5. CASE MergeDrop(w)
    <3>1. PICK p \in todrop[w] : DecRef({p}, mustDrop \cup {p})
      BY <2>5 DEF MergeDrop
    <3>2. p \in Part /\ p \in src[w] /\ p \in isInMerge /\ dst[w] = NoPart
      BY <2>5 DEF MergeDrop, TypeOK, LockInv, ClaimCore, MergeShape, ClaimsAreDisjoint
    <3>3. \A v \in Worker : dst[v] # p /\ (v # w => p \notin src[v])
      BY <3>2, PartAssumption DEF PartsInv, DstIsPrivate, LockInv, ClaimCore, ClaimsAreDisjoint
    <3>4. \A q \in Part \ {p} : ptype'[q] = ptype[q]
      BY <3>1, <3>2, DecRefOne
    <3>5. UNCHANGED <<src, dst, owner, cpc>>
      BY <2>5 DEF MergeDrop
    <3> QED BY <3>2, <3>3, <3>4, <3>5, DstNeedsSources, DstTypeKept DEF TypeOK
  <2>6. CASE MergeRelease(w)
    <3>1. dst[w] = NoPart
      BY <2>6 DEF MergeRelease, LockInv, ClaimCore, MergeShape
    <3>2. \A v \in Worker \ {w} : src'[v] = src[v] /\ owner'[v] = owner[v]
      BY <2>6 DEF MergeRelease, TypeOK
    <3>3. UNCHANGED <<ptype, dst, cpc>>
      BY <2>6 DEF MergeRelease
    <3> QED BY <3>1, <3>2, <3>3, DstTypeKept
  <2> QED BY <1>7, <2>1, <2>2, <2>3, <2>4, <2>5, <2>6 DEF MergeStep
<1>8. ASSUME NEW c \in Caller, NEW pc, pc # "flushing", cpc' = [cpc EXCEPT ![c] = pc],
             UNCHANGED <<ptype, merges>>
      PROVE  DstTypeFits'
  BY <1>8, DstTypeKept DEF TypeOK
<1>9. CASE FlusherTick \/ FlusherDone
  <2> "flusher" \in Caller
    BY DEF Caller
  <2>1. CASE FlusherTick
    BY <2>1, FlushesAreNew DEF FlusherTick
  <2>2. CASE FlusherDone
    BY <2>2, <1>8 DEF FlusherDone
  <2> QED BY <1>9, <2>1, <2>2
<1>10. ASSUME NEW f \in Forcer, ForceStart(f) \/ ForceCollect(f) \/ ForceDone(f)
       PROVE DstTypeFits'
  <2> f \in Caller
    BY DEF Caller
  <2>1. CASE ForceStart(f)
    BY <2>1, FlushesAreNew DEF ForceStart
  <2>2. CASE ForceCollect(f) \/ ForceDone(f)
    BY <2>2, <1>8 DEF ForceCollect, ForceDone
  <2> QED BY <1>10, <2>1, <2>2
<1>11. ASSUME NEW r \in Reader, ReleaseOne(r) PROVE DstTypeFits'
  <2>1. PICK p \in held[r] : DecRef({p}, mustDrop) /\ held' = [held EXCEPT ![r] = @ \ {p}]
    BY <1>11 DEF ReleaseOne
  <2>2. p \in Part /\ UNCHANGED <<src, dst, owner, cpc>>
    BY <1>11 DEF ReleaseOne, TypeOK
  <2>3. \A v \in Worker : dst[v] # p
    BY <2>2, PartAssumption DEF PartsInv, DstIsPrivate
  <2>4. \A q \in Part \ {p} : ptype'[q] = ptype[q]
    BY <2>1, <2>2, DecRefOne
  <2>5. ptype'[p] = ptype[p] \/ ptype'[p] = "none"
    BY <2>1, <2>2, DecRefOne
  <2>6. UNCHANGED wpc
    BY <1>11 DEF ReleaseOne
  <2> QED BY <2>2, <2>3, <2>4, <2>5, <2>6, DstNeedsSources, SourcesStayOpen, DstTypeKept DEF TypeOK
<1>12. ASSUME NEW s \in Snapshotter, \/ SnapshotStart(s) \/ SnapshotGrab(s) \/ SnapshotLink(s)
                                     \/ SnapshotLinked(s) \/ SnapshotDone(s)
       PROVE DstTypeFits'
  <2> s \in Caller
    BY DEF Caller
  <2>1. CASE SnapshotStart(s)
    BY <2>1, FlushesAreNew DEF SnapshotStart
  <2>2. CASE SnapshotGrab(s) \/ SnapshotLinked(s) \/ SnapshotDone(s)
    BY <2>2, <1>8 DEF SnapshotGrab, SnapshotLinked, SnapshotDone
  <2>3. CASE SnapshotLink(s)
    BY <2>3, <1>4 DEF SnapshotLink
  <2> QED BY <1>12, <2>1, <2>2, <2>3
<1>13. CASE CloseFinalFlush
  <2>1. "closer" \in Caller /\ cpc["closer"] = "idle"
    BY <1>13 DEF Caller, CloseFinalFlush, LockInv, ClaimCore, CallerShape
  <2> QED BY <1>13, <2>1, FlushesAreNew DEF CloseFinalFlush
<1>14. CASE CloseEnd
  <2>1. \A w \in Worker : dst[w] = NoPart
    BY <1>14, OnlyListed DEF CloseEnd
  <2> QED BY <1>14, <2>1 DEF CloseEnd, DstTypeFits
<1>15. CASE Crash
  BY <1>15 DEF Crash, LoseMemory, DstTypeFits
<1>16. CASE Open
  <2>1. \A w \in Worker : dst[w] = NoPart
    BY <1>16, NobodyThere DEF Open, Running
  <2> QED BY <1>16, <2>1 DEF Open, DstTypeFits
<1>17. ASSUME NEW p \in Part, DeadlinePasses(p) PROVE DstTypeFits'
  BY <1>4, <1>17 DEF DeadlinePasses
<1>18. ASSUME NEW w \in Worker, MergerStart(w) \/ MergerGiveUp(w) PROVE DstTypeFits'
  BY <1>4, <1>18 DEF MergerStart, MergerGiveUp
<1>19. ASSUME NEW q \in Query, QueryStart(q) PROVE DstTypeFits'
  BY <1>4, <1>19 DEF QueryStart
<1>20. CASE CloseBegin \/ CloseStop
  BY <1>4, <1>20 DEF CloseBegin, CloseStop
<1>21. CASE UNCHANGED vars
  BY <1>4, <1>21 DEF vars
<1> QED
  BY <1>2, <1>3, <1>5, <1>6, <1>7, <1>9, <1>10, <1>11, <1>12, <1>13, <1>14, <1>15, <1>16,
     <1>17, <1>18, <1>19, <1>20, <1>21
  DEF Next, Reader, QueryRelease, SnapshotRelease

\* Whoever still merges after the final flush began does it for mustCloseDatadb().
LEMMA FinalMerges ==
  ASSUME TypeOK, LockInv, FinalFlushTakesAll, phase = "final", NEW w \in Worker, wpc[w] # "idle"
  PROVE  owner[w] = "closer" /\ IsFinal(w)
<1>1. owner[w] = "closer"
  BY CallerAssumption DEF TypeOK, LockInv, ClaimCore, CallerShape, Owner, Caller
<1> QED BY <1>1 DEF IsFinal, FinalFlushTakesAll, Caller

\* mustCloseDatadb() finds no in-memory part after its flush.
LEMMA NothingInMemory ==
  ASSUME TypeOK, LockInv, FinalFlushTakesAll, phase = "final", AllMerged("closer")
  PROVE  InmemoryParts = {}
<1>1. \A w \in Worker : wpc[w] = "idle"
  BY OnlyListed
<1> QED BY <1>1 DEF FinalFlushTakesAll, AllMerged, Unswapped

\* The final flush claims what is in memory, and gives nothing up.
LEMMA FinalFlushNext ==
  ASSUME TypeOK, LockInv, PartsInv, FlushInv, CloseFinalFlush => FlagsHaveOwners, [Next]_vars
  PROVE  FinalFlushTakesAll'
<1> SUFFICES ASSUME phase' = "final" PROVE FinalFlushTakesAll'
  BY DEF FinalFlushTakesAll
<1> DstTypeFits /\ FinalFlushTakesAll
  BY DEF FlushInv
<1> USE DEF disk, parts, merges, callers, readers
<1>1. ASSUME phase = "final",
             NEW U \in SUBSET Part,
             InmemoryParts' \subseteq InmemoryParts \ U,
             claim["closer"] \subseteq claim'["closer"] \cup UNION {src'[w] : w \in Unswapped'},
             \A w \in Unswapped : (w \in Unswapped' /\ src'[w] = src[w]) \/ src[w] \subseteq U,
             cpc'["closer"] = cpc["closer"]
      PROVE  FinalFlushTakesAll'
  <2>1. ASSUME NEW p \in InmemoryParts'
        PROVE  p \in claim'["closer"] \cup UNION {src'[w] : w \in Unswapped'}
    <3>1. p \in InmemoryParts /\ p \notin U
      BY <1>1
    <3>2. CASE p \in claim["closer"]
      BY <1>1, <3>2
    <3>3. CASE \E w \in Unswapped : p \in src[w]
      BY <1>1, <3>1, <3>3
    <3> QED BY <1>1, <3>1, <3>2, <3>3 DEF FinalFlushTakesAll
  <2> QED BY <1>1, <2>1 DEF FinalFlushTakesAll
<1>2. ASSUME phase = "final",
             InmemoryParts' \subseteq InmemoryParts,
             claim["closer"] \subseteq claim'["closer"] \cup UNION {src'[w] : w \in Unswapped'},
             \A w \in Unswapped : w \in Unswapped' /\ src'[w] = src[w],
             cpc'["closer"] = cpc["closer"]
      PROVE  FinalFlushTakesAll'
  <2>1. InmemoryParts' \subseteq InmemoryParts \ {} /\ {} \in SUBSET Part
    BY <1>2
  <2>2. \A w \in Unswapped : (w \in Unswapped' /\ src'[w] = src[w]) \/ src[w] \subseteq {}
    BY <1>2
  <2> QED BY <1>1, <1>2, <2>1, <2>2
<1>3. CASE CloseFinalFlush
  <2>1. \A c \in Caller : claim[c] = {}
    <3>1. cpc["closer"] = "idle"
      BY <1>3 DEF CloseFinalFlush, LockInv, ClaimCore, CallerShape
    <3> QED BY <1>3, <3>1 DEF CloseFinalFlush, LockInv, ClaimCore, CallerShape, Caller
  <2>2. \A w \in Worker : src[w] = {}
    BY <1>3 DEF CloseFinalFlush, LockInv, ClaimCore, MergeShape
  <2>3. isInMerge = {}
    BY <1>3, <2>1, <2>2 DEF FlagsHaveOwners
  <2>4. ToFlush(TRUE) = InmemoryParts
    BY <2>3 DEF ToFlush
  <2>5. InmemoryParts' = InmemoryParts
    BY <1>3 DEF CloseFinalFlush, InmemoryParts, OfType
  <2>6. claim'["closer"] = InmemoryParts /\ cpc'["closer"] = "flushing"
    BY <1>3, <2>4 DEF CloseFinalFlush, Claim, TypeOK, Caller
  <2> QED BY <2>5, <2>6 DEF FinalFlushTakesAll
<1>4. ASSUME NEW c \in Caller, NEW w \in Worker, SpawnMerge(c, w) PROVE FinalFlushTakesAll'
  <2>1. phase = "final" /\ UNCHANGED <<listed, ptype, cpc>>
    BY <1>4 DEF SpawnMerge
  <2>2. PICK S \in SUBSET claim[c] :
          claim' = [claim EXCEPT ![c] = @ \ S] /\ src' = [src EXCEPT ![w] = S]
    BY <1>4 DEF SpawnMerge
  <2>3. wpc[w] = "idle" /\ wpc'[w] = "claimed" /\ \A v \in Worker \ {w} : wpc'[v] = wpc[v]
    BY <1>4 DEF SpawnMerge, TypeOK
  <2>4. src'[w] = S /\ \A v \in Worker \ {w} : src'[v] = src[v]
    BY <2>2 DEF TypeOK
  <2>5. claim["closer"] \subseteq claim'["closer"] \cup S
    BY <2>2 DEF TypeOK, Caller
  <2>6. w \in Unswapped' /\ \A v \in Unswapped : v # w /\ v \in Unswapped'
    BY <2>3 DEF Unswapped
  <2>7. \A v \in Unswapped : src'[v] = src[v]
    BY <2>4, <2>6 DEF Unswapped
  <2>8. InmemoryParts' = InmemoryParts
    BY <2>1 DEF InmemoryParts, OfType
  <2>9. claim["closer"] \subseteq claim'["closer"] \cup UNION {src'[v] : v \in Unswapped'}
    BY <2>4, <2>5, <2>6
  <2> QED BY <1>2, <2>1, <2>6, <2>7, <2>8, <2>9
<1>5. ASSUME NEW w \in Worker, MergeStep(w) PROVE FinalFlushTakesAll'
  <2>1. phase = "final" /\ UNCHANGED <<claim, cpc>>
    BY <1>5 DEF MergeStep, MergeStart, MergeNoSpace, MergeWrite, MergeWriteRows, MergeInterrupt,
                MergeStop, MergeSwap, MergeDrop, MergeRelease
  <2>2. wpc[w] # "idle" => IsFinal(w)
    BY <2>1, FinalMerges
  <2>3. CASE MergeStart(w)
    <3>1. PICK p \in Fresh, t \in DstTypes(w) : ptype' = [ptype EXCEPT ![p] = t]
      BY <2>3 DEF MergeStart
    <3>2. p \notin listed
      BY ClosedPart DEF Fresh
    <3>3. InmemoryParts' = InmemoryParts
      BY <2>3, <3>1, <3>2 DEF MergeStart, InmemoryParts, OfType, TypeOK
    <3>4. Unswapped' = Unswapped /\ src' = src
      BY <2>3 DEF MergeStart, Unswapped, TypeOK
    <3> QED BY <1>2, <2>1, <3>3, <3>4
  <2>4. CASE MergeNoSpace(w)
    BY <2>2, <2>4 DEF MergeNoSpace
  <2>5. CASE MergeWrite(w)
    <3>1. PICK p \in Part : dst[w] = p
      BY <2>5 DEF MergeWrite, MergeWriteRows, LockInv, ClaimCore, MergeShape
    <3>2. p \notin listed
      BY <3>1, PartAssumption DEF PartsInv, DstIsPrivate
    <3>3. \A q \in Part \ {p} : ptype'[q] = ptype[q]
      BY <2>5, <3>1 DEF MergeWrite, MergeWriteRows, TypeOK
    <3>4. InmemoryParts' = InmemoryParts
      BY <2>5, <3>2, <3>3 DEF MergeWrite, MergeWriteRows, InmemoryParts, OfType, TypeOK
    <3>5. Unswapped' = Unswapped /\ src' = src
      BY <2>5 DEF MergeWrite, MergeWriteRows, Unswapped, TypeOK
    <3> QED BY <1>2, <2>1, <3>4, <3>5
  <2>6. CASE MergeInterrupt(w)
    BY <2>2, <2>6 DEF MergeInterrupt, MergeStop
  <2>7. CASE MergeSwap(w)
    <3>1. listed' = (listed \ src[w]) \cup NewPart(w) /\ UNCHANGED <<ptype, src>>
      BY <2>7 DEF MergeSwap
    <3>2. \A p \in NewPart(w) : ptype[p] # "inmemory"
      BY <2>2, <2>7 DEF MergeSwap, NewPart, DstTypeFits
    <3>3. InmemoryParts' \subseteq InmemoryParts \ src[w]
      BY <3>1, <3>2 DEF InmemoryParts, OfType
    <3>4. \A v \in Unswapped : v \in Unswapped' \/ v = w
      BY <2>7 DEF MergeSwap, Unswapped, TypeOK
    <3>5. src[w] \in SUBSET Part
      BY DEF TypeOK
    <3>6. \A v \in Unswapped : (v \in Unswapped' /\ src'[v] = src[v]) \/ src[v] \subseteq src[w]
      BY <3>1, <3>4
    <3> QED BY <1>1, <2>1, <3>3, <3>5, <3>6
  <2>8. CASE MergeDrop(w)
    <3>1. PICK p \in todrop[w] : DecRef({p}, mustDrop \cup {p})
      BY <2>8 DEF MergeDrop
    <3>2. p \in Part /\ p \notin listed
      BY DEF TypeOK, PartsInv, DroppedPartsAreUnlisted
    <3>3. \A q \in Part \ {p} : ptype'[q] = ptype[q]
      BY <3>1, <3>2, DecRefOne
    <3>4. InmemoryParts' = InmemoryParts
      BY <2>8, <3>2, <3>3 DEF MergeDrop, InmemoryParts, OfType, TypeOK
    <3>5. Unswapped' = Unswapped /\ src' = src
      BY <2>8 DEF MergeDrop, Unswapped, TypeOK
    <3> QED BY <1>2, <2>1, <3>4, <3>5
  <2>9. CASE MergeRelease(w)
    <3>1. InmemoryParts' = InmemoryParts
      BY <2>9 DEF MergeRelease, InmemoryParts, OfType
    <3>2. w \notin Unswapped /\ \A v \in Unswapped : v \in Unswapped'
      BY <2>9 DEF MergeRelease, Unswapped, TypeOK
    <3>3. \A v \in Unswapped : src'[v] = src[v]
      BY <2>9, <3>2 DEF MergeRelease, Unswapped, TypeOK
    <3> QED BY <1>2, <2>1, <3>1, <3>2, <3>3
  <2> QED BY <1>5, <2>3, <2>4, <2>5, <2>6, <2>7, <2>8, <2>9 DEF MergeStep
<1>6. ASSUME NEW s \in Shard, NEW R \in SUBSET Row, FlushRows(s) \/ AddRows(s, R) PROVE FALSE
  BY <1>6 DEF FlushRows, AddRows
<1>7. ASSUME NEW p \in Part, DeadlinePasses(p) PROVE FALSE
  BY <1>7 DEF DeadlinePasses
<1>8. ASSUME NEW w \in Worker, MergerStart(w) \/ MergerPick(w) \/ MergerGiveUp(w) PROVE FALSE
  <2>1. wpc[w] = "picking" => phase # "final"
    BY DEF LockInv, ClaimCore, CallerShape
  <2> QED BY <1>8, <2>1 DEF MergerStart, MergerPick, MergerGiveUp
<1>9. ASSUME FlusherTick \/ FlusherDone PROVE FALSE
  BY <1>9 DEF FlusherTick, FlusherDone, LockInv, ClaimCore, CallerShape
<1>10. ASSUME NEW f \in Forcer, ForceStart(f) \/ ForceCollect(f) \/ ForceDone(f) PROVE FALSE
  BY <1>10 DEF ForceStart, ForceCollect, ForceDone, LockInv, ClaimCore, CallerShape
<1>11. ASSUME NEW r \in Reader, ReleaseOne(r) PROVE FALSE
  BY <1>11 DEF ReleaseOne, LockInv, ClaimCore, CallerShape
<1>12. ASSUME NEW q \in Query, QueryStart(q) PROVE FALSE
  BY <1>12 DEF QueryStart
<1>13. ASSUME NEW s \in Snapshotter, \/ SnapshotStart(s) \/ SnapshotGrab(s) \/ SnapshotLink(s)
                                     \/ SnapshotLinked(s) \/ SnapshotDone(s)
       PROVE FALSE
  BY <1>13 DEF SnapshotStart, SnapshotGrab, SnapshotLink, SnapshotLinked, SnapshotDone, LockInv, ClaimCore,
               CallerShape
<1>14. ASSUME CloseBegin \/ CloseStop \/ CloseEnd \/ Crash \/ Open PROVE FALSE
  BY <1>14 DEF CloseBegin, CloseStop, CloseEnd, Crash, Open
<1>15. CASE UNCHANGED vars
  <2>1. InmemoryParts' = InmemoryParts /\ Unswapped' = Unswapped
    BY <1>15 DEF vars, InmemoryParts, OfType, Unswapped
  <2> QED BY <1>2, <1>15, <2>1 DEF vars
<1> QED
  BY <1>3, <1>4, <1>5, <1>6, <1>7, <1>8, <1>9, <1>10, <1>11, <1>12, <1>13, <1>14, <1>15
  DEF Next, Reader, QueryRelease, SnapshotRelease

\* A snapshot holds parts only between the flush and its end.
LEMMA SnapshotShapeNext == TypeOK /\ LockInv /\ SnapshotShape /\ [Next]_vars => SnapshotShape'
<1> SUFFICES ASSUME TypeOK, LockInv, SnapshotShape, [Next]_vars PROVE SnapshotShape'
  OBVIOUS
<1> USE DEF disk, parts, merges, callers, readers
<1>1. ASSUME UNCHANGED <<cpc, held, linked>> PROVE SnapshotShape'
  BY <1>1 DEF SnapshotShape
<1>2. ASSUME NEW c \in Caller \ Snapshotter, NEW pc, cpc' = [cpc EXCEPT ![c] = pc],
             UNCHANGED <<held, linked>>
      PROVE  SnapshotShape'
  BY <1>2 DEF SnapshotShape, TypeOK
<1>3. /\ "flusher" \in Caller \ Snapshotter /\ "closer" \in Caller \ Snapshotter
      /\ Forcer \subseteq Caller \ Snapshotter /\ Snapshotter \subseteq Caller
  BY CallerAssumption DEF Caller
<1>4. CASE UNCHANGED <<cpc, held, linked>>
  BY <1>1, <1>4
<1>5. CASE FlusherTick \/ FlusherDone \/ CloseFinalFlush
  BY <1>2, <1>3, <1>5 DEF FlusherTick, FlusherDone, CloseFinalFlush
<1>6. CASE CloseEnd
  BY <1>2, <1>3, <1>6 DEF CloseEnd
<1>7. ASSUME NEW f \in Forcer, ForceStart(f) \/ ForceCollect(f) \/ ForceDone(f)
      PROVE  SnapshotShape'
  BY <1>2, <1>3, <1>7 DEF ForceStart, ForceCollect, ForceDone
<1>8. ASSUME NEW r \in Reader, ReleaseOne(r) PROVE SnapshotShape'
  <2>1. \A s \in Reader : held'[s] \subseteq held[s]
    BY <1>8 DEF ReleaseOne, TypeOK
  <2> QED BY <1>8, <2>1 DEF ReleaseOne, SnapshotShape, Reader
<1>9. ASSUME NEW q \in Query, QueryStart(q) PROVE SnapshotShape'
  BY <1>9, CallerAssumption DEF QueryStart, SnapshotShape, TypeOK, Reader
<1>10. ASSUME NEW s \in Snapshotter, SnapshotStart(s) \/ SnapshotLinked(s) PROVE SnapshotShape'
  BY <1>10 DEF SnapshotStart, SnapshotLinked, SnapshotShape, TypeOK, Caller
<1>11. ASSUME NEW s \in Snapshotter, SnapshotGrab(s) PROVE SnapshotShape'
  BY <1>11 DEF SnapshotGrab, SnapshotShape, TypeOK, Caller, Reader
<1>12. ASSUME NEW s \in Snapshotter, SnapshotLink(s) PROVE SnapshotShape'
  BY <1>12 DEF SnapshotLink, SnapshotShape, TypeOK
<1>13. ASSUME NEW s \in Snapshotter, SnapshotDone(s) PROVE SnapshotShape'
  BY <1>13 DEF SnapshotDone, SnapshotShape, TypeOK, Caller
<1>14. CASE Crash
  BY <1>14 DEF Crash, LoseMemory, SnapshotShape, Reader
<1>15. ASSUME NEW s \in Shard, NEW R \in SUBSET Row, FlushRows(s) \/ AddRows(s, R)
       PROVE  UNCHANGED <<cpc, held, linked>>
  BY <1>15 DEF FlushRows, AddRows
<1>16. ASSUME NEW s \in Shard, FlushRows(s) PROVE UNCHANGED <<cpc, held, linked>>
  BY <1>16 DEF FlushRows
<1>17. ASSUME NEW p \in Part, DeadlinePasses(p) PROVE UNCHANGED <<cpc, held, linked>>
  BY <1>17 DEF DeadlinePasses
<1>18. ASSUME NEW w \in Worker, MergerStart(w) \/ MergerPick(w) \/ MergerGiveUp(w) \/ MergeStep(w)
       PROVE  UNCHANGED <<cpc, held, linked>>
  BY <1>18 DEF MergerStart, MergerPick, MergerGiveUp, MergeStep, MergeStart, MergeNoSpace,
               MergeWrite, MergeWriteRows, MergeInterrupt, MergeStop, MergeSwap, MergeDrop,
               MergeRelease
<1>19. ASSUME NEW c \in Caller, NEW w \in Worker, SpawnMerge(c, w)
       PROVE  UNCHANGED <<cpc, held, linked>>
  BY <1>19 DEF SpawnMerge
<1>20. ASSUME CloseBegin \/ CloseStop \/ Open PROVE UNCHANGED <<cpc, held, linked>>
  BY <1>20 DEF CloseBegin, CloseStop, Open
<1>21. ASSUME UNCHANGED vars PROVE UNCHANGED <<cpc, held, linked>>
  BY <1>21 DEF vars
<1> QED
  BY <1>4, <1>5, <1>6, <1>7, <1>8, <1>9, <1>10, <1>11, <1>12, <1>13, <1>14, <1>15, <1>16,
     <1>17, <1>18, <1>19, <1>20, <1>21
  DEF Next, Reader, QueryRelease, SnapshotRelease

-----------------------------------------------------------------------------
(* All steps together *)

\* A merge which replaces its sources in the lists finds them there. Deletes may not:
\* they panic instead (see DatadbDelete).
SwapsListed == \A w \in Worker : wpc[w] = "written" /\ wpc'[w] = "dropping" => src[w] \subseteq listed

\* The new part is written with any rows, or removed.
LEMMA PartsWrite ==
  ASSUME TypeOK, LockInv, LockInv', PartsInv, NEW w \in Worker, NEW R, NEW stop,
         MergeWriteRows(w, R, stop) \/ MergeStop(w, stop)
  PROVE  PartsInv'
<1> USE DEF readers
<1>1. CASE MergeWriteRows(w, R, stop)
  <2>1. wpc[w] = "writing" /\ wpc' = [wpc EXCEPT ![w] = "written"]
    BY <1>1 DEF MergeWriteRows
  <2>2. UNCHANGED <<phase, listed, mustDrop, isInMerge, partsJSON, todrop, held>>
    BY <1>1 DEF MergeWriteRows
  <2>3. CASE /\ dir' = [dir EXCEPT ![dst[w]] = IF @ = "partial" THEN "complete" ELSE @]
             /\ refs' = [refs EXCEPT ![dst[w]] = 1]
             /\ UNCHANGED <<ptype, dst>>
    BY <2>1, <2>2, <2>3, PartsDstWritten
  <2>4. CASE /\ ptype' = [ptype EXCEPT ![dst[w]] = "none"]
             /\ dir' = [dir EXCEPT ![dst[w]] = "none"]
             /\ dst' = [dst EXCEPT ![w] = NoPart]
             /\ UNCHANGED refs
    BY <2>1, <2>2, <2>4, PartsDstRemoved
  <2> QED BY <1>1, <2>3, <2>4 DEF MergeWriteRows
<1>2. CASE MergeStop(w, stop)
  BY <1>2, PartsDstRemoved DEF MergeStop
<1> QED BY <1>1, <1>2

\* No step of flushes, merges, readers, closes, crashes or opens breaks PartsInv.
LEMMA PartsNext ==
  ASSUME TypeOK, LockInv, LockInv', PartsInv, FlushInv, SwapsListed, [Next]_vars
  PROVE  PartsInv'
<1> USE DEF disk, parts, merges, callers, readers
<1>1. ASSUME NEW s \in Shard, FlushRows(s) PROVE PartsInv'
  BY <1>1, PartsNewInmemory DEF FlushRows
<1>2. ASSUME NEW s \in Shard, NEW R \in SUBSET Row, AddRows(s, R) PROVE PartsInv'
  <2>1. CASE UNCHANGED parts
    BY <1>2, <2>1, PartsStutter DEF AddRows, Running
  <2>2. CASE \E p \in Fresh : NewInmemoryPart(p, buf[s] \cup R)
    BY <1>2, <2>2, PartsNewInmemory DEF AddRows
  <2> QED BY <1>2, <2>1, <2>2 DEF AddRows
<1>3. ASSUME NEW p \in Part, DeadlinePasses(p) PROVE PartsInv'
  BY <1>3, PartsStutter DEF DeadlinePasses, Running
<1>4. ASSUME NEW w \in Worker, MergerStart(w) \/ MergerPick(w) \/ MergerGiveUp(w)
      PROVE PartsInv'
  <2>1. \A v \in Worker : dst[v] # NoPart => wpc'[v] = wpc[v]
    BY <1>4 DEF MergerStart, MergerPick, MergerGiveUp, LockInv, ClaimCore, MergeShape, TypeOK
  <2>2. isInMerge' \subseteq isInMerge \cup listed
    BY <1>4 DEF MergerStart, MergerPick, MergerGiveUp, OfType
  <2>3. Running' = Running /\ UNCHANGED <<listed, ptype, refs, mustDrop, disk, dst, todrop, held>>
    BY <1>4 DEF MergerStart, MergerPick, MergerGiveUp, Running
  <2> QED BY <2>1, <2>2, <2>3, PartsStutter
<1>5. ASSUME NEW c \in Caller, NEW w \in Worker, SpawnMerge(c, w) PROVE PartsInv'
  <2>1. \A v \in Worker : dst[v] # NoPart => wpc'[v] = wpc[v]
    BY <1>5 DEF SpawnMerge, LockInv, ClaimCore, MergeShape, TypeOK
  <2> QED BY <1>5, <2>1, PartsStutter DEF SpawnMerge, Running
<1>6. ASSUME NEW w \in Worker, MergeStep(w) PROVE PartsInv'
  <2>1. CASE MergeNoSpace(w) \/ MergeRelease(w)
    <3>1. \A v \in Worker : dst[v] # NoPart => wpc'[v] = wpc[v]
      BY <2>1 DEF MergeNoSpace, MergeRelease, LockInv, ClaimCore, MergeShape, TypeOK
    <3> QED BY <2>1, <3>1, PartsStutter DEF MergeNoSpace, MergeRelease, Running
  <2>2. CASE MergeWrite(w) \/ MergeInterrupt(w)
    BY <2>2, PartsWrite DEF MergeWrite, MergeInterrupt
  <2>3. CASE MergeSwap(w)
    <3>1. src[w] \subseteq listed
      BY <2>3 DEF MergeSwap, SwapsListed, TypeOK
    <3> QED BY <2>3, <3>1, PartsMergeSwap
  <2> QED BY <1>6, <2>1, <2>2, <2>3, PartsMergeStart, PartsMergeDrop DEF MergeStep
<1>7. ASSUME NEW c \in Caller, NEW S \in SUBSET listed, Claim(c, S), Running' = Running,
             UNCHANGED <<listed, ptype, refs, mustDrop, disk, dst, todrop, held, wpc>>
      PROVE  PartsInv'
  BY <1>7, PartsStutter DEF Claim
<1>8. ToFlush(FALSE) \subseteq listed /\ ToFlush(TRUE) \subseteq listed /\ FileParts \subseteq listed
      /\ "flusher" \in Caller /\ "closer" \in Caller
  BY DEF ToFlush, InmemoryParts, FileParts, OfType, Caller
<1>9. CASE FlusherTick \/ FlusherDone
  <2>1. CASE FlusherTick
    BY <1>7, <1>8, <2>1 DEF FlusherTick, Running
  <2>2. CASE FlusherDone
    BY <2>2, PartsStutter DEF FlusherDone, Running
  <2> QED BY <1>9, <2>1, <2>2
<1>10. ASSUME NEW f \in Forcer, ForceStart(f) \/ ForceCollect(f) \/ ForceDone(f) PROVE PartsInv'
  <2> f \in Caller
    BY DEF Caller
  <2>1. CASE ForceStart(f)
    BY <1>7, <1>8, <2>1 DEF ForceStart, Running
  <2>2. CASE ForceCollect(f)
    <3>1. FileParts \ isInMerge \in SUBSET listed
      BY <1>8
    <3> QED BY <1>7, <2>2, <3>1 DEF ForceCollect, Running
  <2>3. CASE ForceDone(f)
    BY <2>3, PartsStutter DEF ForceDone, Running
  <2> QED BY <1>10, <2>1, <2>2, <2>3
<1>11. ASSUME NEW q \in Query, QueryStart(q) PROVE PartsInv'
  BY <1>11, PartsTake DEF QueryStart, Running, Reader
<1>12. ASSUME NEW s \in Snapshotter, \/ SnapshotStart(s) \/ SnapshotLink(s) \/ SnapshotLinked(s)
                                     \/ SnapshotDone(s)
       PROVE PartsInv'
  <2> s \in Caller
    BY DEF Caller
  <2>1. CASE SnapshotStart(s)
    BY <1>7, <1>8, <2>1 DEF SnapshotStart, Running
  <2>2. CASE SnapshotLink(s) \/ SnapshotLinked(s) \/ SnapshotDone(s)
    BY <2>2, PartsStutter DEF SnapshotLink, SnapshotLinked, SnapshotDone, Running
  <2> QED BY <1>12, <2>1, <2>2
<1>13. ASSUME NEW s \in Snapshotter, SnapshotGrab(s) PROVE PartsInv'
  <2>1. Running
    BY <1>13 DEF SnapshotGrab, LockInv, ClaimCore, CallerShape, Caller
  <2>2. held[s] = {}
    BY <1>13 DEF SnapshotGrab, FlushInv, SnapshotShape
  <2> QED BY <1>8, <1>13, <2>1, <2>2, PartsTake DEF SnapshotGrab, Reader
<1>14. CASE CloseBegin \/ CloseStop
  BY <1>14, PartsStutter DEF CloseBegin, CloseStop, Running
<1>15. CASE CloseFinalFlush
  BY <1>7, <1>8, <1>15 DEF CloseFinalFlush, Running
<1>16. CASE CloseEnd
  <2>1. InmemoryParts = {}
    BY <1>16, NothingInMemory DEF CloseEnd, FlushInv
  <2> QED BY <1>16, <2>1, PartsCloseEnd
<1>17. CASE UNCHANGED vars
  BY <1>17, PartsStutter DEF vars, Running
<1> QED
  BY <1>1, <1>2, <1>3, <1>4, <1>5, <1>6, <1>9, <1>10, <1>11, <1>12, <1>13, <1>14, <1>15, <1>16,
     <1>17, PartsRelease, PartsCrash, PartsOpen
  DEF Next, Reader, QueryRelease, SnapshotRelease

\* mustCreateDatadb() makes a datadb without parts.
LEMMA PartsInit == Init => PartsInv /\ FlushInv
<1> SUFFICES ASSUME Init PROVE PartsInv /\ FlushInv
  OBVIOUS
<1> USE DEF Init
<1>1. \A p : ~HasOwner(p) /\ Holders(p) = {}
  BY PartAssumption DEF HasOwner, Holders
<1>2. RefsAreExact
  <2>1. \A p : Cardinality(Holders(p)) = 0
    BY <1>1, FS_EmptySet
  <2> QED BY <1>1, <2>1 DEF RefsAreExact
<1>3. DstIsPrivate /\ DroppedPartsAreUnlisted /\ UsedPartsStayOpen
  BY DEF DstIsPrivate, DroppedPartsAreUnlisted, UsedPartsStayOpen
<1>4. DirsHaveParts /\ PartsFileIsTrue
  BY DEF DirsHaveParts, PartsFileIsTrue, FileParts, OfType
<1>5. FlushInv
  BY DEF FlushInv, DstTypeFits, FinalFlushTakesAll, SnapshotShape, Reader
<1> QED BY <1>2, <1>3, <1>4, <1>5 DEF PartsInv

\* The inductive invariant of everything above.
DatadbInv == TypeOK /\ ClaimInv /\ PartsInv /\ FlushInv

LEMMA DatadbNext == DatadbInv /\ [Next]_vars => DatadbInv'
<1> SUFFICES ASSUME DatadbInv, [Next]_vars PROVE DatadbInv'
  OBVIOUS
<1>1. TypeOK' /\ ClaimInv'
  BY TypeNext, ClaimNext DEF DatadbInv
<1>2. LockInv /\ LockInv'
  BY <1>1, ClaimLocks DEF DatadbInv
<1>3. SwapsListed /\ FlagsHaveOwners
  BY DEF DatadbInv, ClaimInv, ClaimsAreExclusive, SourcesListed, SwapsListed
<1>4. PartsInv'
  BY <1>1, <1>2, <1>3, PartsNext DEF DatadbInv
<1>5. FlushInv'
  BY <1>2, <1>3, <1>4, DstTypeNext, FinalFlushNext, SnapshotShapeNext DEF DatadbInv, FlushInv
<1> QED BY <1>1, <1>4, <1>5 DEF DatadbInv

LEMMA DatadbCorrect == Spec => []DatadbInv
<1>1. Init => DatadbInv
  BY TypeInit, ClaimInit, PartsInit DEF DatadbInv
<1> QED BY <1>1, DatadbNext, PTL DEF Spec

\* decRef() closes a part, and deletes its directory, exactly when its last user is gone:
\* references are counted exactly, and what is listed, searched or merged stays open.
THEOREM ReferencesCorrect == Spec => []RefInv
<1>1. DatadbInv => RefInv
  BY DEF DatadbInv, PartsInv, FlushInv, RefInv
<1> QED BY <1>1, DatadbCorrect, PTL

\* parts.json never names a missing or partial directory, whatever a crash interrupts.
THEOREM PartsFileCorrect == Spec => []PartsFileIsTrue
<1>1. DatadbInv => PartsFileIsTrue
  BY DEF DatadbInv, PartsInv
<1> QED BY <1>1, DatadbCorrect, PTL

\* The final flush leaves nothing in memory.
LEMMA CloseMeetsOnlyLists == DatadbInv => CloseFindsNothingLeft
<1> SUFFICES ASSUME DatadbInv, phase = "final", AllMerged("closer")
             PROVE  InmemoryParts = {} /\ \A p \in listed : refs[p] = 1
  BY DEF CloseFindsNothingLeft
<1>1. InmemoryParts = {}
  BY NothingInMemory, ClaimLocks DEF DatadbInv, FlushInv
<1>2. \A p : (HasOwner(p) <=> p \in listed) /\ Holders(p) = {}
  BY OnlyListed, ClaimLocks DEF DatadbInv
<1>3. \A p \in listed : p \in Part /\ Cardinality(Holders(p)) = 0
  BY <1>2, HoldersCount DEF DatadbInv, TypeOK
<1> QED BY <1>1, <1>2, <1>3 DEF DatadbInv, PartsInv, RefsAreExact

\* Only the last step of mustCloseDatadb() closes a datadb.
LEMMA OnlyCloseEndCloses ==
  ASSUME [Next]_vars, phase' = "closed"
  PROVE  phase = "closed" \/ CloseEnd
<1>1. ASSUME NEW s \in Shard, NEW R \in SUBSET Row, FlushRows(s) \/ AddRows(s, R) PROVE phase' = phase
  BY <1>1 DEF FlushRows, AddRows
<1>2. ASSUME NEW s \in Shard, FlushRows(s) PROVE phase' = phase
  BY <1>2 DEF FlushRows
<1>3. ASSUME NEW p \in Part, DeadlinePasses(p) PROVE phase' = phase
  BY <1>3 DEF DeadlinePasses
<1>4. ASSUME NEW w \in Worker, MergerStart(w) \/ MergerPick(w) \/ MergerGiveUp(w) \/ MergeStep(w)
      PROVE  phase' = phase
  BY <1>4 DEF MergerStart, MergerPick, MergerGiveUp, MergeStep, MergeStart, MergeNoSpace,
              MergeWrite, MergeWriteRows, MergeInterrupt, MergeStop, MergeSwap, MergeDrop,
              MergeRelease
<1>5. ASSUME NEW c \in Caller, NEW w \in Worker, SpawnMerge(c, w) PROVE phase' = phase
  BY <1>5 DEF SpawnMerge
<1>6. ASSUME FlusherTick \/ FlusherDone PROVE phase' = phase
  BY <1>6 DEF FlusherTick, FlusherDone
<1>7. ASSUME NEW f \in Forcer, ForceStart(f) \/ ForceCollect(f) \/ ForceDone(f)
      PROVE  phase' = phase
  BY <1>7 DEF ForceStart, ForceCollect, ForceDone
<1>8. ASSUME NEW q \in Query, QueryStart(q) PROVE phase' = phase
  BY <1>8 DEF QueryStart
<1>9. ASSUME NEW r \in Reader, ReleaseOne(r) PROVE phase' = phase
  BY <1>9 DEF ReleaseOne
<1>10. ASSUME NEW s \in Snapshotter, \/ SnapshotStart(s) \/ SnapshotGrab(s) \/ SnapshotLink(s)
                                     \/ SnapshotLinked(s) \/ SnapshotDone(s)
       PROVE  phase' = phase
  BY <1>10 DEF SnapshotStart, SnapshotGrab, SnapshotLink, SnapshotLinked, SnapshotDone
<1>11. ASSUME CloseBegin \/ CloseStop \/ CloseFinalFlush \/ Crash \/ Open PROVE phase' # "closed"
  BY <1>11 DEF CloseBegin, CloseStop, CloseFinalFlush, Crash, Open
<1>12. ASSUME UNCHANGED vars PROVE phase' = phase
  BY <1>12 DEF vars
<1> QED
  BY <1>1, <1>2, <1>3, <1>4, <1>5, <1>6, <1>7, <1>8, <1>9, <1>10, <1>11, <1>12
  DEF Next, Reader, QueryRelease, SnapshotRelease

\* Nobody touches the disk of a closed datadb.
LEMMA ClosedStays ==
  ASSUME DatadbInv, [Next]_vars, phase = "closed", phase' = "closed"
  PROVE  UNCHANGED <<dir, partsJSON>>
<1> USE DEF disk, parts, merges, callers, readers
<1>1. /\ \A r \in Reader : held[r] = {}
      /\ \A w \in Worker : wpc[w] = "idle"
      /\ \A c \in Caller : cpc[c] = "idle"
  BY DEF DatadbInv, ClaimInv, CallerShape, Running
<1>2. ASSUME NEW s \in Shard, NEW R \in SUBSET Row, FlushRows(s) \/ AddRows(s, R)
      PROVE  UNCHANGED <<dir, partsJSON>>
  BY <1>2 DEF FlushRows, AddRows
<1>3. ASSUME NEW s \in Shard, FlushRows(s) PROVE UNCHANGED <<dir, partsJSON>>
  BY <1>3 DEF FlushRows
<1>4. ASSUME NEW p \in Part, DeadlinePasses(p) PROVE UNCHANGED <<dir, partsJSON>>
  BY <1>4 DEF DeadlinePasses
<1>5. ASSUME NEW w \in Worker, MergerStart(w) \/ MergerPick(w) \/ MergerGiveUp(w) \/ MergeStep(w)
      PROVE  FALSE
  BY <1>1, <1>5 DEF MergerStart, MergerPick, MergerGiveUp, MergeStep, MergeStart, MergeNoSpace,
              MergeWrite, MergeWriteRows, MergeInterrupt, MergeStop, MergeSwap, MergeDrop,
              MergeRelease
<1>6. ASSUME NEW c \in Caller, NEW w \in Worker, SpawnMerge(c, w)
      PROVE  UNCHANGED <<dir, partsJSON>>
  BY <1>6 DEF SpawnMerge
<1>7. ASSUME FlusherTick \/ FlusherDone PROVE UNCHANGED <<dir, partsJSON>>
  BY <1>7 DEF FlusherTick, FlusherDone
<1>8. ASSUME NEW f \in Forcer, ForceStart(f) \/ ForceCollect(f) \/ ForceDone(f)
      PROVE  UNCHANGED <<dir, partsJSON>>
  BY <1>8 DEF ForceStart, ForceCollect, ForceDone
<1>9. ASSUME NEW q \in Query, QueryStart(q) PROVE UNCHANGED <<dir, partsJSON>>
  BY <1>9 DEF QueryStart
<1>10. ASSUME NEW r \in Reader, ReleaseOne(r) PROVE FALSE
  BY <1>1, <1>10 DEF ReleaseOne
<1>11. ASSUME NEW s \in Snapshotter, \/ SnapshotStart(s) \/ SnapshotGrab(s) \/ SnapshotLink(s)
                                     \/ SnapshotLinked(s) \/ SnapshotDone(s)
       PROVE  UNCHANGED <<dir, partsJSON>>
  BY <1>11 DEF SnapshotStart, SnapshotGrab, SnapshotLink, SnapshotLinked, SnapshotDone
<1>12. ASSUME CloseBegin \/ CloseStop \/ CloseFinalFlush \/ CloseEnd \/ Crash \/ Open PROVE FALSE
  BY <1>12 DEF CloseBegin, CloseStop, CloseFinalFlush, CloseEnd, Crash, Open
<1>13. ASSUME UNCHANGED vars PROVE UNCHANGED <<dir, partsJSON>>
  BY <1>13 DEF vars
<1> QED
  BY <1>2, <1>3, <1>4, <1>5, <1>6, <1>7, <1>8, <1>9, <1>10, <1>11, <1>12, <1>13
  DEF Next, Reader, QueryRelease, SnapshotRelease

\* CloseEnd turns every directory into one parts.json names; afterwards nothing changes
\* until the datadb is opened.
LEMMA GarbageNext == DatadbInv /\ CloseLeavesNoGarbage /\ [Next]_vars => CloseLeavesNoGarbage'
<1> SUFFICES ASSUME DatadbInv, CloseLeavesNoGarbage, [Next]_vars, phase' = "closed"
             PROVE  UnusedDirs' = {}
  BY DEF CloseLeavesNoGarbage
<1> USE DEF disk, parts, merges, callers, readers
<1>1. CASE phase = "closed"
  <2>1. UNCHANGED <<dir, partsJSON>>
    BY <1>1, ClosedStays
  <2> QED BY <1>1, <2>1 DEF CloseLeavesNoGarbage, UnusedDirs
<1>2. CASE CloseEnd
  <2>1. InmemoryParts = {}
    BY <1>2, NothingInMemory, ClaimLocks DEF CloseEnd, DatadbInv, FlushInv
  <2>2. \A p : (HasOwner(p) <=> p \in listed) /\ Holders(p) = {}
    BY <1>2, OnlyListed, ClaimLocks DEF CloseEnd, DatadbInv
  <2>3. \A w \in Worker : wpc[w] = "idle"
    BY <1>2, OnlyListed, ClaimLocks DEF CloseEnd, DatadbInv
  <2>4. Running
    BY <1>2 DEF CloseEnd, Running
  <2>5. \A p \in Part : dir[p] # "none" => p \in FileParts
    BY <2>2, <2>3, <2>4 DEF DatadbInv, PartsInv, DirsHaveParts, RefsAreExact, FileParts, OfType,
                            FileType
  <2>6. partsJSON' = FileParts
    BY <1>2, <2>4 DEF CloseEnd, DatadbInv, PartsInv, PartsFileIsTrue
  <2>7. \A p \in Part : dir'[p] # "none" => dir[p] # "none"
    BY <1>2 DEF CloseEnd, DecRef
  <2> QED BY <2>5, <2>6, <2>7 DEF UnusedDirs
<1> QED BY <1>1, <1>2, OnlyCloseEndCloses

\* mustCloseDatadb() neither panics because of an in-memory part or a reference somebody
\* keeps, nor leaves a directory behind which parts.json doesn't name.
THEOREM CloseCorrect == Spec => []CloseIsClean
<1>1. Init => CloseLeavesNoGarbage
  BY DEF Init, CloseLeavesNoGarbage
<1>2. CloseFindsNothingLeft /\ CloseLeavesNoGarbage => CloseIsClean
  BY DEF CloseIsClean
<1> QED BY <1>1, <1>2, GarbageNext, CloseMeetsOnlyLists, DatadbCorrect, PTL DEF Spec

(***************************************************************************)
(*                                  ROWS                                   *)
(*                                                                         *)
(* Where each accepted row is, what snapshots gather, flush deadlines, and *)
(* the refinement of RowStore.                                             *)
(***************************************************************************)

\* What makes it safe to use parts, whoever merges them.
UseInv == TypeOK /\ LockInv /\ PartsInv /\ FlushInv

LEMMA DatadbUses ==
  /\ DatadbInv => UseInv
  /\ DatadbInv' => UseInv'
BY ClaimLocks DEF DatadbInv, UseInv

-----------------------------------------------------------------------------
(* Steps which move no rows *)

\* The step changes neither shards, nor lists, nor parts.json, nor the parts these name.
Quiet ==
  /\ UNCHANGED <<added, buf, listed, partsJSON>>
  /\ Running' = Running /\ (Running \/ phase' = phase)
  /\ \A p \in listed \cup partsJSON : rows'[p] = rows[p] /\ ptype'[p] = ptype[p]
  /\ due \subseteq due' /\ due' \subseteq due \cup InmemoryParts
  /\ phase' \in {"open", "draining"} \/ phase \notin {"open", "draining"}
       \/ \A s \in Shard : buf[s] = {}

\* A part in the lists isn't closed when a reader gives it back.
LEMMA ListedHasOwner ==
  ASSUME TypeOK, PartsInv, NEW r \in Reader, NEW p \in held[r], HasOwner(p)
  PROVE  refs[p] # 1
<1>1. refs[p] = 1 + Cardinality(Holders(p)) /\ Holders(p) # {}
  BY DEF TypeOK, PartsInv, RefsAreExact, Holders
<1> QED BY <1>1, HoldersCount

\* A part which isn't closed keeps its contents and its type.
LEMMA DecRefOpen ==
  ASSUME TypeOK, NEW p \in Part, NEW D, DecRef({p}, D)
  PROVE  /\ refs[p] # 1 => rows'[p] = rows[p] /\ ptype'[p] = ptype[p]
         /\ \A q \in Part \ {p} : rows'[q] = rows[q] /\ ptype'[q] = ptype[q]
BY DEF DecRef, TypeOK

\* Only flushes of shards, swaps, closes, crashes and opens aren't quiet.
LEMMA QuietNext ==
  ASSUME UseInv, [Next]_vars
  PROVE  \/ Quiet
         \/ \E s \in Shard : FlushRows(s) \/ \E R \in SUBSET Row : AddRows(s, R)
         \/ \E w \in Worker : MergeSwap(w)
         \/ CloseEnd \/ Crash \/ Open
<1> USE DEF disk, parts, merges, callers, readers
<1> TypeOK /\ MergeShape /\ CallerShape /\ PartsInv /\ FlushInv
  BY DEF UseInv, LockInv, ClaimCore
<1> partsJSON \subseteq Part /\ listed \subseteq Part
  BY DEF TypeOK
<1>1. ASSUME UNCHANGED <<added, buf, phase, listed, ptype, rows, due, partsJSON>> PROVE Quiet
  BY <1>1 DEF Quiet, Running
<1>2. Running => partsJSON \subseteq listed
  BY DEF PartsInv, PartsFileIsTrue, FileParts, OfType
<1>3. ASSUME NEW p \in Part, DeadlinePasses(p) PROVE Quiet
  BY <1>3 DEF DeadlinePasses, Quiet, Running
<1>4. ASSUME NEW w \in Worker, MergerStart(w) \/ MergerPick(w) \/ MergerGiveUp(w) PROVE Quiet
  BY <1>1, <1>4 DEF MergerStart, MergerPick, MergerGiveUp
<1>5. ASSUME NEW c \in Caller, NEW w \in Worker, SpawnMerge(c, w) PROVE Quiet
  BY <1>1, <1>5 DEF SpawnMerge
<1>6. ASSUME NEW p, p \notin listed \cup partsJSON,
             \A q \in Part \ {p} : rows'[q] = rows[q] /\ ptype'[q] = ptype[q],
             UNCHANGED <<added, buf, phase, listed, due, partsJSON>>
      PROVE  Quiet
  BY <1>6 DEF Quiet, Running
<1>7. ASSUME NEW w \in Worker, MergeStep(w) PROVE Quiet \/ MergeSwap(w)
  <2>0. wpc[w] # "idle" => Running
    BY DEF CallerShape
  <2>1. CASE MergeStart(w)
    <3>1. PICK p \in Fresh, t \in DstTypes(w) : ptype' = [ptype EXCEPT ![p] = t]
      BY <2>1 DEF MergeStart
    <3>2. p \in Part /\ p \notin listed /\ p \notin partsJSON
      BY <2>0, <2>1, ClosedPart DEF Fresh, MergeStart
    <3>3. \A q \in Part \ {p} : rows'[q] = rows[q] /\ ptype'[q] = ptype[q]
      BY <2>1, <3>1 DEF MergeStart, TypeOK
    <3>4. UNCHANGED <<added, buf, phase, listed, due, partsJSON>>
      BY <2>1 DEF MergeStart
    <3> QED BY <1>6, <3>2, <3>3, <3>4
  <2>2. CASE MergeNoSpace(w) \/ MergeRelease(w)
    BY <1>1, <2>2 DEF MergeNoSpace, MergeRelease
  <2>3. CASE MergeWrite(w) \/ MergeInterrupt(w)
    <3>1. PICK p \in Part : dst[w] = p
      BY <2>3 DEF MergeWrite, MergeWriteRows, MergeInterrupt, MergeStop, MergeShape
    <3>2. p \notin listed \cup partsJSON
      BY <3>1, PartAssumption DEF PartsInv, DstIsPrivate
    <3>3. \A q \in Part \ {p} : rows'[q] = rows[q]
      BY <2>3, <3>1 DEF MergeWrite, MergeWriteRows, MergeInterrupt, MergeStop, TypeOK
    <3>4. \A q \in Part \ {p} : ptype'[q] = ptype[q]
      BY <2>3, <3>1 DEF MergeWrite, MergeWriteRows, MergeInterrupt, MergeStop, TypeOK
    <3>5. UNCHANGED <<added, buf, phase, listed, due, partsJSON>>
      BY <2>3 DEF MergeWrite, MergeWriteRows, MergeInterrupt, MergeStop
    <3> QED BY <1>6, <3>2, <3>3, <3>4, <3>5
  <2>4. CASE MergeDrop(w)
    <3>1. PICK p \in todrop[w] : DecRef({p}, mustDrop \cup {p})
      BY <2>4 DEF MergeDrop
    <3>2. p \in Part /\ p \notin listed /\ p \notin partsJSON
      BY <1>2, <2>0, <2>4 DEF MergeDrop, TypeOK, PartsInv, DroppedPartsAreUnlisted
    <3>3. \A q \in Part \ {p} : rows'[q] = rows[q] /\ ptype'[q] = ptype[q]
      BY <3>1, <3>2, DecRefOpen
    <3>4. UNCHANGED <<added, buf, phase, listed, due, partsJSON>>
      BY <2>4 DEF MergeDrop
    <3> QED BY <1>6, <3>2, <3>3, <3>4
  <2> QED BY <1>7, <2>1, <2>2, <2>3, <2>4 DEF MergeStep
<1>8. ASSUME FlusherTick \/ FlusherDone PROVE Quiet
  BY <1>1, <1>8 DEF FlusherTick, FlusherDone
<1>9. ASSUME NEW f \in Forcer, ForceStart(f) \/ ForceCollect(f) \/ ForceDone(f) PROVE Quiet
  BY <1>1, <1>9 DEF ForceStart, ForceCollect, ForceDone
<1>10. ASSUME NEW q \in Query, QueryStart(q) PROVE Quiet
  BY <1>1, <1>10 DEF QueryStart
<1>11. ASSUME NEW r \in Reader, ReleaseOne(r) PROVE Quiet
  <2>1. PICK p \in held[r] : DecRef({p}, mustDrop)
    BY <1>11 DEF ReleaseOne
  <2>2. p \in Part /\ Running
    BY DEF TypeOK, CallerShape
  <2>3. \A q \in Part \ {p} : rows'[q] = rows[q] /\ ptype'[q] = ptype[q]
    BY <2>1, <2>2, DecRefOpen
  <2>4. UNCHANGED <<added, buf, phase, listed, due, partsJSON>>
    BY <1>11 DEF ReleaseOne
  <2>5. CASE p \in listed
    <3>1. refs[p] # 1
      BY <2>5, ListedHasOwner DEF HasOwner
    <3>2. rows'[p] = rows[p] /\ ptype'[p] = ptype[p]
      BY <2>1, <2>2, <3>1, DecRefOpen
    <3> QED BY <2>3, <2>4, <3>2 DEF Quiet, Running
  <2>6. CASE p \notin listed
    BY <1>2, <1>6, <2>2, <2>3, <2>4, <2>6
  <2> QED BY <2>5, <2>6
<1>12. ASSUME NEW s \in Snapshotter, \/ SnapshotStart(s) \/ SnapshotGrab(s) \/ SnapshotLink(s)
                                     \/ SnapshotLinked(s) \/ SnapshotDone(s)
       PROVE  Quiet
  BY <1>1, <1>12 DEF SnapshotStart, SnapshotGrab, SnapshotLink, SnapshotLinked, SnapshotDone
<1>13. ASSUME CloseBegin \/ CloseStop \/ CloseFinalFlush PROVE Quiet
  BY <1>13 DEF CloseBegin, CloseStop, CloseFinalFlush, Quiet, Running
<1>14. ASSUME UNCHANGED vars PROVE Quiet
  BY <1>1, <1>14 DEF vars
<1> QED
  BY <1>3, <1>4, <1>5, <1>7, <1>8, <1>9, <1>10, <1>11, <1>12, <1>13, <1>14
  DEF Next, Reader, QueryRelease, SnapshotRelease

-----------------------------------------------------------------------------
(* Each row has one place *)

PlacesInv == RowStoredOnce /\ RowsAreAccounted /\ DueAreInMemory

\* Where a row is, said without unions.
LEMMA InRowsOf ==
  ASSUME NEW S, NEW x
  PROVE  x \in RowsOf(S) <=> \E p \in S : x \in rows[p]
BY DEF RowsOf

LEMMA PlacesQuiet ==
  ASSUME TypeOK, PlacesInv, Quiet
  PROVE  PlacesInv'
<1>1. RowStoredOnce'
  BY DEF Quiet, PlacesInv, RowStoredOnce, RowsOf
<1>2. RowsAreAccounted'
  BY DEF Quiet, PlacesInv, RowsAreAccounted
<1>3. DueAreInMemory'
  BY DEF Quiet, PlacesInv, DueAreInMemory, InmemoryParts, OfType
<1> QED BY <1>1, <1>2, <1>3 DEF PlacesInv

\* A new in-memory part is one more part in the lists.
LEMMA FlushAdds ==
  ASSUME TypeOK, PartsInv, Running, NEW p \in Fresh, NEW R, NewInmemoryPart(p, R), UNCHANGED disk
  PROVE  /\ p \in Part /\ p \notin listed /\ p \notin partsJSON
         /\ listed' = listed \cup {p} /\ UNCHANGED <<due, partsJSON>>
         /\ rows'[p] = R /\ ptype'[p] = "inmemory"
         /\ \A q \in Part \ {p} : rows'[q] = rows[q] /\ ptype'[q] = ptype[q]
<1>1. p \in Part /\ p \notin listed /\ p \notin partsJSON
  BY ClosedPart DEF Fresh
<1> QED BY <1>1 DEF NewInmemoryPart, TypeOK, disk

\* mustFlushLogRows(): the rows of a shard, with those just added, become a part.
LEMMA PlacesFlush ==
  ASSUME TypeOK, PartsInv, PlacesInv, phase \in {"open", "draining"},
         NEW s \in Shard, NEW R \in SUBSET Row, R \cap added = {},
         added' = added \cup R, buf' = [buf EXCEPT ![s] = {}],
         NEW p \in Fresh, NewInmemoryPart(p, buf[s] \cup R),
         UNCHANGED <<phase, disk>>
  PROVE  PlacesInv'
<1> USE DEF disk
<1> Running
  BY DEF Running
<1>1. p \in Part /\ p \notin listed /\ p \notin partsJSON
  BY FlushAdds
<1>2. /\ listed' = listed \cup {p} /\ UNCHANGED <<due, partsJSON>>
      /\ rows'[p] = buf[s] \cup R /\ ptype'[p] = "inmemory"
      /\ \A q \in Part \ {p} : rows'[q] = rows[q] /\ ptype'[q] = ptype[q]
  BY FlushAdds
<1>3. /\ buf'[s] = {} /\ \A t \in Shard \ {s} : buf'[t] = buf[t]
  BY DEF TypeOK
<1>4. \A q \in listed \cup partsJSON : q \in Part \ {p}
  BY <1>1 DEF TypeOK
<1>5. \A q \in listed : rows[q] \cap buf[s] = {} /\ rows[q] \cap R = {}
  <2>1. ASSUME NEW q \in listed PROVE rows[q] \subseteq RowsOf(listed) /\ rows[q] \subseteq added
    BY DEF RowsOf, PlacesInv, RowsAreAccounted
  <2> QED BY <2>1 DEF PlacesInv, RowStoredOnce
<1>6. \A t \in Shard \ {s} : buf[t] \cap (buf[s] \cup R) = {}
  BY DEF PlacesInv, RowStoredOnce, RowsAreAccounted
<1>7. RowStoredOnce'
  <2>1. \A q, u \in listed' : q # u => rows'[q] \cap rows'[u] = {}
    BY <1>2, <1>4, <1>5 DEF PlacesInv, RowStoredOnce
  <2>2. \A t \in Shard : buf'[t] \cap RowsOf(listed)' = {}
    <3>1. ASSUME NEW t \in Shard, NEW q \in listed' PROVE buf'[t] \cap rows'[q] = {}
      BY <1>2, <1>3, <1>4, <1>6 DEF PlacesInv, RowStoredOnce, RowsOf
    <3> QED BY <3>1 DEF RowsOf
  <2>3. \A t, u \in Shard : t # u => buf'[t] \cap buf'[u] = {}
    BY <1>3 DEF PlacesInv, RowStoredOnce
  <2> QED BY <2>1, <2>2, <2>3 DEF RowStoredOnce
<1>8. RowsAreAccounted'
  <2>1. \A t \in Shard : buf'[t] \subseteq added'
    BY <1>3 DEF PlacesInv, RowsAreAccounted
  <2>2. \A q \in listed' \cup partsJSON' : rows'[q] \subseteq added'
    BY <1>2, <1>4 DEF PlacesInv, RowsAreAccounted
  <2>3. \A q, u \in partsJSON' : q # u => rows'[q] \cap rows'[u] = {}
    BY <1>2, <1>4 DEF PlacesInv, RowsAreAccounted
  <2> QED BY <2>1, <2>2, <2>3 DEF RowsAreAccounted
<1>9. DueAreInMemory'
  BY <1>2, <1>4 DEF PlacesInv, DueAreInMemory, InmemoryParts, OfType
<1> QED BY <1>7, <1>8, <1>9 DEF PlacesInv

\* rowsBuffer.mustAddRows(): the rows stay in the shard.
LEMMA PlacesBuffer ==
  ASSUME TypeOK, PlacesInv, phase \in {"open", "draining"},
         NEW s \in Shard, NEW R \in SUBSET Row, R \cap added = {},
         added' = added \cup R, buf' = [buf EXCEPT ![s] = @ \cup R],
         UNCHANGED <<phase, parts, disk>>
  PROVE  PlacesInv'
<1> USE DEF disk, parts
<1>1. buf'[s] = buf[s] \cup R /\ \A t \in Shard \ {s} : buf'[t] = buf[t]
  BY DEF TypeOK
<1>2. RowsOf(listed) \subseteq added
  BY DEF RowsOf, PlacesInv, RowsAreAccounted
<1>3. RowsOf(listed)' = RowsOf(listed)
  BY DEF RowsOf
<1>4. RowStoredOnce'
  <2>1. \A t, u \in Shard : t # u => buf'[t] \cap buf'[u] = {}
    BY <1>1 DEF PlacesInv, RowStoredOnce, RowsAreAccounted
  <2>2. \A t \in Shard : buf'[t] \cap RowsOf(listed) = {}
    BY <1>1, <1>2 DEF PlacesInv, RowStoredOnce
  <2> QED BY <1>3, <2>1, <2>2 DEF PlacesInv, RowStoredOnce
<1>5. RowsAreAccounted'
  BY <1>1 DEF PlacesInv, RowsAreAccounted
<1>6. DueAreInMemory'
  BY DEF PlacesInv, DueAreInMemory, InmemoryParts, OfType
<1> QED BY <1>4, <1>5, <1>6 DEF PlacesInv

\* swapSrcWithDstParts(): the rows of the sources are in the new part.
LEMMA PlacesSwap ==
  ASSUME DatadbInv, DatadbInv', PlacesInv, MergesCarryRows, NEW w \in Worker, MergeSwap(w)
  PROVE  PlacesInv'
<1> USE DEF disk, parts, merges, callers, readers
<1>1. /\ listed' = (listed \ src[w]) \cup NewPart(w) /\ due' = DueAfterMerge(w)
      /\ UNCHANGED <<added, buf, phase, rows, ptype>>
  BY DEF MergeSwap
<1>2. src[w] \subseteq listed /\ RowsOf(NewPart(w)) = RowsOf(src[w])
  BY DEF MergeSwap, DatadbInv, ClaimInv, ClaimsAreExclusive, SourcesListed, MergesCarryRows
<1>3. \A p \in NewPart(w) : p = dst[w] /\ rows[p] = RowsOf(src[w])
  BY <1>2 DEF NewPart, RowsOf
<1>4. \A p \in NewPart(w), q \in listed \ src[w] : rows[p] \cap rows[q] = {}
  <2>1. \A q \in listed \ src[w] : RowsOf(src[w]) \cap rows[q] = {}
    BY <1>2 DEF RowsOf, PlacesInv, RowStoredOnce
  <2> QED BY <1>3, <2>1
<1>5. RowsOf(src[w]) \subseteq RowsOf(listed)
  BY <1>2 DEF RowsOf
<1>6. \A p \in listed' : rows[p] \subseteq RowsOf(listed)
  <2>1. \A p \in listed : rows[p] \subseteq RowsOf(listed)
    BY DEF RowsOf
  <2> QED BY <1>1, <1>3, <1>5, <2>1
<1>7. \A p, q \in listed' : p # q => rows[p] \cap rows[q] = {}
  BY <1>1, <1>3, <1>4 DEF PlacesInv, RowStoredOnce
<1>8. RowStoredOnce'
  <2>1. RowsOf(listed)' \subseteq RowsOf(listed)
    BY <1>1, <1>6 DEF RowsOf
  <2> QED BY <1>1, <1>7, <2>1 DEF PlacesInv, RowStoredOnce
<1>9. RowsAreAccounted'
  <2>1. Running'
    BY DEF MergeSwap, DatadbInv, ClaimInv, CallerShape, Running
  <2>2. partsJSON' \subseteq listed'
    BY <2>1 DEF DatadbInv, PartsInv, PartsFileIsTrue, FileParts, OfType
  <2>3. RowsOf(listed) \subseteq added
    BY DEF RowsOf, PlacesInv, RowsAreAccounted
  <2> QED BY <1>1, <1>6, <1>7, <2>2, <2>3 DEF PlacesInv, RowsAreAccounted
<1>10. DueAreInMemory'
  <2>1. due' \subseteq (due \ src[w]) \cup {p \in NewPart(w) : ptype[p] = "inmemory"}
    BY <1>1 DEF DueAfterMerge
  <2> QED BY <1>1, <2>1 DEF PlacesInv, DueAreInMemory, InmemoryParts, OfType
<1> QED BY <1>8, <1>9, <1>10 DEF PlacesInv

\* Closing, crashing and opening leave the rows of parts.json where they are, and
\* nothing in memory.
LEMMA RestartKeeps ==
  ASSUME UseInv, CloseEnd \/ Crash \/ Open
  PROVE  /\ UNCHANGED <<added, partsJSON>>
         /\ \A p \in partsJSON : rows'[p] = rows[p]
         /\ InmemoryParts' = {}
<1> USE DEF disk
<1>1. \A p \in partsJSON : p \in Part /\ dir[p] = "complete"
  BY DEF UseInv, TypeOK, PartsInv, PartsFileIsTrue
<1>2. CASE CloseEnd
  <2>1. phase = "final" /\ DecRef(FileParts, mustDrop) /\ listed' = {}
        /\ UNCHANGED <<added, partsJSON>>
    BY <1>2 DEF CloseEnd
  <2>2. partsJSON \subseteq listed
    BY <2>1 DEF UseInv, PartsInv, PartsFileIsTrue, Running, FileParts, OfType
  <2>3. \A p \in partsJSON : p \notin mustDrop
    BY <2>2 DEF UseInv, PartsInv, DroppedPartsAreUnlisted, HasOwner
  <2>4. \A p \in partsJSON : rows'[p] = rows[p]
    BY <1>1, <2>1, <2>3 DEF DecRef
  <2> QED BY <2>1, <2>4 DEF InmemoryParts, OfType
<1>3. CASE Crash
  BY <1>1, <1>3 DEF Crash, LoseMemory, InmemoryParts, OfType
<1>4. CASE Open
  <2>1. /\ listed' = partsJSON /\ UNCHANGED <<added, partsJSON>>
        /\ \A p \in partsJSON : rows'[p] = rows[p]
    BY <1>1, <1>4 DEF Open, UnusedDirs
  <2>2. \A p \in partsJSON : ptype'[p] \in {"big", "small"}
    BY <1>1, <1>4 DEF Open
  <2> QED BY <2>1, <2>2 DEF InmemoryParts, OfType
<1> QED BY <1>2, <1>3, <1>4

LEMMA PlacesRestart ==
  ASSUME DatadbInv, PlacesInv, CloseEnd \/ Crash \/ Open
  PROVE  PlacesInv'
<1> USE DEF disk, parts, merges, callers, readers
<1>1. /\ UNCHANGED <<added, partsJSON>>
      /\ \A p \in partsJSON : rows'[p] = rows[p]
  BY RestartKeeps, DatadbUses
<1>2. /\ \A s \in Shard : buf[s] \subseteq added /\ buf'[s] = {}
      /\ listed' = {} \/ listed' = partsJSON
      /\ due' = {}
  <2>1. CASE CloseEnd
    <3>1. InmemoryParts = {}
      BY <2>1, NothingInMemory, DatadbUses DEF UseInv, CloseEnd, DatadbInv, FlushInv
    <3> QED BY <2>1, <3>1 DEF CloseEnd, PlacesInv, RowsAreAccounted, DueAreInMemory
  <2>2. CASE Crash
    BY <2>2 DEF Crash, LoseMemory, PlacesInv, RowsAreAccounted
  <2>3. CASE Open
    <3>1. due = {}
      BY <2>3, NobodyThere, DatadbUses DEF UseInv, Open, Running, DatadbInv, PlacesInv, DueAreInMemory, InmemoryParts,
                               OfType
    <3> QED BY <2>3, <3>1 DEF Open, PlacesInv, RowsAreAccounted
  <2> QED BY <2>1, <2>2, <2>3
<1>3. RowStoredOnce'
  BY <1>1, <1>2 DEF RowStoredOnce, PlacesInv, RowsAreAccounted, RowsOf
<1>4. RowsAreAccounted'
  BY <1>1, <1>2 DEF PlacesInv, RowsAreAccounted
<1>5. DueAreInMemory'
  BY <1>2 DEF DueAreInMemory
<1> QED BY <1>3, <1>4, <1>5 DEF PlacesInv

LEMMA PlacesNext ==
  ASSUME DatadbInv, DatadbInv', PlacesInv, MergesCarryRows, [Next]_vars
  PROVE  PlacesInv'
<1>1. ASSUME NEW s \in Shard, FlushRows(s) PROVE PlacesInv'
  <2>1. {} \in SUBSET Row /\ {} \cap added = {} /\ added' = added \cup {}
        /\ buf[s] \cup {} = buf[s]
    BY <1>1 DEF FlushRows
  <2>2. PICK p \in Fresh : NewInmemoryPart(p, buf[s] \cup {})
    BY <1>1, <2>1 DEF FlushRows
  <2>3. phase \in {"open", "draining"} /\ buf' = [buf EXCEPT ![s] = {}] /\ UNCHANGED <<phase, disk>>
    BY <1>1 DEF FlushRows
  <2> QED BY <2>1, <2>2, <2>3, PlacesFlush DEF DatadbInv
<1>2. ASSUME NEW s \in Shard, NEW R \in SUBSET Row, AddRows(s, R) PROVE PlacesInv'
  <2>1. /\ phase \in {"open", "draining"} /\ R \cap added = {} /\ added' = added \cup R
        /\ UNCHANGED <<phase, disk>>
    BY <1>2 DEF AddRows
  <2>2. CASE buf' = [buf EXCEPT ![s] = @ \cup R] /\ UNCHANGED parts
    BY <2>1, <2>2, PlacesBuffer DEF DatadbInv
  <2>3. CASE buf' = [buf EXCEPT ![s] = {}] /\ \E p \in Fresh : NewInmemoryPart(p, buf[s] \cup R)
    BY <2>1, <2>3, PlacesFlush DEF DatadbInv
  <2> QED BY <1>2, <2>2, <2>3 DEF AddRows
<1> QED BY <1>1, <1>2, DatadbUses, QuietNext, PlacesQuiet, PlacesSwap, PlacesRestart DEF DatadbInv

-----------------------------------------------------------------------------
(* Merges carry rows over *)

\* A part which stays open keeps its rows and its type, unless it is being written.
LEMMA OpenRowsStay ==
  ASSUME UseInv, [Next]_vars, Running, Running', NEW p \in Part,
         ptype[p] # "none", ptype'[p] # "none", \A w \in Worker : wpc[w] = "writing" => dst[w] # p
  PROVE  rows'[p] = rows[p] /\ ptype'[p] = ptype[p]
<1> USE DEF disk, parts, merges, callers, readers
<1> DEFINE Kept == rows'[p] = rows[p] /\ ptype'[p] = ptype[p]
<1> TypeOK
  BY DEF UseInv
<1>1. ASSUME NEW q \in Fresh, NEW R, NewInmemoryPart(q, R) PROVE Kept
  BY <1>1 DEF Fresh, NewInmemoryPart, TypeOK
<1>2. ASSUME NEW q, NEW D, DecRef({q}, D) PROVE Kept
  BY <1>2 DEF DecRef
<1>3. ASSUME NEW w \in Worker, MergeStep(w) PROVE Kept
  <2>1. CASE MergeWrite(w) \/ MergeInterrupt(w)
    BY <2>1 DEF MergeWrite, MergeWriteRows, MergeInterrupt, MergeStop, TypeOK
  <2>2. CASE MergeDrop(w)
    BY <1>2, <2>2 DEF MergeDrop
  <2>3. CASE MergeStart(w)
    BY <2>3 DEF MergeStart, Fresh, TypeOK
  <2> QED BY <1>3, <2>1, <2>2, <2>3 DEF MergeStep, MergeNoSpace, MergeSwap, MergeRelease
<1>4. ASSUME NEW q \in Reader, ReleaseOne(q) PROVE Kept
  BY <1>2, <1>4 DEF ReleaseOne
<1>5. ~CloseEnd /\ ~Crash /\ ~Open
  BY DEF CloseEnd, Crash, Open, Running
<1>6. ASSUME NEW s \in Shard, FlushRows(s) \/ \E R \in SUBSET Row : AddRows(s, R) PROVE Kept
  BY <1>1, <1>6 DEF FlushRows, AddRows
<1>7. ASSUME UNCHANGED <<rows, ptype>> PROVE Kept
  BY <1>7
<1>8. \A s \in Snapshotter : \/ SnapshotStart(s) \/ SnapshotGrab(s) \/ SnapshotLink(s)
                            \/ SnapshotLinked(s) \/ SnapshotDone(s) => UNCHANGED <<rows, ptype>>
  BY DEF SnapshotStart, SnapshotGrab, SnapshotLink, SnapshotLinked, SnapshotDone
<1>9. \A w \in Worker : /\ MergerStart(w) \/ MergerPick(w) \/ MergerGiveUp(w) => UNCHANGED <<rows, ptype>>
                        /\ \A c \in Caller : SpawnMerge(c, w) => UNCHANGED <<rows, ptype>>
  BY DEF MergerStart, MergerPick, MergerGiveUp, SpawnMerge
<1>10. \A f \in Forcer : ForceStart(f) \/ ForceCollect(f) \/ ForceDone(f) => UNCHANGED <<rows, ptype>>
  BY DEF ForceStart, ForceCollect, ForceDone
<1>11. /\ FlusherTick \/ FlusherDone \/ CloseBegin \/ CloseStop \/ CloseFinalFlush => UNCHANGED <<rows, ptype>>
       /\ \A q \in Query : QueryStart(q) => UNCHANGED <<rows, ptype>>
       /\ \A q \in Part : DeadlinePasses(q) => UNCHANGED <<rows, ptype>>
       /\ UNCHANGED vars => UNCHANGED <<rows, ptype>>
  BY DEF FlusherTick, FlusherDone, CloseBegin, CloseStop, CloseFinalFlush, QueryStart,
         DeadlinePasses, vars
<1> QED
  BY <1>3, <1>4, <1>5, <1>6, <1>7, <1>8, <1>9, <1>10, <1>11
  DEF Next, Reader, QueryRelease, SnapshotRelease

\* Merges are moved by merge goroutines, whoever starts them.
MergeMoves(v) ==
  \/ MergerStart(v) \/ MergerPick(v) \/ MergerGiveUp(v) \/ MergeStep(v)
  \/ \E c \in Caller : SpawnMerge(c, v)

LEMMA OnlyMergesMove ==
  ASSUME [Next]_vars
  PROVE  UNCHANGED merges \/ Crash \/ \E v \in Worker : MergeMoves(v)
<1>1. \A s \in Shard : FlushRows(s) \/ (\E R \in SUBSET Row : AddRows(s, R)) => UNCHANGED merges
  BY DEF FlushRows, AddRows
<1>2. \A s \in Snapshotter : \/ SnapshotStart(s) \/ SnapshotGrab(s) \/ SnapshotLink(s) \/ SnapshotLinked(s)
                            \/ SnapshotDone(s) \/ SnapshotRelease(s) => UNCHANGED merges
  BY DEF SnapshotStart, SnapshotGrab, SnapshotLink, SnapshotLinked, SnapshotDone, SnapshotRelease, ReleaseOne
<1>3. \A f \in Forcer : ForceStart(f) \/ ForceCollect(f) \/ ForceDone(f) => UNCHANGED merges
  BY DEF ForceStart, ForceCollect, ForceDone
<1>4. /\ FlusherTick \/ FlusherDone \/ CloseBegin \/ CloseStop \/ CloseFinalFlush => UNCHANGED merges
      /\ CloseEnd \/ Open => UNCHANGED merges
      /\ \A q \in Query : QueryStart(q) \/ QueryRelease(q) => UNCHANGED merges
      /\ \A q \in Part : DeadlinePasses(q) => UNCHANGED merges
      /\ UNCHANGED vars => UNCHANGED merges
  BY DEF FlusherTick, FlusherDone, CloseBegin, CloseStop, CloseFinalFlush, CloseEnd, Open, QueryStart,
         QueryRelease, ReleaseOne, DeadlinePasses, vars
<1> QED
  BY <1>1, <1>2, <1>3, <1>4 DEF Next, MergeMoves

\* A merge goroutine moves its own merge only.
LEMMA OthersMerge ==
  ASSUME TypeOK, NEW v \in Worker, MergeMoves(v), NEW w \in Worker \ {v}
  PROVE  /\ wpc'[w] = wpc[w] /\ src'[w] = src[w] /\ dst'[w] = dst[w]
         /\ owner'[w] = owner[w] /\ todrop'[w] = todrop[w]
<1> USE DEF TypeOK
<1>1. CASE MergerStart(v) \/ MergerPick(v) \/ MergerGiveUp(v)
  BY <1>1 DEF MergerStart, MergerPick, MergerGiveUp
<1>2. CASE MergeStart(v) \/ MergeNoSpace(v) \/ MergeRelease(v)
  BY <1>2 DEF MergeStart, MergeNoSpace, MergeRelease
<1>3. CASE MergeSwap(v)
  BY <1>3 DEF MergeSwap
<1>4. CASE MergeDrop(v)
  BY <1>4 DEF MergeDrop
<1>5. CASE MergeWrite(v) \/ MergeInterrupt(v)
  BY <1>5 DEF MergeWrite, MergeWriteRows, MergeInterrupt, MergeStop
<1>6. CASE \E c \in Caller : SpawnMerge(c, v)
  BY <1>6 DEF SpawnMerge
<1> QED BY <1>1, <1>2, <1>3, <1>4, <1>5, <1>6 DEF MergeMoves, MergeStep

\* A merge which has written its part keeps its sources and the part until the swap;
\* it gets there by writing.
LEMMA OnlyWritesWrite ==
  ASSUME TypeOK, [Next]_vars, NEW w \in Worker, wpc'[w] = "written"
  PROVE  \/ wpc[w] = "written" /\ src'[w] = src[w] /\ dst'[w] = dst[w]
         \/ MergeWrite(w)
<1>1. ~Crash
  BY DEF Crash, LoseMemory
<1>2. CASE UNCHANGED merges
  BY <1>2 DEF merges
<1>3. ASSUME MergeMoves(w) PROVE MergeWrite(w)
  BY <1>3 DEF MergeMoves, MergerStart, MergerPick, MergerGiveUp, MergeStep, MergeStart, MergeNoSpace,
              MergeInterrupt, MergeStop, MergeSwap, MergeDrop, MergeRelease, SpawnMerge, TypeOK
<1> QED BY <1>1, <1>2, <1>3, OnlyMergesMove, OthersMerge

\* Neither loses rows meanwhile.
LEMMA WrittenStay ==
  ASSUME UseInv, UseInv', [Next]_vars, NEW w \in Worker, wpc[w] = "written", wpc'[w] = "written"
  PROVE  /\ src'[w] = src[w] /\ dst'[w] = dst[w]
         /\ RowsOf(src[w])' = RowsOf(src[w]) /\ RowsOf(NewPart(w))' = RowsOf(NewPart(w))
<1> TypeOK /\ LockInv /\ PartsInv /\ LockInv' /\ PartsInv'
  BY DEF UseInv
<1>1. src'[w] = src[w] /\ dst'[w] = dst[w]
  BY OnlyWritesWrite DEF MergeWrite, MergeWriteRows
<1>2. Running /\ Running'
  BY DEF LockInv, ClaimCore, CallerShape
<1>3. ASSUME NEW p \in src[w] PROVE rows'[p] = rows[p]
  <2>1. p \in Part /\ (p \in listed \/ \E r \in Reader : p \in held[r])
    BY DEF TypeOK, LockInv, SourcesKept, Unswapped, Holders
  <2>2. ptype[p] # "none" /\ \A v \in Worker : dst[v] # p
    BY <2>1, PartAssumption DEF PartsInv, UsedPartsStayOpen, Usable, DstIsPrivate
  <2>3. ptype'[p] # "none"
    BY <1>1, SourcesStayOpen
  <2> QED BY <1>2, <2>1, <2>2, <2>3, OpenRowsStay
<1>4. ASSUME NEW p \in NewPart(w) PROVE rows'[p] = rows[p]
  <2>1. p \in Part /\ p = dst[w] /\ p # NoPart
    BY DEF TypeOK, NewPart
  <2>2. /\ ptype[p] # "none" /\ ptype'[p] # "none"
        /\ \A v \in Worker \ {w} : dst[v] # p
    BY <1>1, <2>1 DEF PartsInv, DstIsPrivate
  <2> QED BY <1>2, <2>1, <2>2, OpenRowsStay
<1>5. RowsOf(src[w])' = RowsOf(src[w])
  BY <1>1, <1>3 DEF RowsOf
<1>6. RowsOf(NewPart(w))' = RowsOf(NewPart(w))
  BY <1>1, <1>4 DEF RowsOf, NewPart
<1> QED BY <1>1, <1>5, <1>6

\* The new part gets the rows written to it, and the sources keep theirs.
LEMMA WriteCarries ==
  ASSUME UseInv, NEW w \in Worker, NEW R, NEW stop, MergeWriteRows(w, R, stop)
  PROVE  /\ wpc[w] = "writing" /\ wpc'[w] = "written" /\ src' = src
         /\ RowsOf(NewPart(w))' = R /\ RowsOf(src[w])' = RowsOf(src[w])
         /\ \A q \in Part \ {dst[w]} : rows'[q] = rows[q]
         /\ \A v \in Worker \ {w} : wpc'[v] = wpc[v] /\ dst'[v] = dst[v]
<1> TypeOK /\ LockInv /\ PartsInv
  BY DEF UseInv
<1>1. PICK p \in Part : dst[w] = p
  BY DEF MergeWriteRows, LockInv, ClaimCore, MergeShape
<1>2. p # NoPart /\ wpc[w] = "writing" /\ src' = src /\ p \notin src[w]
  BY <1>1, PartAssumption, DstNeedsSources DEF MergeWriteRows
<1>3. /\ wpc'[w] = "written" /\ \A q \in Part \ {p} : rows'[q] = rows[q]
      /\ \A v \in Worker \ {w} : wpc'[v] = wpc[v] /\ dst'[v] = dst[v]
  BY <1>1 DEF MergeWriteRows, TypeOK
<1>4. RowsOf(src[w])' = RowsOf(src[w])
  BY <1>2, <1>3 DEF RowsOf, TypeOK
<1>5. \/ dst'[w] = p /\ rows'[p] = R
      \/ dst'[w] = NoPart /\ R = {}
  BY <1>1 DEF MergeWriteRows, TypeOK
<1>6. RowsOf(NewPart(w))' = R
  BY <1>2, <1>5 DEF RowsOf, NewPart
<1> QED BY <1>1, <1>2, <1>3, <1>4, <1>6

\* The destination part of a merge gets exactly the rows of the sources, and nothing
\* happens to either before the swap.
LEMMA CarryNext == ASSUME DatadbInv, DatadbInv', MergesCarryRows, [Next]_vars PROVE MergesCarryRows'
<1> UseInv /\ UseInv' /\ TypeOK /\ LockInv
  BY DatadbUses DEF UseInv
<1> SUFFICES ASSUME NEW w \in Worker, wpc'[w] = "written"
             PROVE  RowsOf(NewPart(w))' = RowsOf(src[w])'
  BY DEF MergesCarryRows
<1>1. CASE wpc[w] = "written"
  <2>1. RowsOf(src[w])' = RowsOf(src[w]) /\ RowsOf(NewPart(w))' = RowsOf(NewPart(w))
    BY <1>1, WrittenStay
  <2> QED BY <1>1, <2>1 DEF MergesCarryRows
<1>2. CASE MergeWrite(w)
  BY <1>2, WriteCarries DEF MergeWrite
<1> QED BY <1>1, <1>2, OnlyWritesWrite

\* Every accepted row is in one place.
RowsInv == DatadbInv /\ PlacesInv /\ MergesCarryRows

LEMMA RowsNext == RowsInv /\ [Next]_vars => RowsInv'
BY DatadbNext, PlacesNext, CarryNext DEF RowsInv

LEMMA RowsCorrect == Spec => []RowsInv
<1>1. Init => RowsInv
  <2> SUFFICES ASSUME Init PROVE RowsInv
    OBVIOUS
  <2>1. DatadbInv
    BY TypeInit, ClaimInit, PartsInit DEF DatadbInv
  <2>2. PlacesInv /\ MergesCarryRows
    BY DEF Init, PlacesInv, RowStoredOnce, RowsAreAccounted, DueAreInMemory, MergesCarryRows, RowsOf
  <2> QED BY <2>1, <2>2 DEF RowsInv
<1> QED BY <1>1, RowsNext, PTL DEF Spec

\* A search never finds a row twice: whatever merges run, no row is in two listed parts,
\* in two shards, or in a shard and a part.
THEOREM RowsAreStoredOnce == Spec => []RowStoredOnce
<1>1. RowsInv => RowStoredOnce
  BY DEF RowsInv, PlacesInv
<1> QED BY <1>1, RowsCorrect, PTL

-----------------------------------------------------------------------------
(* Steps of rows towards the disk *)

\* With a true parts.json, the durable rows are those of its parts.
LEMMA Durable ==
  ASSUME PartsFileIsTrue
  PROVE  DurableRows = RowsOf(partsJSON)
BY DEF PartsFileIsTrue, DurableRows, RowsOf

\* A swap moves the rows of its in-memory sources into an in-memory part with their
\* deadline, or to the disk.
LEMMA SwapMoves ==
  ASSUME RowsInv, RowsInv', NEW w \in Worker, MergeSwap(w)
  PROVE  /\ RowsOf(InmemoryParts)' \subseteq RowsOf(InmemoryParts)
         /\ RowsOf(InmemoryParts) \subseteq RowsOf(InmemoryParts)' \cup DurableRows'
         /\ DurableRows \subseteq DurableRows'
         /\ DurableRows' \subseteq DurableRows \cup RowsOf(InmemoryParts)
         /\ RowsOf(InmemoryParts)' \cap DurableRows' = {}
         /\ RowsOf(due) \subseteq RowsOf(due)' \cup DurableRows'
<1> USE DEF disk, parts, merges, callers, readers
<1>1. /\ listed' = (listed \ src[w]) \cup NewPart(w) /\ due' = DueAfterMerge(w)
      /\ UNCHANGED <<rows, ptype>> /\ wpc[w] = "written"
  BY DEF MergeSwap
<1>2. src[w] \subseteq listed /\ RowsOf(NewPart(w)) = RowsOf(src[w])
  BY <1>1 DEF RowsInv, DatadbInv, ClaimInv, ClaimsAreExclusive, SourcesListed, MergesCarryRows
<1>3. Running /\ Running'
  BY DEF MergeSwap, RowsInv, DatadbInv, ClaimInv, CallerShape, Running
<1>4. DurableRows = RowsOf(FileParts)
  BY <1>3, Durable DEF RowsInv, DatadbInv, PartsInv, PartsFileIsTrue
<1>5. DurableRows' = RowsOf(FileParts)'
  <2>1. DurableRows' = RowsOf(partsJSON)'
    BY DEF RowsInv, DatadbInv, PartsInv, PartsFileIsTrue, DurableRows, RowsOf
  <2>2. partsJSON' = FileParts'
    BY <1>3 DEF RowsInv, DatadbInv, PartsInv, PartsFileIsTrue
  <2> QED BY <2>1, <2>2 DEF RowsOf
<1>6. \A p \in listed : ptype[p] = "inmemory" \/ ptype[p] \in FileType
  BY DEF RowsInv, DatadbInv, TypeOK, PartsInv, UsedPartsStayOpen, Usable, PartType, FileType
<1>7. \A p \in NewPart(w) : /\ p = dst[w] /\ rows[p] = RowsOf(src[w])
                           /\ (ptype[p] = "inmemory" \/ ptype[p] \in FileType)
                           /\ (ptype[p] = "inmemory" => \A q \in src[w] : ptype[q] = "inmemory")
  BY <1>2 DEF NewPart, RowsOf, RowsInv, DatadbInv, TypeOK, PartsInv, DstIsPrivate, FlushInv,
              DstTypeFits, PartType, FileType
<1>8. \A x : x \in RowsOf(src[w]) <=> \E p \in NewPart(w) : x \in rows[p]
  BY <1>2 DEF RowsOf
<1>9. "inmemory" \notin FileType
  BY DEF FileType
<1>10. /\ \A x : x \in RowsOf(InmemoryParts) <=> \E p \in listed : ptype[p] = "inmemory" /\ x \in rows[p]
       /\ \A x : x \in DurableRows <=> \E p \in listed : ptype[p] \in FileType /\ x \in rows[p]
  BY <1>4 DEF RowsOf, InmemoryParts, FileParts, OfType
<1>11. /\ \A x : x \in RowsOf(InmemoryParts)' <=> \E p \in listed' : ptype[p] = "inmemory" /\ x \in rows[p]
       /\ \A x : x \in DurableRows' <=> \E p \in listed' : ptype[p] \in FileType /\ x \in rows[p]
  BY <1>1, <1>5 DEF RowsOf, InmemoryParts, FileParts, OfType
<1>12. \A x : x \in RowsOf(src[w]) <=> \E p \in src[w] : x \in rows[p]
  BY DEF RowsOf
<1> listed' = (listed \ src[w]) \cup NewPart(w)
  BY <1>1
<1>13. RowsOf(InmemoryParts)' \subseteq RowsOf(InmemoryParts)
  <2>1. ASSUME NEW p \in listed', ptype[p] = "inmemory", NEW x \in rows[p]
        PROVE  \E q \in listed : ptype[q] = "inmemory" /\ x \in rows[q]
    <3>1. CASE p \in NewPart(w)
      <4>1. x \in RowsOf(src[w]) /\ \A q \in src[w] : ptype[q] = "inmemory"
        BY <1>7, <2>1, <3>1
      <4> QED BY <1>2, <1>12, <4>1
    <3>2. CASE p \notin NewPart(w)
      BY <2>1, <3>2
    <3> QED BY <3>1, <3>2
  <2> QED BY <1>10, <1>11, <2>1
<1>14. \A x : (\E p \in listed : x \in rows[p]) => \E p \in listed' : x \in rows[p]
  BY <1>1, <1>8, <1>12
<1>15. \A p \in listed' : ptype[p] = "inmemory" \/ ptype[p] \in FileType
  BY <1>6, <1>7
<1>16. RowsOf(InmemoryParts) \subseteq RowsOf(InmemoryParts)' \cup DurableRows'
  BY <1>10, <1>11, <1>14, <1>15
<1>17. DurableRows \subseteq DurableRows'
  <2>1. ASSUME NEW p \in listed, ptype[p] \in FileType, NEW x \in rows[p]
        PROVE  \E q \in listed' : ptype[q] \in FileType /\ x \in rows[q]
    <3>1. CASE p \in src[w]
      <4>1. PICK q \in NewPart(w) : x \in rows[q]
        BY <1>8, <1>12, <2>1, <3>1
      <4>2. ptype[q] \in FileType
        BY <1>7, <1>9, <2>1, <3>1, <4>1
      <4> QED BY <4>1, <4>2
    <3>2. CASE p \notin src[w]
      BY <1>1, <2>1, <3>2
    <3> QED BY <3>1, <3>2
  <2> QED BY <1>10, <1>11, <2>1
<1>18. DurableRows' \subseteq DurableRows \cup RowsOf(InmemoryParts)
  <2>1. \A x : (\E p \in listed' : x \in rows[p]) => \E p \in listed : x \in rows[p]
    BY <1>1, <1>2, <1>8, <1>12
  <2> QED BY <1>6, <1>10, <1>11, <2>1
<1>19. RowsOf(InmemoryParts)' \cap DurableRows' = {}
  <2>1. \A p, q \in listed' : p # q => rows'[p] \cap rows'[q] = {}
    BY DEF RowsInv, PlacesInv, RowStoredOnce
  <2> QED BY <1>1, <1>9, <1>11, <2>1
<1>20. RowsOf(due) \subseteq RowsOf(due)' \cup DurableRows'
  <2>1. due \subseteq listed
    BY DEF RowsInv, PlacesInv, DueAreInMemory, InmemoryParts, OfType
  <2>2. ASSUME NEW p \in due, NEW x \in rows[p]
        PROVE  (\E q \in due' : x \in rows[q]) \/ x \in DurableRows'
    <3>1. CASE p \in src[w]
      <4>1. PICK q \in NewPart(w) : x \in rows[q]
        BY <1>8, <1>12, <2>2, <3>1
      <4>2. CASE ptype[q] = "inmemory"
        <5>1. q \in due'
          BY <1>1, <2>2, <3>1, <4>1, <4>2 DEF DueAfterMerge
        <5> QED BY <4>1, <5>1
      <4>3. CASE ptype[q] \in FileType
        BY <1>11, <4>1, <4>3
      <4> QED BY <1>7, <4>1, <4>2, <4>3
    <3>2. CASE p \notin src[w]
      BY <1>1, <2>2, <3>2 DEF DueAfterMerge
    <3> QED BY <3>1, <3>2
  <2>3. \A x : x \in RowsOf(due)' <=> \E q \in due' : x \in rows[q]
    BY <1>1 DEF RowsOf
  <2> QED BY <2>2, <2>3 DEF RowsOf
<1> QED BY <1>13, <1>16, <1>17, <1>18, <1>19, <1>20

-----------------------------------------------------------------------------
(* Deadlines *)

\* Any flush of a shard is the creation of a part.
LEMMA FlushIsNewPart ==
  ASSUME RowsInv, NEW s \in Shard, NEW R \in SUBSET Row,
         (R = {} /\ FlushRows(s)) \/ AddRows(s, R)
  PROVE  /\ Running /\ phase' = phase /\ UNCHANGED disk
         /\ R \cap added = {} /\ added' = added \cup R
         /\ \/ buf' = [buf EXCEPT ![s] = @ \cup R] /\ UNCHANGED parts /\ R # {}
            \/ /\ buf' = [buf EXCEPT ![s] = {}]
               /\ \E p \in Fresh : NewInmemoryPart(p, buf[s] \cup R)
<1>1. CASE R = {} /\ FlushRows(s)
  <2>1. buf[s] \cup R = buf[s] /\ added \cup R = added
    BY <1>1
  <2> QED BY <1>1, <2>1 DEF FlushRows, Running
<1>2. CASE AddRows(s, R)
  BY <1>2 DEF AddRows, Running
<1> QED BY <1>1, <1>2

LEMMA DeadlineNext ==
  ASSUME RowsInv, RowsInv', [Next]_vars
  PROVE  phase' = "crashed" \/ RowsOf(due) \subseteq RowsOf(due)' \cup DurableRows'
<1> DEFINE Kept == RowsOf(due) \subseteq RowsOf(due)'
<1>0. due \subseteq listed /\ listed \subseteq Part
  BY DEF RowsInv, DatadbInv, TypeOK, PlacesInv, DueAreInMemory, InmemoryParts, OfType
<1>1. CASE Quiet
  BY <1>0, <1>1 DEF Quiet, RowsOf
<1>2. ASSUME NEW s \in Shard, NEW R \in SUBSET Row, (R = {} /\ FlushRows(s)) \/ AddRows(s, R)
      PROVE  Kept
  <2>1. CASE UNCHANGED parts
    BY <2>1 DEF parts, RowsOf
  <2>2. ASSUME NEW p \in Fresh, NewInmemoryPart(p, buf[s] \cup R) PROVE Kept
    <3>1. /\ due' = due /\ p \notin listed
          /\ \A q \in Part \ {p} : rows'[q] = rows[q]
      BY <1>2, <2>2, FlushAdds, FlushIsNewPart DEF RowsInv, DatadbInv
    <3> QED BY <1>0, <3>1 DEF RowsOf
  <2> QED BY <1>2, <2>1, <2>2, FlushIsNewPart
<1>3. CASE \E w \in Worker : MergeSwap(w)
  BY <1>3, SwapMoves
<1>4. CASE CloseEnd
  <2>1. InmemoryParts = {}
    BY <1>4, NothingInMemory, DatadbUses DEF UseInv, CloseEnd, RowsInv, DatadbInv, FlushInv
  <2> QED BY <2>1 DEF RowsInv, PlacesInv, DueAreInMemory, RowsOf
<1>5. CASE Crash
  BY <1>5 DEF Crash
<1>6. CASE Open
  <2>1. due = {}
    BY <1>0, <1>6, NobodyThere, DatadbUses DEF UseInv, Open, Running, RowsInv, DatadbInv
  <2> QED BY <2>1 DEF RowsOf
<1>7. ASSUME NEW s \in Shard, FlushRows(s) PROVE Kept
  <2>1. {} \in SUBSET Row
    OBVIOUS
  <2> QED BY <1>2, <1>7, <2>1
<1> QED BY <1>1, <1>2, <1>3, <1>4, <1>5, <1>6, <1>7, DatadbUses, QuietNext DEF RowsInv

\* getFlushToDiskDeadline(): a row whose flush deadline has passed stays in an overdue
\* part until it is on disk, through any sequence of merges in memory.
THEOREM DeadlinesAreKept == Spec => DeadlineIsKept
<1>1. RowsInv /\ RowsInv' /\ [Next]_vars =>
        [phase' = "crashed" \/ RowsOf(due) \subseteq RowsOf(due)' \cup DurableRows']_vars
  BY DeadlineNext
<1> QED BY <1>1, RowsCorrect, PTL DEF Spec, DeadlineIsKept

-----------------------------------------------------------------------------
(* RowStore *)

Pending == UNION {buf[s] : s \in Shard}
Volatile == RowsOf(InmemoryParts)
Mode == IF Running THEN "open" ELSE phase

\* The steps of RowStore, said with the variables of Datadb.
StoreStep == [Store!StoreNext]_(Store!storeVars)

LEMMA StoreValues ==
  ASSUME RowsInv
  PROVE  /\ Pending \subseteq added /\ Volatile \subseteq Row
         /\ DurableRows = RowsOf(partsJSON)
<1>1. listed \subseteq Part /\ \A p \in Part : rows[p] \subseteq Row
  BY DEF RowsInv, DatadbInv, TypeOK
<1> QED BY <1>1, Durable DEF RowsInv, PlacesInv, RowsAreAccounted, Pending, Volatile, RowsOf,
                            InmemoryParts, OfType, DatadbInv, PartsInv

LEMMA QuietStutters ==
  ASSUME RowsInv, RowsInv', Quiet
  PROVE  UNCHANGED Store!storeVars
<1>1. UNCHANGED <<added, Pending, Mode>>
  BY DEF Quiet, Pending, Mode
<1>2. Volatile' = Volatile
  BY DEF Quiet, Volatile, InmemoryParts, OfType, RowsOf
<1>3. DurableRows' = DurableRows
  <2>1. DurableRows' = RowsOf(partsJSON)'
    BY StoreValues DEF RowsInv, DatadbInv, PartsInv, PartsFileIsTrue, DurableRows, RowsOf
  <2>2. RowsOf(partsJSON)' = RowsOf(partsJSON)
    BY DEF Quiet, RowsOf
  <2> QED BY <2>1, <2>2, StoreValues
<1> QED BY <1>1, <1>2, <1>3 DEF Store!storeVars, Pending, Mode, Volatile

\* A flush of a shard makes its rows, and those just added, visible.
LEMMA FlushReveals ==
  ASSUME RowsInv, RowsInv', NEW s \in Shard, NEW R \in SUBSET Row,
         (R = {} /\ FlushRows(s)) \/ AddRows(s, R)
  PROVE  Store!StoreNext
<1>1. /\ Running /\ phase' = phase /\ Mode = "open" /\ Mode' = "open"
      /\ R \cap added = {} /\ added' = added \cup R /\ partsJSON' = partsJSON
  BY FlushIsNewPart DEF Running, Mode, disk
<1>2. partsJSON \subseteq Part /\ listed \subseteq Part
  BY DEF RowsInv, DatadbInv, TypeOK
<1>3. DurableRows' = RowsOf(partsJSON)'
  BY DEF RowsInv, DatadbInv, PartsInv, PartsFileIsTrue, DurableRows, RowsOf
<1>4. CASE buf' = [buf EXCEPT ![s] = @ \cup R] /\ UNCHANGED parts
  <2>1. buf'[s] = buf[s] \cup R /\ \A t \in Shard \ {s} : buf'[t] = buf[t]
    BY <1>4 DEF RowsInv, DatadbInv, TypeOK
  <2>2. Pending' = Pending \cup R
    BY <2>1 DEF Pending
  <2>3. Volatile' = Volatile
    BY <1>4 DEF parts, Volatile, RowsOf, InmemoryParts, OfType
  <2>4. DurableRows' = DurableRows
    BY <1>1, <1>3, <1>4, StoreValues DEF parts, RowsOf
  <2>5. Store!Accept(R)
    BY <1>1, <2>2, <2>3, <2>4 DEF Store!Accept, Pending, Volatile, Mode
  <2> QED BY <2>5 DEF Store!StoreNext
<1>5. ASSUME buf' = [buf EXCEPT ![s] = {}], NEW p \in Fresh, NewInmemoryPart(p, buf[s] \cup R)
      PROVE  Store!StoreNext
  <2> DEFINE V == buf[s] \cup R
  <2>1. buf'[s] = {} /\ \A t \in Shard \ {s} : buf'[t] = buf[t]
    BY <1>5 DEF RowsInv, DatadbInv, TypeOK
  <2>2. \A t \in Shard \ {s} : buf[t] \cap V = {}
    BY <1>1 DEF RowsInv, PlacesInv, RowStoredOnce, RowsAreAccounted
  <2>3. Pending' = Pending \ V
    BY <2>1, <2>2 DEF Pending
  <2>4. /\ p \in Part /\ p \notin listed /\ p \notin partsJSON
        /\ listed' = listed \cup {p}
        /\ rows'[p] = V /\ ptype'[p] = "inmemory"
        /\ \A q \in Part \ {p} : rows'[q] = rows[q] /\ ptype'[q] = ptype[q]
    BY <1>1, <1>5, FlushAdds, FlushIsNewPart DEF RowsInv, DatadbInv
  <2>5. Volatile' = Volatile \cup V
    <3>1. InmemoryParts' = InmemoryParts \cup {p} /\ InmemoryParts \subseteq Part \ {p}
      BY <1>2, <2>4 DEF InmemoryParts, OfType
    <3>2. \A q \in InmemoryParts : rows'[q] = rows[q]
      BY <2>4, <3>1
    <3> QED BY <2>4, <3>1, <3>2 DEF Volatile, RowsOf
  <2>6. DurableRows' = DurableRows
    <3>1. RowsOf(partsJSON)' = RowsOf(partsJSON)
      BY <1>1, <1>2, <2>4 DEF RowsOf
    <3> QED BY <1>3, <3>1, StoreValues
  <2>7. V \in SUBSET Row /\ V \subseteq Pending \cup R /\ R \subseteq V
    BY DEF Pending, RowsInv, DatadbInv, TypeOK
  <2>8. PICK W \in SUBSET Row : W = V
    BY <2>7
  <2>9. Store!AcceptVisible(R, W)
    BY <1>1, <2>3, <2>5, <2>6, <2>7, <2>8 DEF Store!AcceptVisible, Pending, Volatile, Mode
  <2> QED BY <2>9 DEF Store!StoreNext
<1> QED BY <1>4, <1>5, FlushIsNewPart

\* A swap makes durable the rows it takes out of memory.
LEMMA SwapPersists ==
  ASSUME RowsInv, RowsInv', NEW w \in Worker, MergeSwap(w)
  PROVE  Store!StoreNext
<1> DEFINE R == Volatile \ Volatile'
<1>1. /\ UNCHANGED <<added, Pending>> /\ Mode = "open" /\ Mode' = "open"
  BY DEF MergeSwap, Mode, Pending, RowsInv, DatadbInv, ClaimInv, CallerShape, Running
<1>2. R \in SUBSET Row /\ R \subseteq Volatile
  BY StoreValues
<1>3. Volatile' = Volatile \ R /\ DurableRows' = DurableRows \cup R
  BY SwapMoves DEF Volatile
<1>4. Store!Persist(R)
  BY <1>1, <1>2, <1>3 DEF Store!Persist, Pending, Volatile, Mode
<1> QED BY <1>2, <1>4 DEF Store!StoreNext

\* Closing loses nothing, a crash loses what isn't durable, opening finds the rest.
LEMMA RestartFits ==
  ASSUME RowsInv, RowsInv', CloseEnd \/ Crash \/ Open
  PROVE  Store!StoreNext
<1>1. UNCHANGED added /\ DurableRows' = DurableRows
  <2>1. /\ UNCHANGED <<added, partsJSON>> /\ RowsOf(partsJSON)' = RowsOf(partsJSON)
    BY RestartKeeps, DatadbUses DEF RowsInv, RowsOf
  <2>2. DurableRows' = RowsOf(partsJSON)'
    BY DEF RowsInv, DatadbInv, PartsInv, PartsFileIsTrue, DurableRows, RowsOf
  <2> QED BY <2>1, <2>2, StoreValues
<1>2. Volatile' = {}
  BY RestartKeeps, DatadbUses DEF RowsInv, Volatile, RowsOf
<1>3. CASE CloseEnd
  <2>1. Mode = "open" /\ Mode' = "closed" /\ UNCHANGED Pending
    BY <1>3 DEF CloseEnd, Mode, Running, Pending
  <2>2. Pending = {}
    BY <1>3 DEF CloseEnd, Pending, RowsInv, PlacesInv, RowsAreAccounted
  <2>3. Volatile = {}
    BY <1>3, NothingInMemory, DatadbUses DEF UseInv, CloseEnd, RowsInv, DatadbInv, FlushInv, Volatile, RowsOf
  <2>4. Store!Close
    BY <1>1, <1>2, <2>1, <2>2, <2>3 DEF Store!Close, Pending, Volatile, Mode
  <2> QED BY <2>4 DEF Store!StoreNext
<1>4. CASE Crash
  <2>1. Mode = "open" /\ Mode' = "crashed" /\ Pending' = {}
    BY <1>4 DEF Crash, LoseMemory, Mode, Running, Pending
  <2>2. Store!Crash
    BY <1>1, <1>2, <2>1 DEF Store!Crash, Pending, Volatile, Mode
  <2> QED BY <2>2 DEF Store!StoreNext
<1>5. CASE Open
  <2>1. Mode # "open" /\ Mode' = "open" /\ UNCHANGED Pending
    BY <1>5 DEF Open, Mode, Running, Pending
  <2>2. Volatile = {}
    BY <1>5, NobodyThere, DatadbUses DEF UseInv, Open, Running, RowsInv, DatadbInv, Volatile, RowsOf, InmemoryParts,
                             OfType
  <2>3. Store!Reopen
    BY <1>1, <1>2, <2>1, <2>2 DEF Store!Reopen, Pending, Volatile, Mode
  <2> QED BY <2>3 DEF Store!StoreNext
<1> QED BY <1>3, <1>4, <1>5

LEMMA StoreSteps == RowsInv /\ RowsInv' /\ [Next]_vars => StoreStep
<1> SUFFICES ASSUME RowsInv, RowsInv', [Next]_vars PROVE StoreStep
  OBVIOUS
<1>1. ASSUME NEW s \in Shard, FlushRows(s) PROVE Store!StoreNext
  <2>1. {} \in SUBSET Row
    OBVIOUS
  <2> QED BY <1>1, <2>1, FlushReveals
<1>2. ASSUME NEW s \in Shard, NEW R \in SUBSET Row, AddRows(s, R) PROVE Store!StoreNext
  BY <1>2, FlushReveals
<1> QED BY <1>1, <1>2, DatadbUses, QuietNext, QuietStutters, SwapPersists, RestartFits DEF RowsInv, StoreStep

\* The partition keeps the promise of RowStore: whatever flushes, merges, closes and
\* crashes happen, a visible row stays visible until a crash, a durable one stays
\* durable, and a close makes all of them durable.
THEOREM DatadbImplementsRowStore == Spec => RefinesRowStore
<1>1. Init => Store!StoreInit
  BY DEF Init, Store!StoreInit, RowsOf, InmemoryParts, OfType, DurableRows, Running
<1> QED BY <1>1, StoreSteps, RowsCorrect, PTL DEF Spec, RefinesRowStore, Store!StoreSpec, StoreStep

-----------------------------------------------------------------------------
(* Snapshots *)

\* Where the rows promised to one snapshot are.
SnapshotHas(s) ==
  /\ cpc[s] = "flushing" => snapMust[s] \subseteq RowsOf(ComingParts(s))
  /\ cpc[s] = "linking" => /\ linked[s] \subseteq held[s]
                           /\ snapMust[s] \subseteq snapRows[s] \cup RowsOf(held[s] \ linked[s])
  /\ cpc[s] = "releasing" => snapMust[s] \subseteq snapRows[s]

\* The parts a snapshot holds keep their rows: others give back their own references.
LEMMA HeldRowsStay ==
  ASSUME UseInv, UseInv', [Next]_vars, ~Crash, NEW r \in Reader, NEW p \in held[r], p \in held'[r]
  PROVE  rows'[p] = rows[p]
<1>1. p \in Part /\ ptype[p] # "none" /\ ptype'[p] # "none"
  BY DEF UseInv, TypeOK, PartsInv, UsedPartsStayOpen, Usable
<1>2. Running /\ Running'
  BY DEF UseInv, LockInv, ClaimCore, CallerShape
<1>3. \A w \in Worker : dst[w] # p
  BY <1>1, PartAssumption DEF UseInv, PartsInv, DstIsPrivate
<1> QED BY <1>1, <1>2, <1>3, OpenRowsStay

\* The snapshot itself takes no step.
SnapshotUntouched(s) ==
  /\ cpc'[s] = cpc[s] /\ held'[s] = held[s]
  /\ linked'[s] = linked[s] /\ snapRows'[s] = snapRows[s] /\ snapMust'[s] = snapMust[s]

\* Neither its claim nor the merges made for it change.
MergesGoOn(s) ==
  cpc[s] = "flushing" =>
    /\ claim'[s] = claim[s]
    /\ \A w \in Unswapped : owner[w] = s =>
         w \in Unswapped' /\ owner'[w] = s /\ src'[w] = src[w]

\* The parts in the lists stay as they are.
ListedKept ==
  \A p \in listed : p \in listed' /\ rows'[p] = rows[p] /\ ptype'[p] = ptype[p]

LEMMA ComingListed ==
  ASSUME TypeOK, ClaimInv, NEW s \in Snapshotter
  PROVE  ComingParts(s) \subseteq listed
BY DEF ComingParts, FileParts, OfType, ClaimInv, ClaimsAreExclusive, ClaimsAreDisjoint, SourcesListed, Unswapped, Caller

\* Parts which wait for their flush, or are flushed, while lists only grow.
LEMMA ComingKept ==
  ASSUME DatadbInv, NEW s \in Snapshotter, ListedKept,
         claim[s] \subseteq ComingParts(s)',
         \A w \in Unswapped : owner[w] = s => src[w] \subseteq ComingParts(s)'
  PROVE  RowsOf(ComingParts(s)) \subseteq RowsOf(ComingParts(s))'
<1>1. FileParts \subseteq ComingParts(s)'
  BY DEF ListedKept, ComingParts, FileParts, OfType
<1>2. ComingParts(s) \subseteq ComingParts(s)'
  BY <1>1 DEF ComingParts
<1>3. \A p \in ComingParts(s) : rows'[p] = rows[p]
  BY ComingListed DEF DatadbInv, ListedKept
<1> QED BY <1>2, <1>3 DEF RowsOf

LEMMA SnapshotKept ==
  ASSUME DatadbInv, DatadbInv', [Next]_vars, ~Crash, NEW s \in Snapshotter, SnapshotHas(s),
         SnapshotUntouched(s),
         cpc[s] = "flushing" => RowsOf(ComingParts(s)) \subseteq RowsOf(ComingParts(s))'
  PROVE  SnapshotHas(s)'
<1>1. \A p \in held[s] : rows'[p] = rows[p]
  BY HeldRowsStay, DatadbUses DEF SnapshotUntouched, Reader
<1>2. RowsOf(held[s] \ linked[s])' = RowsOf(held[s] \ linked[s])
  BY <1>1 DEF SnapshotUntouched, RowsOf
<1> QED BY <1>2 DEF SnapshotHas, SnapshotUntouched

\* Whatever adds parts and moves none leaves the snapshot what it had.
LEMMA SnapshotUndisturbed ==
  ASSUME DatadbInv, DatadbInv', [Next]_vars, ~Crash, NEW s \in Snapshotter, SnapshotHas(s),
         SnapshotUntouched(s), MergesGoOn(s), ListedKept
  PROVE  SnapshotHas(s)'
<1> SUFFICES ASSUME cpc[s] = "flushing"
             PROVE  RowsOf(ComingParts(s)) \subseteq RowsOf(ComingParts(s))'
  BY SnapshotKept
<1>1. claim[s] \subseteq ComingParts(s)'
  BY DEF MergesGoOn, ComingParts
<1>2. \A w \in Unswapped : owner[w] = s => src[w] \subseteq ComingParts(s)'
  BY DEF MergesGoOn, ComingParts, Unswapped
<1> QED BY <1>1, <1>2, ComingKept

\* A swap moves rows to a file part if a file part or a part of the snapshot is merged.
LEMMA SnapshotSwap ==
  ASSUME RowsInv, NEW s \in Snapshotter, cpc[s] = "flushing", NEW w \in Worker, MergeSwap(w)
  PROVE  RowsOf(ComingParts(s)) \subseteq RowsOf(ComingParts(s))'
<1> USE DEF disk, parts, merges, callers, readers
<1> TypeOK /\ ClaimInv /\ PartsInv
  BY DEF RowsInv, DatadbInv
<1>1. /\ listed' = (listed \ src[w]) \cup NewPart(w) /\ wpc[w] = "written"
      /\ UNCHANGED <<rows, ptype, src, owner, claim>>
      /\ \A v \in Worker \ {w} : wpc'[v] = wpc[v]
  BY DEF MergeSwap, TypeOK
<1>2. RowsOf(NewPart(w)) = RowsOf(src[w])
  BY <1>1 DEF RowsInv, MergesCarryRows
<1>3. ASSUME NEW p \in ComingParts(s), p \notin src[w] PROVE p \in ComingParts(s)'
  <2>1. CASE p \in FileParts
    BY <1>1, <1>3, <2>1 DEF FileParts, OfType, ComingParts
  <2>2. CASE p \in claim[s]
    BY <1>1, <2>2 DEF ComingParts
  <2>3. ASSUME NEW v \in Unswapped, owner[v] = s, p \in src[v] PROVE p \in ComingParts(s)'
    <3>1. v \in Worker \ {w} /\ v \in Unswapped'
      BY <1>1, <1>3, <2>3 DEF Unswapped
    <3> QED BY <1>1, <2>3, <3>1 DEF ComingParts
  <2> QED BY <2>1, <2>2, <2>3 DEF ComingParts
<1>4. ASSUME NEW p \in ComingParts(s), p \in src[w] PROVE NewPart(w) \subseteq ComingParts(s)'
  <2>1. p \in FileParts \/ owner[w] = s
    BY <1>4 DEF ComingParts, Unswapped, ClaimInv, ClaimsAreExclusive, ClaimsAreDisjoint, Caller
  <2>2. IsFinal(w) \/ ptype[p] # "inmemory"
    BY <2>1 DEF IsFinal, Caller, FileParts, OfType, FileType
  <2>3. \A q \in NewPart(w) : ptype[q] # "inmemory" /\ ptype[q] # "none" /\ q \in Part
    BY <1>4, <2>2 DEF NewPart, RowsInv, DatadbInv, FlushInv, DstTypeFits, PartsInv, DstIsPrivate, TypeOK
  <2>4. \A q \in NewPart(w) : ptype[q] \in FileType
    BY <2>3 DEF TypeOK, PartType, FileType
  <2> QED BY <1>1, <2>4 DEF ComingParts, FileParts, OfType
<1>5. ASSUME NEW p \in ComingParts(s), NEW x \in rows[p]
      PROVE  \E q \in ComingParts(s)' : x \in rows[q]
  <2>1. CASE p \in src[w]
    <3>1. x \in RowsOf(NewPart(w))
      BY <1>2, <1>5, <2>1 DEF RowsOf
    <3> QED BY <1>4, <2>1, <3>1 DEF RowsOf
  <2> QED BY <1>3, <1>5, <2>1
<1> QED BY <1>1, <1>5 DEF RowsOf

LEMMA ListedStay ==
  ASSUME RowsInv, [Next]_vars
  PROVE  ListedKept \/ CloseEnd \/ Crash \/ Open \/ \E w \in Worker : MergeSwap(w)
<1>0. listed \subseteq Part
  BY DEF RowsInv, DatadbInv, TypeOK
<1>1. CASE Quiet
  BY <1>1 DEF Quiet, ListedKept
<1>2. ASSUME NEW s \in Shard, NEW R \in SUBSET Row, (R = {} /\ FlushRows(s)) \/ AddRows(s, R)
      PROVE  ListedKept
  <2>1. CASE UNCHANGED parts
    BY <2>1 DEF parts, ListedKept
  <2>2. ASSUME NEW p \in Fresh, NewInmemoryPart(p, buf[s] \cup R) PROVE ListedKept
    <3>1. /\ p \notin listed /\ listed' = listed \cup {p}
          /\ \A q \in Part \ {p} : rows'[q] = rows[q] /\ ptype'[q] = ptype[q]
      BY <1>2, <2>2, FlushAdds, FlushIsNewPart DEF RowsInv, DatadbInv
    <3> QED BY <1>0, <3>1 DEF ListedKept
  <2> QED BY <1>2, <2>1, <2>2, FlushIsNewPart
<1>3. ASSUME NEW s \in Shard, FlushRows(s) PROVE ListedKept
  <2>1. {} \in SUBSET Row
    OBVIOUS
  <2> QED BY <1>2, <1>3, <2>1
<1> QED BY <1>1, <1>2, <1>3, DatadbUses, QuietNext DEF RowsInv

LEMMA SnapshotNext ==
  ASSUME RowsInv, RowsInv', [Next]_vars, NEW s \in Snapshotter, SnapshotHas(s)
  PROVE  SnapshotHas(s)'
<1> USE DEF disk, parts, merges, callers, readers
<1> DatadbInv /\ DatadbInv' /\ TypeOK /\ ClaimInv /\ PartsInv /\ SnapshotShape
  BY DEF RowsInv, DatadbInv, FlushInv
<1>0. /\ s \in Caller /\ s \in Reader /\ s # "flusher" /\ s # "closer" /\ s # "merger"
      /\ s \notin Forcer /\ s \notin Query
  BY CallerAssumption DEF Caller, Reader
<1>1. CASE CloseEnd \/ Crash \/ Open
  <2>1. cpc'[s] = "idle"
    BY <1>0, <1>1 DEF CloseEnd, Crash, LoseMemory, Open, ClaimInv, CallerShape, Running, TypeOK
  <2> QED BY <2>1 DEF SnapshotHas
<1>2. ASSUME NEW w \in Worker, MergeSwap(w) PROVE SnapshotHas(s)'
  <2>1. SnapshotUntouched(s)
    BY <1>2 DEF MergeSwap, SnapshotUntouched
  <2>2. ~Crash
    BY <1>2 DEF MergeSwap, Crash, ClaimInv, CallerShape, Running
  <2> QED BY <1>2, <2>1, <2>2, SnapshotSwap, SnapshotKept
<1>3. ASSUME SnapshotUntouched(s), MergesGoOn(s) PROVE SnapshotHas(s)'
  BY <1>1, <1>2, <1>3, ListedStay, SnapshotUndisturbed
<1>4. ASSUME UNCHANGED <<merges, callers, readers>> PROVE SnapshotHas(s)'
  BY <1>3, <1>4 DEF SnapshotUntouched, MergesGoOn, Unswapped
<1>5. ASSUME NEW t \in Shard, FlushRows(t) \/ \E R \in SUBSET Row : AddRows(t, R) PROVE SnapshotHas(s)'
  BY <1>4, <1>5 DEF FlushRows, AddRows
<1>6. ASSUME NEW p \in Part, DeadlinePasses(p) PROVE SnapshotHas(s)'
  BY <1>4, <1>6 DEF DeadlinePasses
<1>7. ASSUME UNCHANGED <<claim, cpc, readers>>, NEW w \in Worker,
             cpc[s] = "flushing" /\ owner[w] = s /\ w \in Unswapped =>
               w \in Unswapped' /\ owner'[w] = owner[w] /\ src'[w] = src[w],
             \A v \in Worker \ {w} : wpc'[v] = wpc[v] /\ owner'[v] = owner[v] /\ src'[v] = src[v]
      PROVE  SnapshotHas(s)'
  BY <1>3, <1>7 DEF SnapshotUntouched, MergesGoOn, Unswapped
<1>8. ASSUME NEW w \in Worker, MergerStart(w) \/ MergerPick(w) \/ MergerGiveUp(w)
      PROVE  SnapshotHas(s)'
  <2>1. w \notin Unswapped
    BY <1>8 DEF MergerStart, MergerPick, MergerGiveUp, Unswapped
  <2>2. UNCHANGED <<claim, cpc, readers>>
    BY <1>8 DEF MergerStart, MergerPick, MergerGiveUp
  <2>3. \A v \in Worker \ {w} : wpc'[v] = wpc[v] /\ owner'[v] = owner[v] /\ src'[v] = src[v]
    BY <1>8 DEF MergerStart, MergerPick, MergerGiveUp, TypeOK
  <2> QED BY <1>7, <2>1, <2>2, <2>3
<1>9. ASSUME NEW w \in Worker, MergeStep(w) PROVE SnapshotHas(s)'
  <2>1. UNCHANGED <<claim, cpc, readers>>
    BY <1>9 DEF MergeStep, MergeStart, MergeNoSpace, MergeWrite, MergeWriteRows, MergeInterrupt, MergeStop,
                MergeSwap, MergeDrop, MergeRelease
  <2>2. \A v \in Worker \ {w} : wpc'[v] = wpc[v] /\ owner'[v] = owner[v] /\ src'[v] = src[v]
    BY <1>9 DEF MergeStep, MergeStart, MergeNoSpace, MergeWrite, MergeWriteRows, MergeInterrupt, MergeStop,
                MergeSwap, MergeDrop, MergeRelease, TypeOK
  <2>3. CASE MergeStart(w) \/ MergeWrite(w)
    <3>1. w \in Unswapped' /\ owner'[w] = owner[w] /\ src'[w] = src[w]
      BY <2>3 DEF MergeStart, MergeWrite, MergeWriteRows, Unswapped, TypeOK
    <3> QED BY <1>7, <2>1, <2>2, <3>1
  <2>4. CASE MergeNoSpace(w) \/ MergeInterrupt(w)
    <3>1. cpc[s] = "flushing" => owner[w] # s
      BY <1>0, <2>4 DEF MergeNoSpace, MergeInterrupt, MergeStop, IsFinal
    <3> QED BY <1>7, <2>1, <2>2, <3>1
  <2>5. CASE MergeDrop(w) \/ MergeRelease(w)
    <3>1. w \notin Unswapped
      BY <2>5 DEF MergeDrop, MergeRelease, Unswapped
    <3> QED BY <1>7, <2>1, <2>2, <3>1
  <2> QED BY <1>2, <1>9, <2>3, <2>4, <2>5 DEF MergeStep
<1>10. ASSUME NEW c \in Caller, NEW w \in Worker, SpawnMerge(c, w) PROVE SnapshotHas(s)'
  <2>1. /\ wpc[w] = "idle" /\ wpc'[w] = "claimed" /\ owner'[w] = c
        /\ UNCHANGED <<cpc, readers, listed, rows, ptype>>
    BY <1>10 DEF SpawnMerge, TypeOK
  <2>2. /\ \A v \in Worker \ {w} : wpc'[v] = wpc[v] /\ owner'[v] = owner[v] /\ src'[v] = src[v]
        /\ claim[c] = claim'[c] \cup src'[w] /\ \A d \in Caller \ {c} : claim'[d] = claim[d]
    BY <1>10 DEF SpawnMerge, TypeOK
  <2>3. claim[s] \subseteq ComingParts(s)'
    BY <1>0, <2>1, <2>2 DEF ComingParts, Unswapped
  <2>4. \A v \in Unswapped : owner[v] = s => src[v] \subseteq ComingParts(s)'
    BY <2>1, <2>2 DEF ComingParts, Unswapped
  <2>5. SnapshotUntouched(s) /\ ListedKept
    BY <2>1 DEF SnapshotUntouched, ListedKept
  <2> QED BY <1>1, <2>3, <2>4, <2>5, ComingKept, SnapshotKept
<1>11. ASSUME UNCHANGED <<merges, readers>>, NEW c \in Caller \ {s},
              \A d \in Caller \ {c} : cpc'[d] = cpc[d] /\ claim'[d] = claim[d]
       PROVE  SnapshotHas(s)'
  BY <1>0, <1>3, <1>11 DEF SnapshotUntouched, MergesGoOn, Unswapped
<1>12. ASSUME FlusherTick \/ FlusherDone PROVE SnapshotHas(s)'
  <2>1. "flusher" \in Caller \ {s} /\ UNCHANGED <<merges, readers>>
    BY <1>0, <1>12 DEF Caller, FlusherTick, FlusherDone
  <2>2. \A d \in Caller \ {"flusher"} : cpc'[d] = cpc[d] /\ claim'[d] = claim[d]
    BY <1>12 DEF FlusherTick, FlusherDone, Claim, TypeOK
  <2> QED BY <1>11, <2>1, <2>2
<1>13. ASSUME NEW f \in Forcer, ForceStart(f) \/ ForceCollect(f) \/ ForceDone(f) PROVE SnapshotHas(s)'
  <2>1. f \in Caller \ {s} /\ UNCHANGED <<merges, readers>>
    BY <1>0, <1>13 DEF Caller, ForceStart, ForceCollect, ForceDone
  <2>2. \A d \in Caller \ {f} : cpc'[d] = cpc[d] /\ claim'[d] = claim[d]
    BY <1>13 DEF ForceStart, ForceCollect, ForceDone, Claim, TypeOK
  <2> QED BY <1>11, <2>1, <2>2
<1>14. ASSUME CloseBegin \/ CloseStop PROVE SnapshotHas(s)'
  BY <1>4, <1>14 DEF CloseBegin, CloseStop
<1>15. ASSUME CloseFinalFlush PROVE SnapshotHas(s)'
  <2>1. "closer" \in Caller \ {s} /\ UNCHANGED <<merges, readers>>
    BY <1>0, <1>15 DEF Caller, CloseFinalFlush
  <2>2. \A d \in Caller \ {"closer"} : cpc'[d] = cpc[d] /\ claim'[d] = claim[d]
    BY <1>15 DEF CloseFinalFlush, Claim, TypeOK
  <2> QED BY <1>11, <2>1, <2>2
<1>16. ASSUME NEW q \in Query, QueryStart(q) \/ QueryRelease(q) PROVE SnapshotHas(s)'
  <2>1. SnapshotUntouched(s)
    BY <1>0, <1>16 DEF QueryStart, QueryRelease, ReleaseOne, SnapshotUntouched, TypeOK
  <2>2. MergesGoOn(s)
    BY <1>16 DEF QueryStart, QueryRelease, ReleaseOne, MergesGoOn, Unswapped
  <2> QED BY <1>3, <2>1, <2>2
<1>17. ASSUME NEW t \in Snapshotter \ {s},
              \/ SnapshotStart(t) \/ SnapshotGrab(t) \/ SnapshotLink(t)
              \/ SnapshotLinked(t) \/ SnapshotRelease(t) \/ SnapshotDone(t)
       PROVE  SnapshotHas(s)'
  <2>1. SnapshotUntouched(s)
    BY <1>0, <1>17 DEF SnapshotStart, SnapshotGrab, SnapshotLink, SnapshotLinked, SnapshotRelease,
                       SnapshotDone, ReleaseOne, SnapshotUntouched, TypeOK, Reader, Caller
  <2>2. MergesGoOn(s)
    BY <1>0, <1>17 DEF SnapshotStart, SnapshotGrab, SnapshotLink, SnapshotLinked, SnapshotRelease,
                       SnapshotDone, ReleaseOne, MergesGoOn, Unswapped, Claim, TypeOK, Caller
  <2> QED BY <1>3, <2>1, <2>2
<1>18. ASSUME SnapshotStart(s) PROVE SnapshotHas(s)'
  <2>1. /\ cpc'[s] = "flushing" /\ claim'[s] = ToFlush(TRUE) /\ UNCHANGED <<listed, ptype, rows>>
        /\ snapMust'[s] = RowsOf(FileParts) \cup RowsOf(ToFlush(TRUE))
    BY <1>0, <1>18 DEF SnapshotStart, Claim, SnapshotGoal, TypeOK
  <2>2. FileParts \cup ToFlush(TRUE) \subseteq ComingParts(s)'
    BY <2>1 DEF ComingParts, FileParts, OfType
  <2>3. snapMust'[s] \subseteq RowsOf(ComingParts(s))'
    BY <2>1, <2>2 DEF RowsOf
  <2> QED BY <2>1, <2>3 DEF SnapshotHas
<1>19. ASSUME SnapshotGrab(s) PROVE SnapshotHas(s)'
  <2>1. ComingParts(s) = FileParts
    BY <1>19 DEF SnapshotGrab, AllMerged, ComingParts, Unswapped
  <2>2. /\ cpc[s] = "flushing" /\ cpc'[s] = "linking" /\ held'[s] = FileParts
        /\ linked[s] = {} /\ UNCHANGED <<linked, rows, snapMust>>
    BY <1>0, <1>19 DEF SnapshotGrab, SnapshotShape, TypeOK
  <2>3. RowsOf(held[s] \ linked[s])' = RowsOf(FileParts)
    BY <2>2 DEF RowsOf
  <2> QED BY <2>1, <2>2, <2>3 DEF SnapshotHas
<1>20. ASSUME SnapshotLink(s) PROVE SnapshotHas(s)'
  <2>1. PICK p \in held[s] \ linked[s] :
          /\ linked'[s] = linked[s] \cup {p} /\ snapRows'[s] = snapRows[s] \cup rows[p]
    BY <1>20 DEF SnapshotLink, TypeOK
  <2>2. cpc[s] = "linking" /\ UNCHANGED <<cpc, held, rows, snapMust>>
    BY <1>20 DEF SnapshotLink
  <2>3. RowsOf(held[s] \ linked[s]) \subseteq rows[p] \cup RowsOf(held[s] \ linked[s])'
    BY <2>1, <2>2 DEF RowsOf
  <2> QED BY <2>1, <2>2, <2>3 DEF SnapshotHas
<1>21. ASSUME SnapshotLinked(s) PROVE SnapshotHas(s)'
  <2>1. /\ cpc[s] = "linking" /\ cpc'[s] = "releasing" /\ linked[s] = held[s]
        /\ UNCHANGED <<snapMust, snapRows>>
    BY <1>0, <1>21 DEF SnapshotLinked, TypeOK
  <2>2. RowsOf(held[s] \ linked[s]) = {}
    BY <2>1 DEF RowsOf
  <2> QED BY <2>1, <2>2 DEF SnapshotHas
<1>22. ASSUME SnapshotRelease(s) PROVE SnapshotHas(s)'
  BY <1>22 DEF SnapshotRelease, ReleaseOne, SnapshotHas
<1>23. ASSUME SnapshotDone(s) PROVE SnapshotHas(s)'
  <2>1. cpc'[s] = "idle"
    BY <1>0, <1>23 DEF SnapshotDone, TypeOK
  <2> QED BY <2>1 DEF SnapshotHas
<1>24. ASSUME UNCHANGED vars PROVE SnapshotHas(s)'
  BY <1>4, <1>24 DEF vars
<1> QED
  BY <1>1, <1>5, <1>6, <1>8, <1>9, <1>10, <1>12, <1>13, <1>14, <1>15, <1>16, <1>17, <1>18, <1>19,
     <1>20, <1>21, <1>22, <1>23, <1>24 DEF Next

\* mustCreateSnapshotAt(): a finished snapshot holds every row which was on disk, or in
\* an in-memory part nobody was merging, when it started, although merges replace and
\* delete those parts while it flushes and links.
THEOREM SnapshotsAreComplete == Spec => []SnapshotIsComplete
<1> DEFINE SnapshotsHave == \A s \in Snapshotter : SnapshotHas(s)
<1>1. Init => SnapshotsHave
  BY DEF Init, SnapshotHas, Caller
<1>2. RowsInv /\ RowsInv' /\ SnapshotsHave /\ [Next]_vars => SnapshotsHave'
  BY SnapshotNext
<1>3. SnapshotsHave => SnapshotIsComplete
  BY DEF SnapshotHas, SnapshotIsComplete
<1> QED BY <1>1, <1>2, <1>3, RowsCorrect, PTL DEF Spec

=============================================================================
