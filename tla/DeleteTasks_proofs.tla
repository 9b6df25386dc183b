------------------------- MODULE DeleteTasks_proofs -------------------------
(***************************************************************************)
(* Theorems about DeleteTasks, for any number of tasks and of callers of   *)
(* DeleteStopTask(): the queue loses no task.                              *)
(***************************************************************************)
EXTENDS DeleteTasks, SequenceTheorems, TLAPS

Unique(q) == \A i, j \in 1..Len(q) : i # j => q[i] # q[j]

\* While the storage is open, delete_tasks.json is what the executor sees; otherwise
\* there is no executor.
FileInv ==
  /\ phase \in {"open", "stopping"} => saved = deleteTasks
  /\ phase \in {"closed", "crashed"} => deleteTasks = <<>> /\ pc = "waiting"

\* A task is queued once, since it is registered once.
UniqueInv == Unique(saved) /\ Queued(saved) \subseteq registered

\* The first task stays where it is while it is executed.
FirstInv == running # NoTask => deleteTasks # <<>> /\ Head(deleteTasks) = running

\* A context is cancelled on request only, and a task is over for a reason.
ReasonInv ==
  /\ canceled => running = NoTask \/ running \in asked
  /\ pc \in {"processed", "done"} /\ ok => running \in completed \cup asked \cup cut

\* A caller sees the doneCh of a task.
WaitInv == \A c \in doneSeen : waits[c] \in Task

\* The inductive invariant.
QueueInv ==
  TaskTypeOK /\ WaitInv /\ FileInv /\ UniqueInv /\ FirstInv /\ ReasonInv /\ RegisteredTaskIsSaved

-----------------------------------------------------------------------------
(* Queues *)

\* Appending a new task keeps the others, and the first one.
LEMMA AppendFacts ==
  ASSUME NEW q \in Seq(Task), NEW t \in Task
  PROVE  /\ Append(q, t) \in Seq(Task) /\ Append(q, t) # <<>>
         /\ Queued(Append(q, t)) = Queued(q) \cup {t}
         /\ Unique(q) /\ t \notin Queued(q) => Unique(Append(q, t))
         /\ q # <<>> => Head(Append(q, t)) = Head(q)
<1>1. /\ Append(q, t) \in Seq(Task) /\ Len(q) \in Nat /\ Len(Append(q, t)) = Len(q) + 1
      /\ \A i \in 1..Len(q) : Append(q, t)[i] = q[i]
      /\ Append(q, t)[Len(q) + 1] = t
  BY AppendProperties, LenProperties
<1>2. Append(q, t) # <<>>
  BY <1>1, EmptySeq
<1>3. Queued(Append(q, t)) = Queued(q) \cup {t}
  BY <1>1 DEF Queued
<1>4. Unique(q) /\ t \notin Queued(q) => Unique(Append(q, t))
  BY <1>1 DEF Unique, Queued
<1>5. q # <<>> => Head(Append(q, t)) = Head(q)
  BY <1>1, <1>2, EmptySeq, HeadTailProperties
<1> QED BY <1>1, <1>2, <1>3, <1>4, <1>5

\* s.deleteTasks[1:] is the queue without its first task.
LEMMA TailFacts ==
  ASSUME NEW q \in Seq(Task), q # <<>>
  PROVE  /\ Tail(q) \in Seq(Task) /\ Head(q) \in Task
         /\ Queued(q) = Queued(Tail(q)) \cup {Head(q)}
         /\ Unique(q) => Unique(Tail(q)) /\ Head(q) \notin Queued(Tail(q))
<1>1. /\ Len(q) \in Nat /\ Len(q) > 0
      /\ Tail(q) \in Seq(Task) /\ Len(Tail(q)) = Len(q) - 1
      /\ \A i \in 1..Len(Tail(q)) : Tail(q)[i] = q[i + 1]
      /\ Head(q) = q[1] /\ Head(q) \in Task
  BY HeadTailProperties, LenProperties, EmptySeq, ElementOfSeq
<1>2. Queued(q) \subseteq Queued(Tail(q)) \cup {Head(q)}
  <2> SUFFICES ASSUME NEW i \in 1..Len(q) PROVE q[i] \in Queued(Tail(q)) \cup {Head(q)}
    BY DEF Queued
  <2>1. CASE i = 1
    BY <1>1, <2>1
  <2>2. CASE i # 1
    <3>1. i - 1 \in 1..Len(Tail(q)) /\ Tail(q)[i - 1] = q[i]
      BY <1>1, <2>2
    <3> QED BY <3>1 DEF Queued
  <2> QED BY <2>1, <2>2
<1>3. Queued(Tail(q)) \cup {Head(q)} \subseteq Queued(q)
  BY <1>1 DEF Queued
<1>4. Unique(q) => Unique(Tail(q)) /\ Head(q) \notin Queued(Tail(q))
  BY <1>1 DEF Unique, Queued
<1> QED BY <1>1, <1>2, <1>3, <1>4

\* A task which is dropped isn't the first one, and the others stay.
LEMMA WithoutFacts ==
  ASSUME NEW q \in Seq(Task), NEW i \in 1..Len(q)
  PROVE  /\ Without(q, i) \in Seq(Task)
         /\ Queued(Without(q, i)) \subseteq Queued(q)
         /\ Queued(q) \subseteq Queued(Without(q, i)) \cup {q[i]}
         /\ Unique(q) => Unique(Without(q, i))
         /\ q[i] # Head(q) => Without(q, i) # <<>> /\ Head(Without(q, i)) = Head(q)
<1> DEFINE r == Without(q, i)
<1>1. Len(q) \in Nat /\ Len(q) > 0 /\ q # <<>> /\ Head(q) = q[1]
      /\ \A j \in 1..Len(q) : q[j] \in Task
  BY LenProperties, EmptySeq, HeadTailProperties, ElementOfSeq
<1>2. r \in Seq(Task)
  <2>1. \A j \in 1..(Len(q) - 1) : (IF j < i THEN q[j] ELSE q[j + 1]) \in Task
    BY <1>1
  <2>2. r \in [1..(Len(q) - 1) -> Task] /\ Len(q) - 1 \in Nat
    BY <1>1, <2>1 DEF Without
  <2> QED BY <2>2, SeqDef
<1>3. Len(r) = Len(q) - 1 /\ \A j \in 1..Len(r) : r[j] = IF j < i THEN q[j] ELSE q[j + 1]
  <2>1. DOMAIN r = 1..(Len(q) - 1)
    BY DEF Without
  <2>2. Len(r) = Len(q) - 1
    BY <1>1, <1>2, <2>1, LenProperties
  <2> QED BY <2>2 DEF Without
<1>4. Queued(r) \subseteq Queued(q)
  BY <1>1, <1>3 DEF Queued
<1>5. Queued(q) \subseteq Queued(r) \cup {q[i]}
  <2> SUFFICES ASSUME NEW j \in 1..Len(q), j # i PROVE q[j] \in Queued(r)
    BY DEF Queued
  <2>1. CASE j < i
    <3>1. j \in 1..Len(r) /\ r[j] = q[j]
      BY <1>1, <1>3, <2>1
    <3> QED BY <3>1 DEF Queued
  <2>2. CASE j > i
    <3>1. j - 1 \in 1..Len(r) /\ r[j - 1] = q[j]
      BY <1>1, <1>3, <2>2
    <3> QED BY <3>1 DEF Queued
  <2> QED BY <2>1, <2>2
<1>6. Unique(q) => Unique(r)
  BY <1>1, <1>3 DEF Unique
<1>7. q[i] # Head(q) => r # <<>> /\ Head(r) = Head(q)
  <2>1. SUFFICES ASSUME q[i] # Head(q) PROVE r # <<>> /\ Head(r) = Head(q)
    OBVIOUS
  <2>2. i > 1 /\ Len(r) > 0 /\ r[1] = q[1]
    BY <1>1, <1>3, <2>1
  <2> QED BY <1>1, <1>2, <2>2, EmptySeq, HeadTailProperties
<1> QED BY <1>2, <1>4, <1>5, <1>6, <1>7
-----------------------------------------------------------------------------
(* The inductive invariant *)

\* It holds when the storage is opened first.
LEMMA QueueInit == Init => QueueInv
<1> SUFFICES ASSUME Init PROVE QueueInv
  OBVIOUS
<1>1. deleteTasks = <<>> /\ saved = <<>> /\ <<>> \in Seq(Task) /\ Len(<<>>) = 0
  BY EmptySeq DEF Init
<1>2. TaskTypeOK
  BY <1>1, TaskAssumption DEF Init, TaskTypeOK
<1>3. Queued(saved) = {} /\ Unique(saved)
  BY <1>1 DEF Queued, Unique
<1> QED
  BY <1>1, <1>2, <1>3
  DEF Init, QueueInv, WaitInv, FileInv, UniqueInv, FirstInv, ReasonInv, RegisteredTaskIsSaved

\* A queue which is saved is a queue of registered tasks.
LEMMA QueueTypes ==
  ASSUME QueueInv, phase \in {"open", "stopping"}
  PROVE  /\ saved = deleteTasks /\ deleteTasks \in Seq(Task)
         /\ Unique(deleteTasks) /\ Queued(deleteTasks) \subseteq registered
BY DEF QueueInv, TaskTypeOK, FileInv, UniqueInv

\* No step breaks it.
LEMMA QueueNext == QueueInv /\ [Next]_vars => QueueInv'
<1> SUFFICES ASSUME QueueInv, [Next]_vars PROVE QueueInv'
  OBVIOUS
<1> USE DEF executor, stoppers, history
<1>1. ASSUME NEW t \in Task, RunTask(t) PROVE QueueInv'
  <2> DEFINE q == Append(deleteTasks, t)
  <2>1. /\ saved = deleteTasks /\ deleteTasks \in Seq(Task)
        /\ Unique(deleteTasks) /\ Queued(deleteTasks) \subseteq registered
    BY <1>1, QueueTypes DEF RunTask
  <2>2. t \notin Queued(deleteTasks) /\ deleteTasks' = q /\ saved' = q
    BY <1>1, <2>1 DEF RunTask, Save
  <2>3. /\ q \in Seq(Task) /\ q # <<>>
        /\ Queued(q) = Queued(deleteTasks) \cup {t}
        /\ Unique(q)
        /\ deleteTasks # <<>> => Head(q) = Head(deleteTasks)
    BY <2>1, <2>2, AppendFacts
  <2>4. TaskTypeOK' /\ WaitInv' /\ FileInv' /\ FirstInv' /\ ReasonInv'
    BY <1>1, <2>2, <2>3
    DEF RunTask, QueueInv, TaskTypeOK, WaitInv, FileInv, FirstInv, ReasonInv
  <2>5. UniqueInv' /\ RegisteredTaskIsSaved'
    <3>1. Unique(saved') /\ Queued(saved') = Queued(saved) \cup {t}
      BY <2>1, <2>2, <2>3
    <3>2. registered' = registered \cup {t}
      BY <1>1 DEF RunTask
    <3> QED BY <1>1, <3>1, <3>2 DEF RunTask, QueueInv, UniqueInv, RegisteredTaskIsSaved, Unique, Queued
  <2> QED BY <2>4, <2>5 DEF QueueInv
<1>2. ASSUME Take PROVE QueueInv'
  <2>1. saved = deleteTasks /\ deleteTasks \in Seq(Task) /\ deleteTasks # <<>>
    BY <1>2, QueueTypes DEF Take
  <2>2. Head(deleteTasks) \in Task
    BY <2>1, HeadTailProperties
  <2>3. TaskTypeOK' /\ WaitInv' /\ FileInv' /\ FirstInv' /\ ReasonInv'
    BY <1>2, <2>1, <2>2, TaskAssumption
    DEF Take, QueueInv, TaskTypeOK, WaitInv, FileInv, FirstInv, ReasonInv
  <2>4. UniqueInv' /\ RegisteredTaskIsSaved'
    BY <1>2 DEF Take, QueueInv, UniqueInv, RegisteredTaskIsSaved, Unique, Queued
  <2> QED BY <2>3, <2>4 DEF QueueInv
<1>3. ASSUME ProcessComplete \/ ProcessCut \/ ProcessPostpone \/ ProcessFail PROVE QueueInv'
  <2>1. UNCHANGED <<phase, deleteTasks, saved, running, canceled, registered, asked, stoppers,
                    stopped>>
    BY <1>3 DEF ProcessComplete, ProcessCut, ProcessPostpone, ProcessFail
  <2>2. /\ pc = "processing" /\ pc' = "processed" /\ ok' \in BOOLEAN
        /\ completed' = completed \cup {running} \/ completed' = completed
        /\ cut' = cut \cup {running} \/ cut' = cut
        /\ ok' => \/ running \in completed' \cup cut' \/ canceled
    BY <1>3 DEF ProcessComplete, ProcessCut, ProcessPostpone, ProcessFail, QueueInv, TaskTypeOK
  <2>3. running \in Task
    BY <2>2 DEF QueueInv, TaskTypeOK
  <2>4. TaskTypeOK' /\ WaitInv' /\ FileInv' /\ FirstInv' /\ ReasonInv'
    BY <2>1, <2>2, <2>3, TaskAssumption
    DEF QueueInv, TaskTypeOK, WaitInv, FileInv, FirstInv, ReasonInv
  <2>5. UniqueInv' /\ RegisteredTaskIsSaved'
    BY <2>1, <2>2 DEF QueueInv, UniqueInv, RegisteredTaskIsSaved, Unique, Queued
  <2> QED BY <2>4, <2>5 DEF QueueInv
<1>4. ASSUME CloseDone PROVE QueueInv'
  BY <1>4
  DEF CloseDone, QueueInv, TaskTypeOK, WaitInv, FileInv, UniqueInv, Unique, Queued, FirstInv, ReasonInv,
      RegisteredTaskIsSaved
<1>5. ASSUME Finish PROVE QueueInv'
  <2>1. pc = "done" /\ running \in Task /\ running # NoTask
    BY <1>5, TaskAssumption DEF Finish, QueueInv, TaskTypeOK
  <2>2. phase \in {"open", "stopping"}
    BY <2>1 DEF QueueInv, TaskTypeOK, FileInv
  <2>3. /\ saved = deleteTasks /\ deleteTasks \in Seq(Task)
        /\ Unique(deleteTasks) /\ Queued(deleteTasks) \subseteq registered
    BY <2>2, QueueTypes
  <2>4. deleteTasks # <<>> /\ Head(deleteTasks) = running
    BY <2>1 DEF QueueInv, FirstInv
  <2>5. /\ Tail(deleteTasks) \in Seq(Task)
        /\ Queued(deleteTasks) = Queued(Tail(deleteTasks)) \cup {running}
        /\ Unique(Tail(deleteTasks)) /\ running \notin Queued(Tail(deleteTasks))
    BY <2>3, <2>4, TailFacts
  <2> DEFINE q == Requeue(deleteTasks)
  <2>6. /\ q \in Seq(Task) /\ Unique(q) /\ Queued(q) \subseteq Queued(deleteTasks)
        /\ Queued(deleteTasks) \subseteq Queued(q) \cup completed \cup asked \cup cut
    <3>1. CASE ok
      <4>1. q = Tail(deleteTasks) /\ running \in completed \cup asked \cup cut
        BY <2>1, <3>1 DEF Requeue, QueueInv, ReasonInv
      <4> QED BY <2>5, <4>1
    <3>2. CASE ~ok
      <4>1. q = Append(Tail(deleteTasks), running)
        BY <3>2 DEF Requeue
      <4>2. q \in Seq(Task) /\ Unique(q) /\ Queued(q) = Queued(Tail(deleteTasks)) \cup {running}
        BY <2>1, <2>5, <4>1, AppendFacts
      <4> QED BY <2>5, <4>2
    <3> QED BY <3>1, <3>2
  <2>7. deleteTasks' = q /\ saved' = q
    BY <1>5 DEF Finish, Save
  <2>8. TaskTypeOK' /\ WaitInv' /\ FileInv' /\ FirstInv' /\ ReasonInv'
    BY <1>5, <2>2, <2>6, <2>7 DEF Finish, QueueInv, TaskTypeOK, WaitInv, FileInv, FirstInv, ReasonInv
  <2>9. UniqueInv' /\ RegisteredTaskIsSaved'
    <3>1. /\ Unique(saved') /\ Queued(saved') \subseteq Queued(saved)
          /\ Queued(saved) \subseteq Queued(saved') \cup completed \cup asked \cup cut
      BY <2>3, <2>6, <2>7
    <3> QED BY <1>5, <3>1 DEF Finish, QueueInv, UniqueInv, RegisteredTaskIsSaved, Unique, Queued
  <2> QED BY <2>8, <2>9 DEF QueueInv
<1>6. ASSUME NEW t \in Task, NEW c \in Stopper, StopTask(c, t) PROVE QueueInv'
  <2>1. CASE DropTask(c, t)
    <3>1. /\ saved = deleteTasks /\ deleteTasks \in Seq(Task)
          /\ Unique(deleteTasks) /\ Queued(deleteTasks) \subseteq registered
      BY <1>6, QueueTypes DEF StopTask
    <3>2. PICK i \in 1..Len(deleteTasks) :
            deleteTasks[i] = t /\ Save(Without(deleteTasks, i))
      BY <2>1 DEF DropTask
    <3> DEFINE q == Without(deleteTasks, i)
    <3>3. /\ q \in Seq(Task) /\ Unique(q) /\ Queued(q) \subseteq Queued(deleteTasks)
          /\ Queued(deleteTasks) \subseteq Queued(q) \cup {t}
          /\ t # Head(deleteTasks) => q # <<>> /\ Head(q) = Head(deleteTasks)
      BY <3>1, <3>2, WithoutFacts
    <3>4. deleteTasks' = q /\ saved' = q
      BY <3>2 DEF Save
    <3>5. TaskTypeOK' /\ WaitInv' /\ FileInv' /\ FirstInv' /\ ReasonInv'
      BY <1>6, <2>1, <3>3, <3>4
      DEF StopTask, DropTask, QueueInv, TaskTypeOK, WaitInv, FileInv, FirstInv, ReasonInv
    <3>6. UniqueInv' /\ RegisteredTaskIsSaved'
      <4>1. /\ Unique(saved') /\ Queued(saved') \subseteq Queued(saved)
            /\ Queued(saved) \subseteq Queued(saved') \cup {t}
        BY <3>1, <3>3, <3>4
      <4> QED
        BY <1>6, <4>1 DEF StopTask, QueueInv, UniqueInv, RegisteredTaskIsSaved, Unique, Queued
    <3> QED BY <3>5, <3>6 DEF QueueInv
  <2>2. CASE CancelTask(c, t)
    <3>1. TaskTypeOK' /\ WaitInv' /\ FileInv' /\ FirstInv' /\ ReasonInv'
      BY <1>6, <2>2
      DEF StopTask, CancelTask, QueueInv, TaskTypeOK, WaitInv, FileInv, FirstInv, ReasonInv
    <3>2. UniqueInv' /\ RegisteredTaskIsSaved'
      BY <1>6, <2>2
      DEF StopTask, CancelTask, QueueInv, UniqueInv, RegisteredTaskIsSaved, Unique, Queued
    <3> QED BY <3>1, <3>2 DEF QueueInv
  <2> QED BY <1>6, <2>1, <2>2 DEF StopTask
<1>7. ASSUME NEW c \in Stopper, StopReturns(c) \/ StopFails(c) PROVE QueueInv'
  <2>1. TaskTypeOK' /\ WaitInv' /\ FileInv' /\ FirstInv' /\ ReasonInv'
    <3>1. CASE StopReturns(c)
      <4>1. waits[c] \in Task
        BY <3>1 DEF StopReturns, QueueInv, WaitInv
      <4> QED BY <3>1 DEF StopReturns, QueueInv, TaskTypeOK, WaitInv, FileInv, FirstInv, ReasonInv
    <3>2. CASE StopFails(c)
      BY <3>2 DEF StopFails, QueueInv, TaskTypeOK, WaitInv, FileInv, FirstInv, ReasonInv
    <3> QED BY <1>7, <3>1, <3>2
  <2>2. UniqueInv' /\ RegisteredTaskIsSaved'
    BY <1>7
    DEF StopReturns, StopFails, QueueInv, UniqueInv, RegisteredTaskIsSaved, Unique, Queued
  <2> QED BY <2>1, <2>2 DEF QueueInv
<1>8. ASSUME CloseBegin \/ CloseEnd \/ Crash \/ Open PROVE QueueInv'
  <2>1. TaskTypeOK' /\ WaitInv' /\ FileInv' /\ FirstInv' /\ ReasonInv'
    <3>1. CASE CloseBegin
      BY <3>1 DEF CloseBegin, QueueInv, TaskTypeOK, WaitInv, FileInv, FirstInv, ReasonInv
    <3>2. CASE CloseEnd
      BY <3>2, EmptySeq DEF CloseEnd, QueueInv, TaskTypeOK, WaitInv, FileInv, FirstInv, ReasonInv
    <3>3. CASE Crash
      BY <3>3, EmptySeq, TaskAssumption
      DEF Crash, QueueInv, TaskTypeOK, WaitInv, FileInv, FirstInv, ReasonInv
    <3>4. CASE Open
      BY <3>4 DEF Open, QueueInv, TaskTypeOK, WaitInv, FileInv, FirstInv, ReasonInv
    <3> QED BY <1>8, <3>1, <3>2, <3>3, <3>4
  <2>2. UniqueInv' /\ RegisteredTaskIsSaved'
    BY <1>8
    DEF CloseBegin, CloseEnd, Crash, Open, QueueInv, UniqueInv, RegisteredTaskIsSaved, Unique,
        Queued
  <2> QED BY <2>1, <2>2 DEF QueueInv
<1>9. ASSUME UNCHANGED vars PROVE QueueInv'
  BY <1>9
  DEF vars, QueueInv, TaskTypeOK, WaitInv, FileInv, UniqueInv, Unique, Queued, FirstInv, ReasonInv,
      RegisteredTaskIsSaved
<1> QED
  BY <1>1, <1>2, <1>3, <1>4, <1>5, <1>6, <1>7, <1>8, <1>9 DEF Next, Execute

-----------------------------------------------------------------------------
(* Theorems *)

\* DeleteTasks always satisfies the inductive invariant.
THEOREM QueueCorrect == Spec => []QueueInv
BY QueueInit, QueueNext, PTL DEF Spec

\* TaskInv, for any number of tasks and stoppers: the task which is removed or moved
\* after its execution is the one which was executed, whatever requests did to the queue
\* meanwhile, and a registered task leaves delete_tasks.json for a reason, whenever the
\* process crashes.
THEOREM TasksAreKept == Spec => []TaskInv
<1>1. QueueInv => TaskInv
  <2> SUFFICES ASSUME QueueInv PROVE TaskInv
    OBVIOUS
  <2>1. ExecutedTaskIsFirst
    <3>1. CASE phase \in {"open", "stopping"}
      BY <3>1 DEF QueueInv, FileInv, UniqueInv, Unique, FirstInv, ExecutedTaskIsFirst
    <3>2. CASE phase \in {"closed", "crashed"}
      <4>1. deleteTasks = <<>> /\ running = NoTask /\ Len(<<>>) = 0
        BY <3>2, EmptySeq DEF QueueInv, TaskTypeOK, FileInv
      <4> QED BY <4>1 DEF ExecutedTaskIsFirst
    <3> QED BY <3>1, <3>2 DEF QueueInv, TaskTypeOK
  <2> QED BY <2>1 DEF QueueInv, TaskInv
<1> QED BY <1>1, QueueCorrect, PTL

\* OnlyShutdownCutsTasks, for any number of tasks and stoppers: as long as stopCh is open
\* a task isn't taken for completed unless somebody asked to stop it.
THEOREM CutsAreAsked == Spec => OnlyShutdownCutsTasks
<1>1. QueueInv /\ [Next]_vars => [phase = "open" => cut' \ cut \subseteq asked]_vars
  <2> SUFFICES ASSUME QueueInv, Next, phase = "open" PROVE cut' \ cut \subseteq asked
    OBVIOUS
  <2>1. CASE ProcessCut
    BY <2>1 DEF ProcessCut, NeedStop, QueueInv, TaskTypeOK, ReasonInv
  <2>2. CASE ~ProcessCut
    BY <2>2
    DEF Next, Execute, RunTask, StopTask, StopReturns, StopFails, Take, ProcessComplete,
        ProcessPostpone, ProcessFail, CloseDone, Finish, CloseBegin, CloseEnd, Crash, Open,
        history
  <2> QED BY <2>1, <2>2
<1> QED BY <1>1, QueueCorrect, PTL DEF Spec, OnlyShutdownCutsTasks
=============================================================================
