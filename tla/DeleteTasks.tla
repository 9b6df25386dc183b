----------------------------- MODULE DeleteTasks -----------------------------
(***************************************************************************)
(* The queue of delete tasks: lib/logstorage/storage.go, DeleteRunTask(),  *)
(* DeleteStopTask(), watchDeleteTasks() and processDeleteTask().           *)
(*                                                                         *)
(* Requests add tasks to the queue and cancel them under deleteTasksLock;  *)
(* one goroutine executes the first task without the lock and then removes *)
(* it, or moves it to the end of the queue.  Every change of the queue is  *)
(* written to delete_tasks.json before the lock is released.  What a task  *)
(* deletes is modelled by DatadbDelete.                                    *)
(***************************************************************************)
EXTENDS Naturals, Sequences

CONSTANTS
  Task,     \* ids of tasks; a task is registered at most once
  NoTask,
  Stuck,    \* tasks which can never be completed: their subqueries always fail
  Stopper   \* callers of DeleteStopTask()

ASSUME TaskAssumption == NoTask \notin Task /\ Stuck \subseteq Task

VARIABLES
  phase,        \* "open", "stopping" (stopCh is closed), "closed" or "crashed"
  deleteTasks,  \* s.deleteTasks
  saved,        \* delete_tasks.json
  pc,           \* position of watchDeleteTasks()
  running,      \* dt: the task it executes; its cancel and doneCh are set meanwhile
  canceled,     \* dt.cancel() was called
  ok,           \* what processDeleteTask() returned
  waits,        \* waits[c]: the task whose doneCh DeleteStopTask() waits for
  doneSeen,     \* callers whose doneCh is closed
  registered,   \* tasks passed to DeleteRunTask() (history)
  completed,    \* tasks which have deleted all their rows (history)
  cut,          \* tasks taken for completed after stopCh cut them short (history)
  asked,        \* tasks somebody asked to stop (history)
  stopped       \* tasks for which DeleteStopTask() returned nil (history)

executor == <<pc, running, canceled, ok>>
stoppers == <<waits, doneSeen>>
history  == <<registered, completed, cut, asked, stopped>>
vars == <<phase, deleteTasks, saved, executor, stoppers, history>>

Queued(q) == {q[i] : i \in 1..Len(q)}

\* append(q[:i], q[i+1:]...)
Without(q, i) == [j \in 1..(Len(q) - 1) |-> IF j < i THEN q[j] ELSE q[j + 1]]

\* Types, and dt.cancel is set exactly while the executor deals with the task:
\* DeleteStopTask() tells a waiting task from a running one by it.
TaskTypeOK ==
  /\ phase \in {"open", "stopping", "closed", "crashed"}
  /\ deleteTasks \in Seq(Task) /\ saved \in Seq(Task)
  /\ pc \in {"waiting", "processing", "processed", "done"}
  /\ running \in Task \cup {NoTask} /\ (running = NoTask <=> pc = "waiting")
  /\ canceled \in BOOLEAN /\ ok \in BOOLEAN
  /\ waits \in [Stopper -> Task \cup {NoTask}]
  /\ doneSeen \subseteq Stopper
  /\ registered \subseteq Task /\ completed \subseteq Task /\ cut \subseteq Task
  /\ asked \subseteq Task /\ stopped \subseteq Task

Init ==
  /\ phase = "open"
  /\ deleteTasks = <<>> /\ saved = <<>>
  /\ pc = "waiting" /\ running = NoTask /\ canceled = FALSE /\ ok = FALSE
  /\ waits = [c \in Stopper |-> NoTask] /\ doneSeen = {}
  /\ registered = {} /\ completed = {} /\ cut = {} /\ asked = {} /\ stopped = {}

\* mustSaveDeleteTasksLocked() after the queue became q.
Save(q) == deleteTasks' = q /\ saved' = q

\* DeleteRunTask()
RunTask(t) ==
  /\ phase = "open"
  /\ t \notin registered
  /\ Save(Append(deleteTasks, t))
  /\ registered' = registered \cup {t}
  /\ UNCHANGED <<phase, executor, stoppers, completed, cut, asked, stopped>>

-----------------------------------------------------------------------------
(* watchDeleteTasks() *)

\* (mutant) all the tasks share a context
TakeSharedContext ==
  /\ phase \in {"open", "stopping"}
  /\ pc = "waiting" /\ deleteTasks # <<>>
  /\ pc' = "processing"
  /\ running' = Head(deleteTasks)
  /\ UNCHANGED <<phase, deleteTasks, saved, canceled, ok, stoppers, history>>

\* The first task gets a context of its own under the lock.  When the ticker and stopCh are both
\* ready, select may still choose the tick.
Take ==
  /\ phase \in {"open", "stopping"}
  /\ pc = "waiting" /\ deleteTasks # <<>>
  /\ pc' = "processing"
  /\ running' = Head(deleteTasks)
  /\ canceled' = FALSE
  /\ UNCHANGED <<phase, deleteTasks, saved, ok, stoppers, history>>

\* ctx.Done() of the running task is closed.
NeedStop == canceled \/ phase = "stopping"

\* deleteRows() has deleted everything and returned true.
ProcessComplete ==
  /\ pc = "processing" /\ running \notin Stuck
  /\ pc' = "processed" /\ ok' = TRUE
  /\ completed' = completed \cup {running}
  /\ UNCHANGED <<phase, deleteTasks, saved, running, canceled, stoppers, registered, cut,
                 asked, stopped>>

\* deleteRows() returned true, because the closed stopCh made hasMatchingRows() skip
\* the remaining parts.
ProcessCut ==
  /\ pc = "processing" /\ NeedStop
  /\ pc' = "processed" /\ ok' = TRUE
  /\ cut' = cut \cup {running}
  /\ UNCHANGED <<phase, deleteTasks, saved, running, canceled, stoppers, registered,
                 completed, asked, stopped>>

\* deleteRows() returned false. A stopped storage postpones the task, a canceled task
\* is not retried, any other is.
ProcessPostpone ==
  /\ pc = "processing"
  /\ pc' = "processed" /\ ok' = (phase # "stopping" /\ canceled)
  /\ UNCHANGED <<phase, deleteTasks, saved, running, canceled, stoppers, history>>

\* initSubqueries() failed, be it because the context was canceled: "retrying later".
ProcessFail ==
  /\ pc = "processing"
  /\ pc' = "processed" /\ ok' = FALSE
  /\ UNCHANGED <<phase, deleteTasks, saved, running, canceled, stoppers, history>>

\* (mutant) doneCh isn't closed
CloseDoneNot ==
  /\ pc = "processed"
  /\ pc' = "done"
  /\ UNCHANGED <<phase, deleteTasks, saved, running, canceled, ok, stoppers, history>>

\* close(dt.doneCh); dt.cancel()
CloseDone ==
  /\ pc = "processed"
  /\ pc' = "done"
  /\ doneSeen' = doneSeen \cup {c \in Stopper : waits[c] = running}
  /\ UNCHANGED <<phase, deleteTasks, saved, running, canceled, ok, waits, history>>

\* (mutant) a task to be retried stays where it is
RequeueFirst(q) == IF ok THEN Tail(q) ELSE q

\* s.deleteTasks = s.deleteTasks[1:], and a task which couldn't be completed goes to
\* the end.
Requeue(q) == IF ok THEN Tail(q) ELSE Append(Tail(q), running)

\* The task's context and doneCh are reset, and the queue is saved.
Finish ==
  /\ pc = "done"
  /\ Save(Requeue(deleteTasks))
  /\ pc' = "waiting" /\ running' = NoTask
  /\ UNCHANGED <<phase, canceled, ok, stoppers, history>>

-----------------------------------------------------------------------------
(* DeleteStopTask() *)

\* (mutant) a running task is dropped from the queue as well
DropAnyTask(c, t) ==
  /\ \E i \in 1..Len(deleteTasks) : deleteTasks[i] = t /\ Save(Without(deleteTasks, i))
  /\ stopped' = stopped \cup {t}
  /\ UNCHANGED <<canceled, stoppers>>

\* The task waits for its execution: it is dropped.
DropTask(c, t) ==
  /\ t # running
  /\ \E i \in 1..Len(deleteTasks) : deleteTasks[i] = t /\ Save(Without(deleteTasks, i))
  /\ stopped' = stopped \cup {t}
  /\ UNCHANGED <<canceled, stoppers>>

\* The task is being executed: it is canceled, and the caller waits for its doneCh.
CancelTask(c, t) ==
  /\ t = running
  /\ canceled' = TRUE
  /\ waits' = [waits EXCEPT ![c] = t]
  /\ doneSeen' = IF pc = "done" THEN doneSeen \cup {c} ELSE doneSeen
  /\ UNCHANGED <<deleteTasks, saved, stopped>>

StopTask(c, t) ==
  /\ phase = "open"
  /\ waits[c] = NoTask
  /\ asked' = asked \cup {t}
  /\ DropTask(c, t) \/ CancelTask(c, t)
  /\ UNCHANGED <<phase, pc, running, ok, registered, completed, cut>>

StopReturns(c) ==
  /\ c \in doneSeen
  /\ stopped' = stopped \cup {waits[c]}
  /\ waits' = [waits EXCEPT ![c] = NoTask]
  /\ doneSeen' = doneSeen \ {c}
  /\ UNCHANGED <<phase, deleteTasks, saved, executor, registered, completed, cut, asked>>

\* The request's context is done before doneCh: an error is returned.
StopFails(c) ==
  /\ waits[c] # NoTask
  /\ waits' = [waits EXCEPT ![c] = NoTask]
  /\ doneSeen' = doneSeen \ {c}
  /\ UNCHANGED <<phase, deleteTasks, saved, executor, history>>

-----------------------------------------------------------------------------
(* Closing, crashing and opening the storage *)

\* MustClose() is called when nobody uses the storage.
CloseBegin ==
  /\ phase = "open"
  /\ \A c \in Stopper : waits[c] = NoTask
  /\ phase' = "stopping"
  /\ UNCHANGED <<deleteTasks, saved, executor, stoppers, history>>

\* The executor notices stopCh; s.wg.Wait() returns.
CloseEnd ==
  /\ phase = "stopping" /\ pc = "waiting"
  /\ phase' = "closed"
  /\ deleteTasks' = <<>>
  /\ UNCHANGED <<saved, executor, stoppers, history>>

Crash ==
  /\ phase \in {"open", "stopping"}
  /\ phase' = "crashed"
  /\ deleteTasks' = <<>>
  /\ pc' = "waiting" /\ running' = NoTask /\ canceled' = FALSE /\ ok' = FALSE
  /\ waits' = [c \in Stopper |-> NoTask] /\ doneSeen' = {}
  /\ UNCHANGED <<saved, history>>

\* MustOpenStorage() reads delete_tasks.json.
Open ==
  /\ phase \in {"closed", "crashed"}
  /\ phase' = "open"
  /\ deleteTasks' = saved
  /\ UNCHANGED <<saved, executor, stoppers, history>>

Execute ==
  \/ Take \/ ProcessComplete \/ ProcessCut \/ ProcessPostpone \/ ProcessFail
  \/ CloseDone \/ Finish

Next ==
  \/ \E t \in Task : RunTask(t) \/ \E c \in Stopper : StopTask(c, t)
  \/ \E c \in Stopper : StopReturns(c) \/ StopFails(c)
  \/ Execute
  \/ CloseBegin \/ CloseEnd \/ Crash \/ Open

Spec == Init /\ [][Next]_vars

-----------------------------------------------------------------------------
\* Finish removes the first task of a queue which others changed since Take: it is
\* the task which was executed, and no task is queued twice.
ExecutedTaskIsFirst ==
  /\ running # NoTask => deleteTasks # <<>> /\ Head(deleteTasks) = running
  /\ \A i, j \in 1..Len(deleteTasks) : i # j => deleteTasks[i] # deleteTasks[j]

\* "Register the task in the list of active delete tasks, so it survives application
\* restarts and crashes" (DeleteRunTask): a task leaves delete_tasks.json only after it
\* was completed, or somebody asked to stop it, or stopCh cut it short
\* (DatadbDelete!DeleteResultIsTrue is about the last case).
RegisteredTaskIsSaved ==
  registered \subseteq Queued(saved) \cup completed \cup asked \cup cut

\* Types; the queue loses neither the running task nor a registered one, whatever the
\* executor, callers and crashes interleave.
TaskInv == TaskTypeOK /\ ExecutedTaskIsFirst /\ RegisteredTaskIsSaved

\* A task nobody asked to stop is never lost while the storage is open.
OnlyShutdownCutsTasks ==
  [][ phase = "open" => cut' \ cut \subseteq asked ]_vars

\* "It waits until the task is stopped before returning" (DeleteStopTask), and true "is
\* returned ... on explicitly canceled dt" (processDeleteTask), so that the executor
\* removes the task: once DeleteStopTask() has returned nil and the executor is through
\* with the task, the task isn't queued.
StoppedTaskIsDropped ==
  \A t \in stopped : t \in Queued(deleteTasks) => t = running

-----------------------------------------------------------------------------
\* The executor goes on as long as the storage is open; a task whose subqueries work and
\* whose parts aren't always in merge is completed when it is tried again and again.
Fairness ==
  /\ WF_vars(Execute)
  /\ \A t \in Task \ Stuck : SF_vars(ProcessComplete /\ running = t)
  /\ \A c \in Stopper : WF_vars(StopReturns(c))

FairSpec == Spec /\ Fairness

\* A task which fails again and again doesn't keep others from being executed.
EventuallyExecuted ==
  \A t \in Task \ Stuck :
    t \in Queued(deleteTasks) ~> t \notin Queued(deleteTasks)

\* DeleteStopTask() returns: doneCh is closed whatever becomes of the task.
StopTerminates ==
  \A c \in Stopper : waits[c] # NoTask ~> waits[c] = NoTask
=============================================================================
