CONSTANTS
  Task = {t1, t2, t3}
  NoTask = NoTask
  Stuck = {t1, t2}
  Stopper = {c1}
SPECIFICATION FairSpec
INVARIANTS
  TaskInv
PROPERTIES
  OnlyShutdownCutsTasks
  EventuallyExecuted
  StopTerminates
