CONSTANTS
  Task = {t1, t2}
  NoTask = NoTask
  Stuck = {}
  Stopper = {c1}
SPECIFICATION Spec
INVARIANTS
  StoppedTaskIsDropped
