CONSTANTS
  Stream = {s1, s2}
  PerStream = 1
  Writer = {u1}
  Query = {q1}
  Snapshotter = {}
  MaxUsers = 2
  MaxOps = 1
SPECIFICATION FairSpec
INVARIANTS
  CachedAnswersAreFresh
PROPERTIES
  StreamsSettle
CHECK_DEADLOCK FALSE
