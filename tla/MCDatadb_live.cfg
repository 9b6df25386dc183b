CONSTANTS
  Row = {r1, r2}
  Shard = {s1}
  Part = {p1, p2, p3}
  NoPart = NoPart
  Worker = {w1}
  Query = {}
  Snapshotter = {}
  Forcer = {f1}
SPECIFICATION FairSpec
PROPERTIES
  EventuallyDurable
  CloseTerminates
