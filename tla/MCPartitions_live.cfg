CONSTANTS
  Day = {0, 1}
  Ptw = {h1, h2}
  NoPtw = NoPtw
  Writer = {u1}
  Reader = {}
  Background = {}
  Forcer = {f1}
  Admin = {a1}
  Retention = 1
  Future = {0}
SPECIFICATION FairSpec
PROPERTIES
  DetachTerminates
  DroppedPartitionIsRemoved
