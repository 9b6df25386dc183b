CONSTANTS
  Stream = {s1, s2}
  PerStream = 1
  Writer = {u1}
  Query = {}
  Snapshotter = {n1}
  MaxUsers = 2
  MaxOps = 1
SPECIFICATION Spec
SYMMETRY Symmetry
INVARIANTS
  PartitionInv
  SnapshotRowsHaveStreams
CHECK_DEADLOCK FALSE
