CONSTANTS
  NodesCount = 2
  Stream = {1}
  PerStream = 2
  Local = 1
  BlockSize = 1
  Writer = {u1}
  Concurrency = 1
  NoThread = NoThread
  MaxFaults = 2
SPECIFICATION FairSpec
INVARIANTS
  NetInv
  NoRowIsLost
  DuplicatesComeFromFailures
PROPERTIES
  NetStopTerminates
  RowsAreDelivered
