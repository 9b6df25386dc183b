CONSTANTS
  FilesCount = 2
  LinesCount = 2
  KindOf <- DockerLog
  StreamOf <- OneStream
  MaxEntry = 1
  Inode = {i1, i2}
  MaxStops = 1
  MaxCrashes = 1
SYMMETRY Symmetry
CHECK_DEADLOCK FALSE
SPECIFICATION Spec
INVARIANTS
  TailInv
  EntriesAreWhole
  NoDuplicates
