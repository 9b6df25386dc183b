CONSTANTS
  FilesCount = 2
  LinesCount = 3
  KindOf <- SplitEntry
  StreamOf <- OneStream
  MaxEntry = 2
  Inode = {i1, i2}
  MaxStops = 1
  MaxCrashes = 1
SYMMETRY Symmetry
CHECK_DEADLOCK FALSE
SPECIFICATION Spec
INVARIANTS
  TailInv
  EntriesAreWhole
  NoDuplicates
