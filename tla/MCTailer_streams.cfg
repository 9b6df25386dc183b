CONSTANTS
  FilesCount = 2
  LinesCount = 2
  KindOf <- SplitByOther
  StreamOf <- TwoStreams
  MaxEntry = 2
  Inode = {i1, i2}
  MaxStops = 1
  MaxCrashes = 0
SYMMETRY Symmetry
CHECK_DEADLOCK FALSE
SPECIFICATION Spec
INVARIANTS
  EntriesAreWhole
