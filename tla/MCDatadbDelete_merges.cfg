CONSTANTS
  Row = {r1, r2}
  Shard = {s1}
  Part = {p1, p2, p3, p4}
  NoPart = NoPart
  Worker = {w1, d1}
  Query = {d1}
  Snapshotter = {}
  Forcer = {}
  Deleter = {d1}
SPECIFICATION DeleteSpec
SYMMETRY Symmetry
INVARIANTS
  DeleteInv
  DeleteIsComplete
PROPERTIES
  OnlyMatchingRowsAreDeleted
