CONSTANTS
  Row = {r1, r2}
  Shard = {s1}
  Part = {p1, p2, p3, p4}
  NoPart = NoPart
  Worker = {w1, w2}
  Query = {q1}
  Snapshotter = {n1}
  Forcer = {}
SPECIFICATION Spec
SYMMETRY Symmetry
INVARIANTS
  TypeOK
  PartsFileIsTrue
  RowStoredOnce
  ClaimInv
  RefInv
  SnapshotIsComplete
  CloseIsClean
  RowInv
