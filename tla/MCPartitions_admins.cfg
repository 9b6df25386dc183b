CONSTANTS
  Day = {0, 1, 2}
  Ptw = {h1, h2, h3}
  NoPtw = NoPtw
  Writer = {u1}
  Reader = {}
  Background = {b1}
  Forcer = {}
  Admin = {a1}
  Retention = 1
  Future = {0, 1}
SPECIFICATION Spec
SYMMETRY Symmetry
INVARIANTS
  PtwInv
  DroppedDayStaysAway
  DirectoriesAreSafe
  CloseFindsNoUsers
