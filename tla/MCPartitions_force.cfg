CONSTANTS
  Day = {0, 1}
  Ptw = {h1, h2}
  NoPtw = NoPtw
  Writer = {u1}
  Reader = {}
  Background = {}
  Forcer = {f1}
  Admin = {}
  Retention = 1
  Future = {0}
SPECIFICATION Spec
SYMMETRY Symmetry
INVARIANTS
  CloseFindsNoUsers
