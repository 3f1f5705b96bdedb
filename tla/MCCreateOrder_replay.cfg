CONSTANTS
  Calls = {c1, c2}
  Principals = {p1}
  Keys = {k1}
  Bodies = {b1, b2}
  NoKey = NoKey
  NoRow = NoRow
  None = None
  PoolSize = 2
  Failures = {}
SPECIFICATION Spec
SYMMETRY Symmetry
INVARIANTS
  SameBodyReplayed
