CONSTANTS
  Calls = {c1, c2, c3}
  Principals = {p1, p2}
  Keys = {k1}
  Bodies = {b1, b2}
  NoKey = NoKey
  NoRow = NoRow
  None = None
  PoolSize = 2
  Failures = {"fault", "kill", "crash"}
SPECIFICATION Spec
SYMMETRY Symmetry
INVARIANTS
  OneOrderPerKey
  KeyBoundToItsOrder
  AcknowledgedIsCommitted
  ConflictIsTruthful
  OneWriterPerKey
  ConnectionsReturned
PROPERTIES
  KeyRowsImmutable
  KeepsPromise
