CONSTANTS
  Calls = {c1, c2, c3}
  Principals = {p1}
  Keys = {k1}
  Bodies = {b1}
  NoKey = NoKey
  NoRow = NoRow
  None = None
  PoolSize = 2
  Failures = {"fault", "kill", "crash"}
SPECIFICATION FairSpec
PROPERTIES
  EveryCallEnds
  TransactionsEnd
