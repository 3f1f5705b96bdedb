CONSTANTS
  Requests = {r1, r2, r3}
  Subjects = {s1, s2}
  Processes = {p1, p2}
  Limit = 1
  Window = 2
  Slack = 2
  Backends = {"redis", "memory"}
  Failures = {"redis", "crash"}
  MaxSkew = 1
  MaxDelay = 1
  MaxTime = 3
SPECIFICATION Spec
SYMMETRY Symmetry
INVARIANTS
  MemoryQuota
  QuotaPerWindow
  LimitedIsEarned
  FailsClosed
  ImmortalOnlyByFailure
PROPERTY KeepsQuota
