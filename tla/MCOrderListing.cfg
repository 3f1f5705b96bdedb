CONSTANTS
  Stamps = 4
  RandA = 1
  RandB = 1
  Calls = {c1, c2, c3}
  Users = {u1, u2}
  Limits = {2}
  PendingLimit = 3
  MaxSkew = 1
  MaxTime = 2
SPECIFICATION Spec
SYMMETRY Symmetry
INVARIANTS
  AcknowledgedIsListed
PROPERTIES
  LeavesForNewer
  LateRowsBeganEarlier
  IdsFollowTime
