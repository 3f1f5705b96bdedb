CONSTANTS
  Retries = 2
  MinSize = 1
  MaxSize = 2
  MaxCrashes = 2
SPECIFICATION Spec
INVARIANTS
  ConnectionsBounded
PROPERTIES
  StartEnds
  ComesBack
  ReadyFollows
