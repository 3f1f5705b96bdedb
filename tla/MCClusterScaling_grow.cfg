CONSTANTS
  MaxWorkers = 3
  Shards = {s1, s2, s3}
  Operations = {"init", "add", "rebalance", "backup"}
  EnvCount = 2
  AuthRequired = TRUE
  RebalanceAfterAdd = TRUE
  MaxFailures = 2
SPECIFICATION FairSpec
INVARIANT
  CoveringBootstrapRestores
PROPERTIES
  OnlyNarrowBootstrapLocksOut
  RegisteredBeforeMigration
  BootstrapSucceeds
