CONSTANTS
  MaxWorkers = 3
  Shards = {s1, s2, s3}
  Operations = {"init", "backup"}
  EnvCount = 2
  AuthRequired = TRUE
  RebalanceAfterAdd = TRUE
  MaxFailures = 0
SPECIFICATION Spec
PROPERTIES
  BackupCoversWorkers
