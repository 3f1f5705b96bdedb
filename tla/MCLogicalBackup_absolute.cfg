CONSTANTS
  RelativeDir = FALSE
  MaxRuns = 2
  MaxFailures = 2
  Absent = Absent
SPECIFICATION Spec
INVARIANTS
  VerifiedDumpIsWhole
  VerifiedIsOneBackup
  CompleteVerifies
  DrillCleansUp
PROPERTIES
  DataTradedForWhole
