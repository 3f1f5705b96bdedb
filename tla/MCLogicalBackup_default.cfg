CONSTANTS
  RelativeDir = TRUE
  MaxRuns = 1
  MaxFailures = 0
  Absent = Absent
SPECIFICATION Spec
INVARIANTS
  CompleteVerifies
