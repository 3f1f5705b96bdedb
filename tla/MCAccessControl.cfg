CONSTANTS
  TableMax = 1
  MaxUserId = 2
  Places = 2
  Digits = 3
  MaxScale = 3
  MaxUnits = 10
  SettingsTried <- MCSettings
  RequestsTried <- MCRequests
SPECIFICATION Spec
INVARIANTS
  OnlyEntitled
  EntitledServed
  ProductionPosture
  TableAccepts
  Accounted
  AmountsExact
  HashNamesTheRow
