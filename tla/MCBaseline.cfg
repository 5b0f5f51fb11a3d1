SPECIFICATION Spec
CONSTANTS
  Chains = {x, y, z}
  Analysts = {a1}
  Driver = Driver
  Cap = 2
  MinWindows = 2
  ModelPath = TRUE
  Interval = 1
  MaxReports = 1
  WindowSize = 1
  MaxTicks = 3
  MaxLabels = 2
  MaxCrashes = 1
SYMMETRY Renamings
INVARIANTS
  TypeOK
  MaliciousStaysOut
  StaleScores
CHECK_DEADLOCK FALSE
