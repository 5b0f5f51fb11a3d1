SPECIFICATION Spec
CONSTANTS
  Chains = {x, y}
  Analysts = {a1}
  Driver = Driver
  Cap = 2
  MinWindows = 1
  ModelPath = FALSE
  Interval = 1
  MaxReports = 1
  WindowSize = 2
  MaxTicks = 2
  MaxLabels = 0
  MaxCrashes = 0
INVARIANTS
  SignalOnlyEnds
CHECK_DEADLOCK FALSE
