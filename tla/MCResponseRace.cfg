SPECIFICATION ResponseSpec
CONSTANTS
  Callers = {w1, w2}
  pid = pid
  r1 = r1
  r2 = r2
  Actions <- Contested
  Name <- NameOf
  MaxEntries = 2
  MaxSeconds = 1
  MaxTears = 0
  MaxCrashes = 0
  MaxReports = 1
  MaxAuditFailures = 0
PROPERTY OnlyApprovedActionsRun
CHECK_DEADLOCK FALSE
