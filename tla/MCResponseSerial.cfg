SPECIFICATION ResponseSpec
CONSTANTS
  Callers = {w1}
  pid = pid
  r1 = r1
  r2 = r2
  Actions <- OneProcess
  Name <- NameOf
  MaxEntries = 3
  MaxSeconds = 2
  MaxTears = 1
  MaxCrashes = 1
  MaxReports = 1
  MaxAuditFailures = 1
INVARIANT ResponseTypeOK
PROPERTY ImplementsLifecycle
CHECK_DEADLOCK FALSE
