SPECIFICATION ResponseSpec
CONSTANTS
  Callers = {w1, w2}
  pid = pid
  r1 = r1
  r2 = r2
  Actions <- OneProcess
  Name <- NameOf
  MaxEntries = 2
  MaxSeconds = 1
  MaxTears = 0
  MaxCrashes = 1
  MaxReports = 2
  MaxAuditFailures = 0
SYMMETRY Threads
INVARIANTS
  HeldHasHandle
  NothingRunsUndecided
  ApprovalRecorded
  ExecutedCanBeUndone
CHECK_DEADLOCK FALSE
