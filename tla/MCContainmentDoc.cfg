SPECIFICATION Spec
CONSTANTS
  Callers = {c1}
  ip = ip
  path = path
  namesake = namesake
  r1 = r1
  r2 = r2
  Actions <- SharedTargets
  Name <- NameOf
  MaxEntries = 1
  MaxSeconds = 2
  MaxTears = 1
  MaxCrashes = 1
INVARIANT UndoIsHonest
CHECK_DEADLOCK FALSE
