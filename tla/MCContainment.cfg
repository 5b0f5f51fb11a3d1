SPECIFICATION Spec
CONSTANTS
  Callers = {c1, c2}
  ip = ip
  path = path
  namesake = namesake
  r1 = r1
  r2 = r2
  Actions <- SharedTargets
  Name <- NameOf
  MaxEntries = 2
  MaxSeconds = 2
  MaxTears = 1
  MaxCrashes = 1
CONSTRAINT OneFileAfterTick
SYMMETRY Threads
INVARIANTS
  TypeOK
  DryRunHoldsNothing
  HeldHasHandle
  CountedOnce

  
CHECK_DEADLOCK FALSE
