SPECIFICATION FairSpec
CONSTANTS
  Callers = {c1, c2}
  NoCaller = NoCaller
  MaxCalls = 5
  MaxTears = 2
INVARIANTS
  TypeOK
  ChainIntact
  SeqIncreasing
  DamageBounded
PROPERTIES
  EveryCallReturns
  ImplementsAuditLog
