SPECIFICATION FairSpec
CONSTANTS
  MaxReports = 2
  MaxVersion = 2
  MaxRestarts = 1
  ReportCap = 2
  LogCap = 2
  Limit = 1
  FrameCap = 1
  Slots = {f1}
INVARIANTS
  TypeOK
  NoDuplicates
PROPERTIES
  DetectedIsShown
  PolledViewConverges
  TicksGoOn
