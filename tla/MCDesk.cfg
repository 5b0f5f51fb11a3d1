SPECIFICATION Spec
CONSTANTS
  None = None
  MaxReports = 2
  Infos <- MCInfos
  Events <- MCEvents
  Requests = {q1, q2}
  MaxDecisions = 1
SYMMETRY Symmetry
INVARIANTS TypeOK BusyIffRequest ChartIsRight PagesAgree AlarmMatchesResponse
PROPERTIES HitsTheAim
