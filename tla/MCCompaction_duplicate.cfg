CONSTANTS
  c1 = c1  c2 = c2  p1 = p1  p2 = p2  r1 = r1  r2 = r2
  Projects = {p1}
  Conversations = {c1}
  MaxTurns = 3
  MaxFailures = 0
  Assignments <- MCOneClient
  ToolTurns <- MCNoToolTurns
  Requests = {r1, r2}
  Reports <- MCReports
  WarnTokens = 2
  ClearTokens = 3
SPECIFICATION Spec
PROPERTIES
  DuplicateReportIsSafe
CHECK_DEADLOCK FALSE
