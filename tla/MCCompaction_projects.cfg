CONSTANTS
  c1 = c1  c2 = c2  p1 = p1  p2 = p2  r1 = r1  r2 = r2
  Projects = {p1, p2}
  Conversations = {c1, c2}
  MaxTurns = 2
  MaxFailures = 1
  Assignments <- MCAssignments
  ToolTurns <- MCToolTurns
  Requests = {r1, r2}
  Reports <- MCReports
  WarnTokens = 2
  ClearTokens = 3
SPECIFICATION Spec
INVARIANTS
  TypeOK
  HookConsistent
  SingleFlight
  ComputeUnderWay
  PromptForwarded
  ProjectIsolation
PROPERTIES
  SummaryWrittenOnce
  CrossingIsAnswered
  ImplementsPhases
CHECK_DEADLOCK FALSE
