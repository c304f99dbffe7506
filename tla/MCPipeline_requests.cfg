CONSTANTS
  r1 = r1  r2 = r2  p1 = p1
  Clients = {r1, r2}
  Projects = {p1}
  Adapters = {"anthropic", "bedrock"}
  KeepLast = 2
  MaxAttempts = 3
  Environments <- MCEnvironments
  Inputs <- MCInputs
SPECIFICATION Spec
SYMMETRY Symmetry
INVARIANTS
  TypeOK
  ExtractionStops
  HandedIsSent
  ResultsFollowUses
CHECK_DEADLOCK FALSE
