CONSTANTS
  MaxDepth = 4
  Inputs = {1, 2}
  Outputs = {1, 2}
  MaxEvents = 3
SPECIFICATION Spec
INVARIANTS
  TypeOK
  SplicePoint
  CommaSeparates
  ObjectMatched
  ReportsWhatPassed
CHECK_DEADLOCK FALSE
