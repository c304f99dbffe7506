CONSTANTS
  q1 = q1  q2 = q2  q3 = q3
  Processes = {q1, q2, q3}
  Latest = 3
  Markers = {3}
SPECIFICATION Spec
INVARIANTS
  TypeOK
  SchemaRecorded
  SomeoneOpens
PROPERTIES
  ImplementsUpgrade
  OpenReturns
CHECK_DEADLOCK FALSE
