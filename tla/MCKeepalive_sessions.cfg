CONSTANTS
  p1 = p1
  Projects = {p1}
  IdleThreshold = 8
  MaxIdleTotal = 20
  TickInterval = 2
  MaxPerIdlePeriod = 2
  KeepaliveTimeout = 1
  MaxLatency = 2
  MaxForwards = 2
  Horizon = 25
  Unreliable = TRUE
SPECIFICATION Spec
INVARIANTS
  TypeOK
  SessionsExpire
  KeepalivesCapped
  CacheRefreshed
PROPERTIES
  CloseEndsAll
CHECK_DEADLOCK FALSE
