CONSTANTS
  t1 = t1  t2 = t2  t3 = t3  t4 = t4  p1 = p1  p2 = p2
  d1 = d1  d2 = d2  d3 = d3  h1 = h1
  Tasks = {t1, t2, t4}
  Projects = {p1, p2}
  ProjectOf <- MCProjectOf
  Displays = {d1, d2}
  ShortID <- MCShortID
  Requests = {h1}
  RequestProject <- MCRequestProject
  Window = 2
  PreviewLimit = 2
  MaxExpandCycles = 5
SPECIFICATION Spec
INVARIANTS
  TypeOK
  LoopBounded
  PreviewedExpands
  ProcessesAgree
CHECK_DEADLOCK FALSE
