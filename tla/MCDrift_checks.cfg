CONSTANTS
  r1 = r1  r2 = r2  r3 = r3  r4 = r4  p1 = p1  p2 = p2
  Requests = {r1, r2, r3, r4}
  Large = {r1, r2}
  Extractor = TRUE
  StoreFails = FALSE
  Projects = {p1, p2}
  ProjectOf <- MCProjectOf
  Interval = 2
  Scores <- MCScores
SPECIFICATION Spec
INVARIANTS
  TypeOK
  EscalationTracksVerdicts
  CorrectionEarned
  CorrectionUsedOnce
  EveryNthChecked
CHECK_DEADLOCK FALSE
