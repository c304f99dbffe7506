CONSTANTS
  r1 = r1  r2 = r2  r3 = r3
  Requests = {r1, r2, r3}
  Large <- MCLarge
  Extractor = TRUE
  StoreFails = TRUE
SPECIFICATION CaptureSpec
INVARIANTS
  NoRowLost
CHECK_DEADLOCK FALSE
