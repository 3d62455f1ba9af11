SPECIFICATION FairSpec
CONSTANTS
  a1 = a1
  a2 = a2
  Attempts = {a1}
  CommandsMayHang = TRUE
  DeadlineActive = FALSE
  MaxCrashes = 1
PROPERTY EveryAttemptEnds
\* every attempt ended
CHECK_DEADLOCK FALSE
