SPECIFICATION Spec
CONSTANTS
  b1 = b1
  b2 = b2
  Bodies = {b1, b2}
  NoBody = NoBody
  MaxRuns = 2
  MaxRechecks = 3
  DeadlineActive = TRUE
SYMMETRY BodySymmetry
INVARIANT NoDuplicateResults
\* the last run ended and nothing is in flight
CHECK_DEADLOCK FALSE
