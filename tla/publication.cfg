SPECIFICATION FairSpec
CONSTANTS
  b1 = b1
  b2 = b2
  Bodies = {b1, b2}
  NoBody = NoBody
  MaxRuns = 3
  MaxRechecks = 3
  DeadlineActive = TRUE
INVARIANTS
  IInv
  DuplicatesBounded
  CompletedIsNotRepeated
PROPERTIES
  ReceiptIsVisible
  PublicationEnds
\* the last run ended and nothing is in flight
CHECK_DEADLOCK FALSE
