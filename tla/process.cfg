SPECIFICATION FairSpec
CONSTANTS
  OutputMax = 3
  ReadMax = 2
  PipeMax = 2
  PlanMax = 3
INVARIANTS
  IInv
  OutputIsWhole
  LimitIsExact
  ChildIsReaped
PROPERTIES
  TimedCallsEnd
  CommandIsDrained
\* the call returned and the command is gone
CHECK_DEADLOCK FALSE
