SPECIFICATION FairSpec
CONSTANTS
  a1 = a1
  a2 = a2
  Attempts = {a1, a2}
  CommandsMayHang = TRUE
  DeadlineActive = TRUE
  MaxCrashes = 1
INVARIANTS
  IInv
  PublishedMeansCleaned
  LeftoversAreReported
  EvidenceIsTruthful
  NoCredentialBesideSandbox
PROPERTIES
  EveryAttemptEnds
  ImplementsTransactions
\* every attempt ended
CHECK_DEADLOCK FALSE
