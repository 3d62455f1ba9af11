SPECIFICATION Spec
CONSTANTS
  c1 = c1
  c2 = c2
  c3 = c3
  c4 = c4
  r1 = r1
  r2 = r2
  Revisions = {r1, r2}
  MaxConcurrentReviews = 1
  Workers = 2
  Calls = {c1, c2, c3, c4}
  Identity <- TwoAndTwo
  RepeatedCancellation = FALSE
SYMMETRY SameRevision
INVARIANTS
  IInv
  CapacityRespected
  OneThreadPerRevision
  StoppedMeansQuiet
PROPERTIES
  ClosedAdmissionOnlyDrains
  ImplementsClaims
\* every call answered and the service stopped
CHECK_DEADLOCK FALSE
