SPECIFICATION FairSpec
CONSTANTS
  c1 = c1
  c2 = c2
  c3 = c3
  c4 = c4
  r1 = r1
  r2 = r2
  Revisions = {r1, r2}
  MaxConcurrentReviews = 2
  Workers = 1
  Calls = {c1, c2, c3}
  Identity <- TwoAndOne
  RepeatedCancellation = TRUE
INVARIANTS
  OneReviewPerRevision
PROPERTIES
  DrainCompletes
  EveryCallAnswered
  ClaimsAreReleased
  ImplementsAdmission
\* every call answered and the service stopped
CHECK_DEADLOCK FALSE
