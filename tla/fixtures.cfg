SPECIFICATION Spec
CONSTANTS
  p1 = p1
  p2 = p2
  p3 = p3
  here = here
  there = there
  Preparations = {p1, p2, p3}
  Roots = {here, there}
  Root <- TwoOperators
  Somebody = Somebody
  Nobody = Nobody
  MaxMoves = 1
INVARIANTS
  IInv
  ReportIsExact
  PreparedIsOwn
SYMMETRY SameOperator
\* every preparation ended and was cleaned up
CHECK_DEADLOCK FALSE
