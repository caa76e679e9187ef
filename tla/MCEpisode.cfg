SPECIFICATION Spec

CONSTANTS
  p1 = p1
  p2 = p2
  Pod = {p1, p2}
  Rate = {1}
  Limit = 1
  Phi <- MCPhi
  NoPhi = NoPhi
  NoList = NoList
  MaxTime = 2
  Discount <- MCDiscount

SYMMETRY MCSymmetry

INVARIANTS
  CpuCharged
  ReturnIsCost
  CostIsRuns
\* A run is learned from once.
CHECK_DEADLOCK FALSE
