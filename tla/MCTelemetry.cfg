SPECIFICATION Spec
CONSTANTS
  n1 = n1
  n2 = n2
  Node = {n1, n2}
  Steady = {n1}
  Interval = 2
  MaxAge = 6
  MaxSourceStale = 2
  MaxTime = 10
  MaxMeasured = 1
  MaxMisses = 1
INVARIANTS
  TypeOK
  FrozenSourceExpires
  SteadyNodeServed
CHECK_DEADLOCK FALSE
