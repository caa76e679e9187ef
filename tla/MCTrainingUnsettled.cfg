SPECIFICATION Spec
CONSTANTS
  Run = {1, 2, 3}
  Frozen = {2}
  Valid = {2}
  a = a
  b = b
  Slot = {a}
  NoKept = NoKept
  NoPoll = NoPoll
  NoCall = NoCall
  MaxFailures = 0
  MaxRestarts = 0
  MaxGivenUp = 0
INVARIANTS
  UnsettledStops
CHECK_DEADLOCK FALSE
