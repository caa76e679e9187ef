SPECIFICATION Spec
CONSTANTS
  Run = {1, 2, 3}
  Frozen = {2}
  Valid = {2}
  a = a
  b = b
  Slot = {a}
  NoKept = NoKept
  NoPoll = NoPoll
  NoCall = NoCall
  MaxFailures = 1
  MaxRestarts = 1
  MaxGivenUp = 1
INVARIANTS
  LearnedOnce
  FrozenRunOneModel
  RunsOnLearnedModel
CHECK_DEADLOCK FALSE
