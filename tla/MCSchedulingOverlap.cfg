SPECIFICATION Spec
CONSTANTS
  Node <- Nodes2
  Capacity <- Room1
  NoNode = NoNode
  MaxRawScore = 2
  RawScore = {}
  i1 = i1
  i2 = i2
  Scheduler <- Schedulers2
  p1 = p1
  p2 = p2
  s1 = s1
  s2 = s2
  Pod <- Pods2
  Strategy = {s1}
  Stranger = Stranger
  NoName = NoName
  MaxEdits = 0
  MaxFailures = 1
  NoCycle = NoCycle
  NoAnswer = NoAnswer
  NoDecision = NoDecision
  NoAttempt = NoAttempt
  NoId = NoId
SYMMETRY PodsAndSchedulers
INVARIANTS
  UniqueDecisionIds
  BindingsTrue
PROPERTIES
  PlacementKept
CHECK_DEADLOCK FALSE
