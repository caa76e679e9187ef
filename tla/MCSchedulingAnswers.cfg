SPECIFICATION FairSpec
CONSTANTS
  Node <- Nodes2
  Capacity <- Room2
  NoNode = NoNode
  MaxRawScore = 2
  RawScore <- Scores3
  i1 = i1
  i2 = i2
  Scheduler = {i1}
  p1 = p1
  p2 = p2
  s1 = s1
  s2 = s2
  Pod = {p1}
  Strategy <- Strategies2
  Stranger = Stranger
  NoName = NoName
  MaxEdits = 1
  MaxFailures = 1
  NoCycle = NoCycle
  NoAnswer = NoAnswer
  NoDecision = NoDecision
  NoAttempt = NoAttempt
  NoId = NoId
INVARIANTS
  TypeOK
  HonestLabel
  MismatchMeansRollout
  BindingsExplained
PROPERTIES
  EveryPodPlaced
CHECK_DEADLOCK FALSE
