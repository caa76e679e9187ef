SPECIFICATION BaselinesSpec
CONSTANTS
  Node <- Nodes3
  NoNode = NoNode
  MaxRawScore = 24
  RawScore <- SomeScores
  MinusInf = MinusInf
  NodeState <- SomeStates
  Pod <- IncomingPod
  Scale = 4
  Digest = {0, 1, 2}
  Observed <- SomeKnown
INVARIANTS
  TypeOK
  AnswersWhatIs
  BlindFallbackSays
  LoopsCompute
CHECK_DEADLOCK FALSE
