SPECIFICATION FairSpec
CONSTANTS
  Run = {1, 2, 3}
  Frozen = {2}
  Valid = {2}
  a = a
  b = b
  Slot = {a}
  NoKept = NoKept
  NoPoll = NoPoll
  NoCall = NoCall
  MaxFailures = 1
  MaxRestarts = 0
  MaxGivenUp = 0
INVARIANTS
  TypeOK
  EstimatesGoOn
PROPERTIES
  AcceptedMeansLearned
  CampaignEnds
CHECK_DEADLOCK FALSE
