SPECIFICATION FairSpec

CONSTANTS
  n1 = n1
  Empty = Empty
  Probe = Probe
  Missing = Missing
  Incomplete = Incomplete
  Nodes = {n1}
  Experiments <- MCExperiments
  Step = 1
  Delay = 0
  OpenWait = 1
  Timeout = 1
  MaxTime = 2

INVARIANTS
  TypeOK
  SeenAsItHappens
  ReportHonest
  ArrivalsKept
PROPERTIES
  RunEnds
\* A run that is over stops.
CHECK_DEADLOCK FALSE
