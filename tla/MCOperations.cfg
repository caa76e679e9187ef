SPECIFICATION Spec
CONSTANTS
  Policy = {a, b}
  FirstPolicy = a
  NoScript = NoScript
  NoOutcome = NoOutcome
  NoRun = NoRun
  NoCleanup = NoCleanup
  MaxDeploys = 2
  MaxFailures = 2
  RunId = {r1, r2}
INVARIANTS
  TypeOK
  AloneWhileMeasuring
  MeasuresWhatItSays
  SchedulerAgrees
  OutcomeTrue
  ImagesKept
CHECK_DEADLOCK FALSE
