SPECIFICATION Spec
CONSTANTS
  p1 = p1
  p2 = p2
  p3 = p3
  cpuTask = cpuTask
  memoryTask = memoryTask
  FixedSlowdown = FixedSlowdown
  Pod <- Pods3
  Task = {cpuTask, memoryTask}
  TaskOf <- TwoTasks
  Node <- Nodes3
  Base <- Base3
  Timed = {p1, p2}
  Fixed = FixedSlowdown
  Grid = {a1, a2}
  MinLoaded = 2
  Unslowed = Unslowed
  NoList = NoList
  NoSnapshot = NoSnapshot
  NoNode = NoNode
  MaxRaised = 1
INVARIANTS
  TypeOK
  EstimatesFollowSlowdown
  KeptOnce
  SystemCoversOthers
CHECK_DEADLOCK FALSE
