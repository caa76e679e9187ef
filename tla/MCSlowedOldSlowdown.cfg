SPECIFICATION Spec
CONSTANTS
  p1 = p1
  p2 = p2
  p3 = p3
  cpuTask = cpuTask
  memoryTask = memoryTask
  FixedSlowdown = FixedSlowdown
  Pod <- Pods3
  Task = {cpuTask}
  TaskOf <- OneTask
  Node <- Nodes2
  Base <- Base2
  Timed = {p1, p2, p3}
  Fixed = FixedSlowdown
  Grid = {a1, a2}
  MinLoaded = 2
  Unslowed = Unslowed
  NoList = NoList
  NoSnapshot = NoSnapshot
  NoNode = NoNode
  MaxRaised = 1
SYMMETRY SameTask
INVARIANTS
  NoOldSlowdown
CHECK_DEADLOCK FALSE
