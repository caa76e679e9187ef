--------------------------- MODULE MCSlowedEstimates ---------------------------
(***************************************************************************)
(* Instances of SlowedEstimates for TLC.                                   *)
(***************************************************************************)
EXTENDS SlowedEstimates

CONSTANTS p1, p2, p3, cpuTask, memoryTask, FixedSlowdown

Pods3 == {p1, p2, p3}
OneTask == [p \in Pods3 |-> cpuTask]

\* Two pods of one task, and one of another.
TwoTasks == [p \in Pods3 |-> IF p = p3 THEN memoryTask ELSE cpuTask]

Nodes2 == {1, 2}
Nodes3 == {1, 2, 3}
Base2 == [n \in Nodes2 |-> 2]
Base3 == [n \in Nodes3 |-> 2]

SameTask == Permutations(Pods3)
=============================================================================
