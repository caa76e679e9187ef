------------------------------- MODULE MCScheduling -------------------------------
(***************************************************************************)
(* Instances of Scheduling for TLC.                                        *)
(***************************************************************************)
EXTENDS Scheduling, TLC

CONSTANTS p1, p2, s1, s2, i1, i2

\* Two equal nodes: every ranking by free CPU alone is a tie while they are empty.
Nodes2 == {1, 2}
Room2 == [n \in Nodes2 |-> 2]
Room1 == [n \in Nodes2 |-> 1]

\* Negative scores, and an absurd one.
Scores3 == {-2, -1, 5}

Pods2 == {p1, p2}
Strategies2 == {s1, s2}
Schedulers2 == {i1, i2}
PodsAndSchedulers == Permutations(Pods2) \cup Permutations(Schedulers2)
=============================================================================
