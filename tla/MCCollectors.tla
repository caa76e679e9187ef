------------------------------- MODULE MCCollectors -------------------------------
(***************************************************************************)
(* Collectors for TLC: a pod alone, or two, in a burst or one after the    *)
(* other, the second past the time limit when the watch is slow to open.   *)
(***************************************************************************)
EXTENDS Collectors

CONSTANTS n1

MCExperiments ==
    {[process |-> "bursts", steadyCount |-> 1, steadyInterval |-> 1, bursts |-> 1, burstSize |-> 1, burstGap |-> 0],
     [process |-> "drawn", gaps |-> <<1>>],
     [process |-> "fixed", count |-> 1, interval |-> 1]}
================================================================================
