--------------------------------- MODULE MCEpisode ---------------------------------
(***************************************************************************)
(* Episode for TLC: a run of two pods.                                     *)
(***************************************************************************)
EXTENDS Episode, TLC

CONSTANTS p1, p2

MCPhi == {-2}

\* A half-life of one step of the clock.
MCDiscount == [t \in 0 .. MaxTime |-> 2 ^ (MaxTime - t)]

MCSymmetry == Permutations(Pod)
================================================================================
