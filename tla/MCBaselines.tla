------------------------------- MODULE MCBaselines -------------------------------
(***************************************************************************)
(* An instance of Baselines for TLC: up to three candidates, a wide one    *)
(* whose CPU is nearly all requested and a tall idle one, each with        *)
(* everything read or one feature missing.                                 *)
(***************************************************************************)
EXTENDS Baselines

Nodes3 == {1, 2, 3}

\* 30 is beyond MaxRawScore.
SomeScores == {-1, 0, 1, 30}

\* The task never ran on node 1; node 2 is fast but busy, or slow and idle.
SomeKnown ==
    LET never == [estimate |-> 0, left |-> 2, slowdown |-> 1]
        fast  == [estimate |-> 1, left |-> 4, slowdown |-> 1]
        slow  == [estimate |-> 2, left |-> 0, slowdown |-> 2]
    IN  {<<never, fast, slow>>, <<never, slow, fast>>}

IncomingPod == [cpu |-> 1, memory |-> 1]

SomeStates ==
    {[allocatable |-> [cpu |-> a, memory |-> 6 - a],
      requested   |-> [cpu |-> IF a = 4 THEN 3 ELSE 0, memory |-> 0],
      used        |-> [cpu |-> 1, memory |-> a \div 2],
      read        |-> Features \ missing] : a \in {2, 4}, missing \in {{}} \cup {{f} : f \in Features}}
=============================================================================
