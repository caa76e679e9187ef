------------------------------- MODULE ScoreLoops -------------------------------
(***************************************************************************)
(* The loops behind module Scores, one iteration at a time: snapshot.Best, *)
(* which picks the node a policy intended, then the two passes of          *)
(* scoreCandidates, which give each candidate what kube-scheduler ranks    *)
(* on. Best walks the names in order; the candidates come in any order.    *)
(* The score map may miss a candidate, as it may in the code.              *)
(***************************************************************************)
EXTENDS Scores

CONSTANTS
    RawScore,     \* the values a score map may hold
    MinusInf      \* math.Inf(-1)

ASSUME LoopAssumption == RawScore \subseteq Int /\ MinusInf \notin Int

VARIABLES
    candidates, scores,     \* the arguments
    stage,                  \* best, highest, winners or done: the loop that runs
    left,                   \* the names it has still to visit
    best, bestScore,        \* the variables of Best
    highest,                \* the variable of the first pass of scoreCandidates
    winners, framework      \* decision.Winners and decision.FrameworkScores

vars == <<candidates, scores, stage, left, best, bestScore, highest, winners, framework>>

NoScores == [n \in {} |-> 0]

ScoreMap(C) == UNION {[D -> RawScore] : D \in SUBSET C}

Init ==
    /\ candidates \in (SUBSET Node) \ {{}}
    /\ scores \in ScoreMap(candidates)
    /\ stage = "best"
    /\ left = candidates
    /\ best = NoNode
    /\ bestScore = 0
    /\ highest = MinusInf
    /\ winners = {}
    /\ framework = NoScores

\* Best without the test for an empty best: nothing below zero is ever chosen.
VisitPositive(n) ==
    /\ stage = "best"
    /\ n \in left /\ \A m \in left : n <= m
    /\ left' = left \ {n}
    /\ IF n \in DOMAIN scores /\ scores[n] > bestScore
       THEN best' = n /\ bestScore' = scores[n]
       ELSE UNCHANGED <<best, bestScore>>
    /\ UNCHANGED <<candidates, scores, stage, highest, winners, framework>>

\* One iteration of Best, in the order of the names.
VisitBest(n) ==
    /\ stage = "best"
    /\ n \in left /\ \A m \in left : n <= m
    /\ left' = left \ {n}
    /\ IF n \in DOMAIN scores /\ (best = NoNode \/ scores[n] > bestScore)
       THEN best' = n /\ bestScore' = scores[n]
       ELSE UNCHANGED <<best, bestScore>>
    /\ UNCHANGED <<candidates, scores, stage, highest, winners, framework>>

EndBest ==
    /\ stage = "best" /\ left = {}
    /\ stage' = "highest" /\ left' = candidates
    /\ UNCHANGED <<candidates, scores, best, bestScore, highest, winners, framework>>

\* One iteration of the first pass; a candidate without a score reads as zero.
VisitHighest(n) ==
    /\ stage = "highest"
    /\ n \in left
    /\ left' = left \ {n}
    /\ highest' = IF highest = MinusInf \/ ScoreOf(scores, n) > highest
                  THEN ScoreOf(scores, n) ELSE highest
    /\ UNCHANGED <<candidates, scores, stage, best, bestScore, winners, framework>>

EndHighest ==
    /\ stage = "highest" /\ left = {}
    /\ stage' = "winners" /\ left' = candidates
    /\ UNCHANGED <<candidates, scores, best, bestScore, highest, winners, framework>>

Give(n, value) ==
    framework' = [m \in DOMAIN framework \cup {n} |-> IF m = n THEN value ELSE framework[m]]

\* One iteration of the second pass.
VisitWinner(n) ==
    /\ stage = "winners"
    /\ n \in left
    /\ left' = left \ {n}
    /\ IF ScoreOf(scores, n) = highest
       THEN Give(n, MaxNodeScore) /\ winners' = winners \cup {n}
       ELSE Give(n, MinNodeScore) /\ UNCHANGED winners
    /\ UNCHANGED <<candidates, scores, stage, best, bestScore, highest>>

EndWinners ==
    /\ stage = "winners" /\ left = {}
    /\ stage' = "done"
    /\ UNCHANGED <<candidates, scores, left, best, bestScore, highest, winners, framework>>

Visit(n) == VisitBest(n) \/ VisitHighest(n) \/ VisitWinner(n)

Next == (\E n \in Node : Visit(n)) \/ EndBest \/ EndHighest \/ EndWinners

Spec == Init /\ [][Next]_vars

-----------------------------------------------------------------------------
\* snapshot.go:90-104 and decision.go:93-111: when the loops end, the node the policy intended is the
\* first of the highest-scoring names, the winners and the framework scores are those of
\* module Scores, for negative, missing and tied scores alike.
LoopsCompute ==
    stage = "done" =>
        /\ best = Best(candidates, scores)
        /\ winners = Winners(candidates, scores)
        /\ framework = FrameworkScores(candidates, scores)
=============================================================================
