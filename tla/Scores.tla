---------------------------------- MODULE Scores ----------------------------------
(***************************************************************************)
(* From a decider's answer to a score per candidate node: the pure part    *)
(* of the plugin (plugin/decider, plugin/scoring, plugin/snapshot).        *)
(*                                                                         *)
(* Node names are natural numbers, in the order sort.Strings gives them.   *)
(* A score map is a function from a set of names to Int; raw scores are    *)
(* integers here, floats in the code, and the order is all that is used.   *)
(* The loops of the code are written as the maximum they compute; module   *)
(* ScoreLoops checks that the loops compute it.                            *)
(***************************************************************************)
EXTENDS Integers, FiniteSets

CONSTANTS
    Node,         \* the names of the cluster's nodes
    NoNode,       \* the empty name
    MaxRawScore   \* maxRawScore: a larger absolute score is refused

ASSUME NodeAssumption == /\ Node \subseteq Nat
                         /\ IsFiniteSet(Node)
                         /\ NoNode \notin Node
ASSUME MaxRawScoreAssumption == MaxRawScore \in Nat \ {0}

\* framework.MinNodeScore and framework.MaxNodeScore
MinNodeScore == 0
MaxNodeScore == 100

OneHot(C, chosen) == [n \in C |-> IF n = chosen THEN 1 ELSE 0]

-----------------------------------------------------------------------------
(* The decider's answer r: r.scores, a map that may be empty, and r.node.  *)

\* The answer is an error: it names a node outside the snapshot, or nothing at all.
Refused(C, r) ==
    IF DOMAIN r.scores # {} THEN ~(DOMAIN r.scores \subseteq C)
                            ELSE r.node \notin C

\* The raw scores of an answer that is not refused.
RawScores(C, r) ==
    IF DOMAIN r.scores # {} THEN r.scores ELSE OneHot(C, r.node)

\* The completeness without the bounds.
CompleteScores(C, s) == DOMAIN s = C

\* Complete, and within bounds.
ValidScores(C, s) ==
    /\ DOMAIN s = C
    /\ \A n \in C : s[n] \in -MaxRawScore .. MaxRawScore

-----------------------------------------------------------------------------
(* From raw scores to what kube-scheduler ranks on.                        *)

\* Reading a Go map: an absent name reads as zero.
ScoreOf(s, n) == IF n \in DOMAIN s THEN s[n] ELSE 0

\* The loop of scoreCandidates started from zero instead of minus infinity.
HighestFromZero(C, s) ==
    CHOOSE h \in {ScoreOf(s, n) : n \in C} \cup {0} : \A n \in C : ScoreOf(s, n) <= h /\ 0 <= h

Highest(C, s) ==
    CHOOSE h \in {ScoreOf(s, n) : n \in C} : \A n \in C : ScoreOf(s, n) <= h

Winners(C, s) == {n \in C : ScoreOf(s, n) = Highest(C, s)}

\* The score read as a cost.
InvertedScores(C, s) ==
    [n \in C |-> IF n \in Winners(C, s) THEN MinNodeScore ELSE MaxNodeScore]

FrameworkScores(C, s) ==
    [n \in C |-> IF n \in Winners(C, s) THEN MaxNodeScore ELSE MinNodeScore]

\* The highest-scoring name, ties broken by name; without any, the empty name.
Best(C, s) ==
    LET scored == C \cap DOMAIN s
    IN  IF scored = {} THEN NoNode
        ELSE CHOOSE n \in scored :
                 \A m \in scored : s[m] < s[n] \/ (s[m] = s[n] /\ n <= m)

\* What decide intends: Best, or the first name when no candidate is scored.
Intended(C, s) ==
    IF Best(C, s) # NoNode THEN Best(C, s) ELSE CHOOSE n \in C : \A m \in C : n <= m

-----------------------------------------------------------------------------
(* The fallback: most-free-cpu-requests. alloc and req are functions on C, *)
(* the allocatable and the requested CPU of each node, and cpu is what the *)
(* incoming pod requests.                                                  *)

FreeMilliCPU(alloc, req, cpu, n) == alloc[n] - req[n] - cpu

\* The order of the fallback's sort: free CPU, then allocatable CPU, then name.
RanksBefore(alloc, req, cpu, n, m) ==
    LET free(k) == FreeMilliCPU(alloc, req, cpu, k)
    IN  \/ free(n) > free(m)
        \/ free(n) = free(m) /\ alloc[n] > alloc[m]
        \/ free(n) = free(m) /\ alloc[n] = alloc[m] /\ n < m

FallbackNode(C, alloc, req, cpu) ==
    CHOOSE n \in C : \A m \in C \ {n} : RanksBefore(alloc, req, cpu, n, m)

FallbackScores(C, alloc, req, cpu) == OneHot(C, FallbackNode(C, alloc, req, cpu))
=============================================================================
