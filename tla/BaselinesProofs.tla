----------------------------- MODULE BaselinesProofs -----------------------------
(***************************************************************************)
(* Two parts of a decision, each for any cluster, pod and estimates. The   *)
(* loops of Best and scoreCandidates compute what module Scores says: the  *)
(* invariant says of each loop what it has established of the names it     *)
(* has visited. And what the policies that only rank answer does not hang  *)
(* on what could not be read: each raises when a feature it ranks on is    *)
(* missing of any candidate, or when a capacity reads as zero, as a        *)
(* missing one does.                                                       *)
(***************************************************************************)
EXTENDS Baselines, TLAPS

-----------------------------------------------------------------------------
(* The loops.                                                              *)

Arguments ==
    /\ candidates \in (SUBSET Node) \ {{}}
    /\ \A n \in DOMAIN scores : scores[n] \in Int
    /\ left \subseteq candidates
    /\ stage \in {"best", "highest", "winners", "done"}

\* Among the names of T, n has the highest score of s, and is the first that has.
IsBest(s, T, n) == n \in T /\ \A m \in T : s[m] < s[n] \/ (s[m] = s[n] /\ n <= m)

visited == candidates \ left

Seen == visited \cap DOMAIN scores

BestLoop ==
    /\ stage = "best" =>
          /\ \A m \in visited, n \in left : m < n
          /\ Seen = {} => best = NoNode
          /\ Seen # {} => IsBest(scores, Seen, best) /\ bestScore = scores[best]
    /\ stage # "best" => best = Best(candidates, scores)

HighestLoop ==
    /\ stage = "best" => highest = MinusInf
    /\ stage = "highest" /\ visited = {} => highest = MinusInf
    /\ stage = "highest" /\ visited # {} =>
          /\ \E n \in visited : highest = ScoreOf(scores, n)
          /\ \A n \in visited : ScoreOf(scores, n) <= highest

WinnersLoop ==
    /\ stage \in {"best", "highest"} => winners = {} /\ framework = NoScores
    /\ stage = "winners" =>
          /\ highest = Highest(candidates, scores)
          /\ winners = Winners(candidates, scores) \cap visited
          /\ framework = [n \in visited |-> FrameworkScores(candidates, scores)[n]]
    /\ stage = "done" =>
          /\ winners = Winners(candidates, scores)
          /\ framework = FrameworkScores(candidates, scores)

LoopsInv == Arguments /\ BestLoop /\ HighestLoop /\ WinnersLoop

-----------------------------------------------------------------------------
LEMMA ScoreOfType ==
    ASSUME Arguments, NEW n
    PROVE  ScoreOf(scores, n) \in Int
BY DEF Arguments, ScoreOf

\* The maximum that Best is defined by is unique.
LEMMA BestIs ==
    ASSUME Arguments, NEW n \in candidates \cap DOMAIN scores,
           IsBest(scores, candidates \cap DOMAIN scores, n)
    PROVE  Best(candidates, scores) = n
<1> DEFINE T == candidates \cap DOMAIN scores
           Wins(k) == \A m \in T : scores[m] < scores[k] \/ (scores[m] = scores[k] /\ k <= m)
<1>1. T \subseteq Nat /\ \A m \in T : scores[m] \in Int
  BY NodeAssumption DEF Arguments
<1>2. n \in T /\ Wins(n)
  BY DEF IsBest
<1>3. \A k \in T : Wins(k) => k = n
  BY <1>1, <1>2
<1>4. Best(candidates, scores) = CHOOSE k \in T : Wins(k)
  BY <1>2 DEF Best
<1> HIDE DEF T, Wins
<1> QED BY <1>2, <1>3, <1>4

LEMMA HighestIs ==
    ASSUME Arguments, NEW h, \E n \in candidates : h = ScoreOf(scores, n),
           \A n \in candidates : ScoreOf(scores, n) <= h
    PROVE  Highest(candidates, scores) = h
<1> DEFINE H == {ScoreOf(scores, n) : n \in candidates}
           Top(k) == \A n \in candidates : ScoreOf(scores, n) <= k
<1>1. h \in H /\ Top(h)
  OBVIOUS
<1>2. \A k \in H : Top(k) => k = h
  <2> SUFFICES ASSUME NEW m \in candidates, Top(ScoreOf(scores, m))
               PROVE  ScoreOf(scores, m) = h
    OBVIOUS
  <2>1. PICK n \in candidates : h = ScoreOf(scores, n)
    OBVIOUS
  <2>2. ScoreOf(scores, n) <= ScoreOf(scores, m) /\ ScoreOf(scores, m) <= h
    OBVIOUS
  <2> QED BY <2>1, <2>2, ScoreOfType
<1>3. Highest(candidates, scores) = CHOOSE k \in H : Top(k)
  BY DEF Highest
<1> HIDE DEF H, Top
<1> QED BY <1>1, <1>2, <1>3

-----------------------------------------------------------------------------
LEMMA LoopsInit == Init => LoopsInv
<1> SUFFICES ASSUME Init PROVE LoopsInv
  OBVIOUS
<1>1. \A n \in DOMAIN scores : scores[n] \in Int
  <2>1. PICK D \in SUBSET candidates : scores \in [D -> RawScore]
    BY DEF Init, ScoreMap
  <2> QED BY <2>1, LoopAssumption
<1>2. visited = {} /\ Seen = {}
  BY DEF Init, visited, Seen
<1> QED BY <1>1, <1>2 DEF Init, LoopsInv, Arguments, BestLoop, HighestLoop, WinnersLoop

\* An iteration of Best keeps the first of the highest-scoring names it has seen.
LEMMA BestStep ==
    ASSUME LoopsInv, NEW n \in Node, VisitBest(n)
    PROVE  LoopsInv'
<1> USE DEF LoopsInv
<1>1. /\ n \in candidates /\ n \in left /\ stage = "best" /\ stage' = "best"
      /\ candidates' = candidates /\ scores' = scores
      /\ visited' = visited \cup {n}
      /\ Arguments'
  BY DEF VisitBest, visited, Arguments
<1>2. candidates \subseteq Nat /\ NoNode \notin candidates
  BY NodeAssumption DEF Arguments
<1>3. \A m \in candidates : m \in DOMAIN scores => scores[m] \in Int
  BY DEF Arguments
<1>4. BestLoop'
  <2>1. \A m \in visited', k \in left' : m < k
    <3> SUFFICES ASSUME NEW m \in visited \cup {n}, NEW k \in left \ {n} PROVE m < k
      BY <1>1 DEF VisitBest
    <3>1. n <= k /\ n \in Nat /\ k \in Nat
      BY <1>1, <1>2 DEF VisitBest, Arguments
    <3>2. CASE m \in visited
      BY <1>1, <3>2 DEF BestLoop
    <3> QED BY <3>1, <3>2
  <2>2. CASE n \notin DOMAIN scores
    <3>1. Seen' = Seen
      BY <1>1, <2>2 DEF Seen
    <3>2. best' = best /\ bestScore' = bestScore
      BY <2>2 DEF VisitBest
    <3> QED BY <1>1, <2>1, <3>1, <3>2 DEF BestLoop, IsBest
  <2>3. CASE n \in DOMAIN scores
    <3>1. Seen' = Seen \cup {n} /\ Seen \subseteq Nat /\ Seen \subseteq DOMAIN scores
      BY <1>1, <1>2, <2>3 DEF Seen, visited
    <3>2. \A m \in Seen : m < n /\ scores[m] \in Int
      BY <1>1, <1>3 DEF BestLoop, Seen, visited
    <3>3. scores[n] \in Int
      BY <1>1, <1>3, <2>3
    <3>4. CASE Seen = {}
      <4>1. best' = n /\ bestScore' = scores[n]
        BY <1>1, <2>3, <3>4 DEF VisitBest, BestLoop
      <4>2. IsBest(scores', Seen', best')
        BY <1>1, <1>2, <3>1, <3>3, <3>4, <4>1 DEF IsBest
      <4> QED BY <1>1, <2>1, <3>1, <4>1, <4>2 DEF BestLoop
    <3>5. CASE Seen # {}
      <4>1. IsBest(scores, Seen, best) /\ bestScore = scores[best]
        BY <1>1, <3>5 DEF BestLoop
      <4>2. best \in Seen /\ best \in Nat /\ best # NoNode /\ best < n /\ scores[best] \in Int
        BY <1>2, <3>1, <3>2, <4>1 DEF IsBest, Seen, visited
      <4>3. CASE scores[n] > bestScore
        <5>1. best' = n /\ bestScore' = scores[n]
          BY <2>3, <4>3 DEF VisitBest
        <5>2. \A m \in Seen : scores[m] < scores[n]
          BY <3>2, <3>3, <4>1, <4>2, <4>3 DEF IsBest
        <5>3. IsBest(scores', Seen', best')
          BY <1>1, <1>2, <3>1, <3>3, <5>1, <5>2 DEF IsBest
        <5> QED BY <1>1, <2>1, <3>1, <5>1, <5>3 DEF BestLoop
      <4>4. CASE ~(scores[n] > bestScore)
        <5>1. best' = best /\ bestScore' = bestScore
          BY <2>3, <4>2, <4>4 DEF VisitBest
        <5>2. scores[n] < scores[best] \/ (scores[n] = scores[best] /\ best <= n)
          BY <1>1, <1>2, <3>3, <4>1, <4>2, <4>4
        <5>3. IsBest(scores', Seen', best')
          BY <1>1, <3>1, <4>1, <5>1, <5>2 DEF IsBest
        <5> QED BY <1>1, <2>1, <3>1, <4>1, <5>1, <5>3 DEF BestLoop
      <4> QED BY <4>3, <4>4
    <3> QED BY <3>4, <3>5
  <2> QED BY <2>2, <2>3
<1>5. HighestLoop' /\ WinnersLoop'
  BY <1>1 DEF VisitBest, HighestLoop, WinnersLoop
<1> QED BY <1>1, <1>4, <1>5

\* When every name has been visited, the maximum of the visited names is the maximum.
LEMMA EndBestStep == ASSUME LoopsInv, EndBest PROVE LoopsInv'
<1> USE DEF LoopsInv
<1>1. visited = candidates /\ visited' = {} /\ Arguments'
  BY DEF EndBest, visited, Arguments
<1>2. best = Best(candidates, scores)
  <2>1. CASE Seen = {}
    BY <1>1, <2>1 DEF EndBest, BestLoop, Seen, Best
  <2>2. CASE Seen # {}
    <3>1. Seen = candidates \cap DOMAIN scores
      BY <1>1 DEF Seen
    <3>2. IsBest(scores, Seen, best) /\ best \in Seen
      BY <2>2 DEF EndBest, BestLoop, IsBest
    <3> QED BY <3>1, <3>2, BestIs
  <2> QED BY <2>1, <2>2
<1> QED BY <1>1, <1>2 DEF EndBest, BestLoop, HighestLoop, WinnersLoop

LEMMA HighestStep == ASSUME LoopsInv, NEW n \in Node, VisitHighest(n) PROVE LoopsInv'
<1> USE DEF LoopsInv
<1>1. /\ n \in candidates /\ n \in left /\ stage = "highest" /\ stage' = "highest"
      /\ candidates' = candidates /\ scores' = scores
      /\ visited' = visited \cup {n}
      /\ Arguments'
  BY DEF VisitHighest, visited, Arguments
<1>2. BestLoop' /\ WinnersLoop'
  BY <1>1 DEF VisitHighest, BestLoop, WinnersLoop
<1> DEFINE f(m) == ScoreOf(scores, m)
<1>3. \A m : f(m) \in Int
  BY ScoreOfType
<1>4. \A m : ScoreOf(scores', m) = f(m)
  BY <1>1
<1>5. highest' = IF highest = MinusInf \/ f(n) > highest THEN f(n) ELSE highest
  BY DEF VisitHighest
<1>6. HighestLoop'
  <2>1. CASE visited = {}
    <3>1. highest' = f(n)
      BY <1>1, <1>5, <2>1 DEF HighestLoop
    <3> QED BY <1>1, <1>3, <1>4, <2>1, <3>1 DEF HighestLoop
  <2>2. CASE visited # {}
    <3>1. PICK k \in visited : highest = f(k)
      BY <1>1, <2>2 DEF HighestLoop
    <3>2. \A m \in visited : f(m) <= highest
      BY <1>1, <2>2 DEF HighestLoop
    <3>3. highest \in Int /\ highest # MinusInf /\ f(n) \in Int
      BY <1>3, <3>1, LoopAssumption
    <3>4. highest' = f(n) \/ highest' = f(k)
      BY <1>5, <3>1
    <3>5. f(n) <= highest' /\ highest <= highest' /\ highest' \in Int
      BY <1>5, <3>3
    <3>6. \A m \in visited \cup {n} : f(m) <= highest'
      <4> HIDE DEF f
      <4> QED BY <1>3, <3>2, <3>3, <3>5
    <3> QED BY <1>1, <1>4, <3>4, <3>6 DEF HighestLoop
  <2> QED BY <2>1, <2>2
<1> QED BY <1>1, <1>2, <1>6

LEMMA EndHighestStep == ASSUME LoopsInv, EndHighest PROVE LoopsInv'
<1> USE DEF LoopsInv
<1>1. visited = candidates /\ visited' = {} /\ Arguments' /\ visited # {}
  BY DEF EndHighest, visited, Arguments
<1>2. highest = Highest(candidates, scores)
  BY <1>1, HighestIs DEF EndHighest, HighestLoop
<1>3. framework = [k \in {} |-> FrameworkScores(candidates, scores)[k]]
  BY DEF EndHighest, WinnersLoop, NoScores
<1>4. stage' = "winners" /\ candidates' = candidates /\ scores' = scores /\ highest' = highest
      /\ best' = best /\ winners' = {} /\ framework' = framework /\ stage = "highest"
  BY DEF EndHighest, WinnersLoop
<1>5. WinnersLoop'
  BY <1>1, <1>2, <1>3, <1>4 DEF WinnersLoop
<1> QED BY <1>1, <1>4, <1>5 DEF BestLoop, HighestLoop

LEMMA WinnerStep == ASSUME LoopsInv, NEW n \in Node, VisitWinner(n) PROVE LoopsInv'
<1> USE DEF LoopsInv
<1>1. /\ n \in candidates /\ n \in left /\ stage = "winners" /\ stage' = "winners"
      /\ candidates' = candidates /\ scores' = scores /\ highest' = highest /\ best' = best
      /\ visited' = visited \cup {n}
      /\ Arguments'
  BY DEF VisitWinner, visited, Arguments
<1> DEFINE F == FrameworkScores(candidates, scores)
           W == Winners(candidates, scores)
<1>2. F[n] = IF n \in W THEN MaxNodeScore ELSE MinNodeScore
  BY <1>1 DEF FrameworkScores
<1>3. n \in W <=> ScoreOf(scores, n) = highest
  BY <1>1 DEF Winners, WinnersLoop
<1>4. winners = W \cap visited /\ framework = [m \in visited |-> F[m]]
  BY <1>1 DEF WinnersLoop
<1>5. framework' = [m \in visited \cup {n} |-> F[m]] /\ winners' = W \cap (visited \cup {n})
  <2>1. \A v : v = F[n] =>
           [m \in DOMAIN framework \cup {n} |-> IF m = n THEN v ELSE framework[m]]
              = [m \in visited \cup {n} |-> F[m]]
    <3> HIDE DEF F
    <3> QED BY <1>4
  <2>2. framework' = [m \in visited \cup {n} |-> F[m]]
    <3>1. framework' = [m \in DOMAIN framework \cup {n} |-> IF m = n THEN F[n] ELSE framework[m]]
      BY <1>2, <1>3 DEF VisitWinner, Give
    <3> HIDE DEF F
    <3> QED BY <2>1, <3>1
  <2>3. winners' = W \cap (visited \cup {n})
    <3>1. winners' = IF n \in W THEN winners \cup {n} ELSE winners
      BY <1>3 DEF VisitWinner
    <3> HIDE DEF W
    <3> QED BY <1>4, <3>1
  <2> QED BY <2>2, <2>3
<1>6. WinnersLoop'
  <2>1. F' = F /\ W' = W
    BY <1>1
  <2> HIDE DEF F, W
  <2>2. /\ highest' = Highest(candidates', scores')
        /\ winners' = Winners(candidates', scores') \cap visited'
        /\ framework' = [m \in visited' |-> FrameworkScores(candidates', scores')[m]]
    BY <1>1, <1>5 DEF WinnersLoop, F, W
  <2> QED BY <1>1, <2>2 DEF WinnersLoop
<1> QED BY <1>1, <1>6 DEF BestLoop, HighestLoop

LEMMA EndWinnersStep == ASSUME LoopsInv, EndWinners PROVE LoopsInv'
<1> USE DEF LoopsInv
<1>1. visited = candidates /\ Arguments'
  BY DEF EndWinners, visited, Arguments
<1>2. winners = Winners(candidates, scores)
  BY <1>1 DEF EndWinners, WinnersLoop, Winners
<1>3. framework = FrameworkScores(candidates, scores)
  BY <1>1 DEF EndWinners, WinnersLoop, FrameworkScores
<1>4. WinnersLoop'
  BY <1>2, <1>3 DEF EndWinners, WinnersLoop
<1>5. BestLoop' /\ HighestLoop'
  BY DEF EndWinners, BestLoop, HighestLoop
<1> QED BY <1>1, <1>4, <1>5

LEMMA LoopsStep == LoopsInv /\ [Next]_vars => LoopsInv'
<1>1. CASE UNCHANGED vars
  BY <1>1 DEF vars, LoopsInv, Arguments, BestLoop, HighestLoop, WinnersLoop, visited, Seen, IsBest
<1> QED
  BY <1>1, BestStep, EndBestStep, HighestStep, EndHighestStep, WinnerStep, EndWinnersStep
     DEF Next, Visit

\* snapshot.go 90-104, decision.go 93-111: the loops compute Best, Winners and FrameworkScores.
THEOREM LoopsAreCorrect == Spec => []LoopsCompute
<1>1. LoopsInv => LoopsCompute
  BY DEF LoopsInv, BestLoop, WinnersLoop, LoopsCompute
<1> QED BY <1>1, LoopsInit, LoopsStep, PTL DEF Spec

-----------------------------------------------------------------------------
(* What is read, and what is answered.                                     *)

State == [allocatable : Amount, requested : Amount, used : Amount, read : SUBSET Features]

Cluster == cluster \in [candidates -> NodeState] /\ candidates \in (SUBSET Node) \ {{}}

\* What is read is what is; what is not is zero.
LEMMA Readings ==
    ASSUME NEW state \in State
    PROVE  /\ NodeSnapshot(state).missing = Features \ state.read
           /\ "allocatable" \in state.read => NodeSnapshot(state).allocatable = state.allocatable
           /\ "requested" \in state.read => NodeSnapshot(state).requested = state.requested
           /\ "telemetry" \in state.read => NodeSnapshot(state).used = state.used
           /\ "allocatable" \notin state.read =>
                  NoCapacity(NodeSnapshot(state)) /\ NodeSnapshot(state).allocatable.cpu = 0
BY DEF NodeSnapshot, NoCapacity

LEMMA FullReadings ==
    ASSUME NEW nodes, NEW n \in DOMAIN nodes, nodes[n] \in State
    PROVE  /\ Snapshot(AsRead(nodes))[n].allocatable = nodes[n].allocatable
           /\ Snapshot(AsRead(nodes))[n].requested = nodes[n].requested
           /\ Snapshot(AsRead(nodes))[n].used = nodes[n].used
<1> DEFINE full == [nodes[n] EXCEPT !.read = Features]
<1>1. /\ full \in State /\ full.read = Features
      /\ full.allocatable = nodes[n].allocatable /\ full.requested = nodes[n].requested
      /\ full.used = nodes[n].used
  BY DEF State
<1>2. Snapshot(AsRead(nodes))[n] = NodeSnapshot(full)
  BY DEF Snapshot, AsRead
<1> HIDE DEF full
<1> QED BY <1>1, <1>2, Readings DEF Features

\* A policy that does not raise had read all it ranks on.
LEMMA AnswerIsWhatIs ==
    ASSUME Cluster, NEW p \in Policies, ~Raises(p, Snapshot(cluster))
    PROVE  PolicyScores(p, Snapshot(cluster)) = PolicyScores(p, Snapshot(AsRead(cluster)))
<1> DEFINE s == Snapshot(cluster)
           t == Snapshot(AsRead(cluster))
<1>1. DOMAIN cluster = candidates /\ DOMAIN s = candidates /\ DOMAIN t = candidates
  BY DEF Cluster, Snapshot, AsRead
<1>2. ASSUME NEW n \in candidates
      PROVE  cluster[n] \in State /\ s[n] = NodeSnapshot(cluster[n])
  BY BaselinesAssumption, <1>2 DEF Cluster, Snapshot, State
<1>3. ASSUME NEW n \in candidates
      PROVE  /\ t[n].allocatable = cluster[n].allocatable
             /\ t[n].requested = cluster[n].requested /\ t[n].used = cluster[n].used
  BY <1>1, <1>2, FullReadings
<1>4. ASSUME NEW n \in candidates, ~NoCapacity(s[n])
      PROVE  s[n].allocatable = t[n].allocatable
  BY <1>2, <1>3, <1>4, Readings
<1>5. ASSUME NEW n \in candidates, NEW f \in Features, f \notin s[n].missing
      PROVE  /\ f = "allocatable" => s[n].allocatable = t[n].allocatable
             /\ f = "requested" => s[n].requested = t[n].requested
             /\ f = "telemetry" => s[n].used = t[n].used
  BY <1>2, <1>3, <1>5, Readings
<1>6. ASSUME NEW n \in candidates, s[n].allocatable.cpu # 0
      PROVE  s[n].allocatable = t[n].allocatable
  BY <1>2, <1>3, <1>6, Readings
<1> HIDE DEF s, t
<1>7. CASE p = "dummy-random"
  BY <1>1, <1>7 DEF PolicyScores, DummyRandom, s, t
<1>8. CASE p = "largest-cpu-capacity"
  <2>1. \A n \in candidates : s[n].allocatable = t[n].allocatable
    BY <1>1, <1>5, <1>8 DEF Raises, Features, s
  <2> QED BY <1>1, <1>8, <2>1 DEF PolicyScores, LargestCPUCapacity, s, t
<1>9. CASE p = "least-allocated"
  <2>1. \A n \in candidates : s[n].allocatable = t[n].allocatable /\ s[n].requested = t[n].requested
    BY <1>1, <1>4, <1>5, <1>9 DEF Raises, Features, s
  <2>2. \A n \in candidates : FreeWithPod(s[n], s[n].requested) = FreeWithPod(t[n], t[n].requested)
    BY <2>1 DEF FreeWithPod
  <2> QED BY <1>1, <1>9, <2>2 DEF PolicyScores, LeastAllocated, s, t
<1>10. CASE p = "least-used"
  <2>1. \A n \in candidates : s[n].allocatable = t[n].allocatable /\ s[n].used = t[n].used
    BY <1>1, <1>4, <1>5, <1>10 DEF Raises, Features, s
  <2>2. \A n \in candidates : FreeWithPod(s[n], s[n].used) = FreeWithPod(t[n], t[n].used)
    BY <2>1 DEF FreeWithPod
  <2> QED BY <1>1, <1>10, <2>2 DEF PolicyScores, LeastUsed, s, t
<1>11. CASE p = "shortest-estimate"
  BY <1>1, <1>11 DEF PolicyScores, ShortestEstimate, s, t
<1>12. CASE p = "earliest-finish"
  <2>1. \A n \in candidates : NeverRan(n) \/ s[n].allocatable.cpu # 0
    BY <1>1, <1>12 DEF Raises, s
  <2>2. \A n \in candidates : NeverRan(n) \/ Finish(s[n], n) = Finish(t[n], n)
    BY <1>6, <2>1 DEF Finish
  <2>3. EarliestFinish(s) = EarliestFinish(t)
    BY <1>1, <2>2 DEF EarliestFinish
  <2> QED BY <1>12, <2>3 DEF PolicyScores, s, t
<1>13. CASE p = "slowed-estimate"
  <2>1. \A n \in candidates : s[n].allocatable = t[n].allocatable /\ s[n].requested = t[n].requested
    BY <1>1, <1>5, <1>6, <1>13 DEF Raises, Features, s
  <2>2. \A n \in candidates : Slowed(s[n], n) = Slowed(t[n], n)
    BY <2>1 DEF Slowed
  <2>3. SlowedEstimate(s) = SlowedEstimate(t)
    BY <1>1, <2>2 DEF SlowedEstimate
  <2> QED BY <1>13, <2>3 DEF PolicyScores, s, t
<1> QED BY <1>7, <1>8, <1>9, <1>10, <1>11, <1>12, <1>13 DEF Policies, s, t

\* A fallback that is not blind had read all it ranks on.
LEMMA FallbackIsWhatIs ==
    ASSUME Cluster, FallbackIncomplete(Snapshot(cluster)) = {}
    PROVE  FallbackOn(Snapshot(cluster)) = FallbackOn(Snapshot(AsRead(cluster)))
<1> DEFINE s == Snapshot(cluster)
           t == Snapshot(AsRead(cluster))
<1>1. DOMAIN cluster = candidates /\ DOMAIN s = candidates /\ DOMAIN t = candidates
  BY DEF Cluster, Snapshot, AsRead
<1>2. ASSUME NEW n \in candidates
      PROVE  s[n].allocatable = t[n].allocatable /\ s[n].requested = t[n].requested
  <2>1. cluster[n] \in State /\ s[n] = NodeSnapshot(cluster[n])
    BY BaselinesAssumption DEF Cluster, Snapshot, State
  <2>2. "allocatable" \notin s[n].missing /\ "requested" \notin s[n].missing
    BY <1>1 DEF FallbackIncomplete
  <2>3. s[n].allocatable = cluster[n].allocatable /\ s[n].requested = cluster[n].requested
    BY <2>1, <2>2, Readings DEF Features
  <2> QED BY <1>1, <2>1, <2>3, FullReadings
<1> HIDE DEF s, t
<1>3. [n \in candidates |-> s[n].allocatable.cpu] = [n \in candidates |-> t[n].allocatable.cpu]
  BY <1>2
<1>4. [n \in candidates |-> s[n].requested.cpu] = [n \in candidates |-> t[n].requested.cpu]
  BY <1>2
<1> QED BY <1>1, <1>3, <1>4 DEF FallbackOn, s, t

-----------------------------------------------------------------------------
(* The decision.                                                           *)

\* What a policy would answer had everything been read.
Ideal == PolicyScores(policy, Snapshot(AsRead(cluster)))

LEMMA IdealStays ==
    ASSUME UNCHANGED <<cluster, policy, digest, known>>
    PROVE  Ideal' = Ideal
BY DEF Ideal, PolicyScores, DummyRandom, Pick, LargestCPUCapacity, LeastAllocated, LeastUsed, ShortestEstimate,
       EarliestFinish, SlowedEstimate, Finish, Slowed, NeverRan, Snapshot, AsRead

Inv ==
    /\ Cluster
    /\ AnswersWhatIs
    /\ BlindFallbackSays
    /\ stage = "decide" => fallback = NoFallback

LEMMA InvNext == Inv /\ [BaselinesNext]_<<vars, decisionVars>> => Inv'
<1> SUFFICES ASSUME Inv, [BaselinesNext]_<<vars, decisionVars>> PROVE Inv'
  OBVIOUS
<1>1. CASE Accept
  <2>1. /\ UNCHANGED <<candidates, cluster, policy, digest, known>> /\ stage' = "best"
        /\ fallback' = NoFallback /\ scores' \in Answers
    BY <1>1 DEF Accept, Decided
  <2>2. AnswersWhatIs'
    <3>1. SUFFICES ASSUME policy \in Policies
                   PROVE  scores' = PolicyScores(policy, Snapshot(AsRead(cluster)))
      BY <2>1, IdealStays DEF AnswersWhatIs, Ideal
    <3>2. policy # "kaptain"
      BY <3>1 DEF Policies
    <3>3. scores' = PolicyScores(policy, Snapshot(cluster)) /\ ~Raises(policy, Snapshot(cluster))
      BY <2>1, <3>2 DEF Answers
    <3> QED BY <3>1, <3>3, AnswerIsWhatIs DEF Inv
  <2>3. NoFallback # {}
    BY DEF NoFallback
  <2> QED BY <2>1, <2>2, <2>3 DEF Inv, Cluster, BlindFallbackSays, NoFallback
<1>2. CASE FallBack
  <2>1. /\ UNCHANGED <<candidates, cluster, policy, digest, known>> /\ stage' = "best"
        /\ scores' = FallbackOn(Snapshot(cluster))
        /\ fallback' = FallbackIncomplete(Snapshot(cluster))
    BY <1>2 DEF FallBack, Decided
  <2>2. fallback' # NoFallback
    <3>1. FallbackIncomplete(Snapshot(cluster)) \subseteq Node
      BY DEF FallbackIncomplete, Snapshot, Inv, Cluster
    <3> QED BY <2>1, <3>1, NodeAssumption DEF NoFallback
  <2>3. AnswersWhatIs'
    BY <2>2 DEF AnswersWhatIs, NoFallback
  <2>4. BlindFallbackSays'
    BY <2>1, FallbackIsWhatIs DEF Inv, BlindFallbackSays, FallbackOn, Snapshot, AsRead
  <2> QED BY <2>1, <2>3, <2>4 DEF Inv, Cluster, NoFallback
<1>3. CASE Next /\ UNCHANGED decisionVars
  <2>1. UNCHANGED <<candidates, scores, cluster, policy, digest, known, fallback>>
    BY <1>3 DEF Next, Visit, VisitBest, VisitHighest, VisitWinner, EndBest, EndHighest, EndWinners,
       decisionVars
  <2>2. stage # "decide" /\ stage' # "decide"
    BY <1>3 DEF Next, Visit, VisitBest, VisitHighest, VisitWinner, EndBest, EndHighest, EndWinners
  <2>3. AnswersWhatIs'
    BY <2>1, <2>2, IdealStays DEF Inv, AnswersWhatIs, Ideal, NoFallback
  <2>4. BlindFallbackSays'
    BY <2>1, <2>2 DEF Inv, BlindFallbackSays, FallbackOn, Snapshot, AsRead
  <2> QED BY <2>1, <2>2, <2>3, <2>4 DEF Inv, Cluster
<1>4. CASE UNCHANGED <<vars, decisionVars>>
  <2>1. UNCHANGED <<candidates, stage, scores, cluster, policy, digest, known, fallback>>
    BY <1>4 DEF vars, decisionVars
  <2>2. AnswersWhatIs'
    BY <2>1, IdealStays DEF Inv, AnswersWhatIs, Ideal, NoFallback
  <2>3. BlindFallbackSays'
    BY <2>1 DEF Inv, BlindFallbackSays, FallbackOn, Snapshot, AsRead
  <2> QED BY <2>1, <2>2, <2>3 DEF Inv, Cluster, NoFallback
<1> QED BY <1>1, <1>2, <1>3, <1>4 DEF BaselinesNext

LEMMA InvInit == BaselinesInit => Inv
BY DEF BaselinesInit, Inv, Cluster, AnswersWhatIs, BlindFallbackSays, NoFallback

LEMMA Invariance == BaselinesSpec => []Inv
BY InvInit, InvNext, PTL DEF BaselinesSpec

\* README.md:227: what a policy answers is what it would have answered had everything been read.
THEOREM AnswersAreWhatIs == BaselinesSpec => []AnswersWhatIs
BY Invariance, PTL DEF Inv

\* README.md:224-225: a fallback whose line names no blind node is the one that knows all requests.
THEOREM BlindFallbacksSay == BaselinesSpec => []BlindFallbackSays
BY Invariance, PTL DEF Inv

-----------------------------------------------------------------------------
(* From the decision through the loops.                                    *)

\* Until it is decided no loop has run.
Fresh ==
    stage = "decide" =>
        /\ candidates \in (SUBSET Node) \ {{}} /\ left = candidates
        /\ best = NoNode /\ highest = MinusInf /\ winners = {} /\ framework = NoScores

Decision ==
    /\ TypeOK /\ Fresh
    /\ stage # "decide" => LoopsInv

\* Whatever is decided, a fallback scores one candidate 1 and the others 0.
LEMMA DecisionIsValid ==
    ASSUME Decision, stage = "decide", Accept \/ FallBack
    PROVE  ValidScores(candidates, scores') /\ fallback' \in {NoFallback} \cup SUBSET candidates
<1>1. CASE Accept
  BY <1>1 DEF Accept
<1>2. CASE FallBack
  <2>1. scores' = FallbackOn(Snapshot(cluster)) /\ fallback' = FallbackIncomplete(Snapshot(cluster))
    BY <1>2 DEF FallBack
  <2>2. DOMAIN Snapshot(cluster) = candidates
    BY DEF Decision, TypeOK, Snapshot
  <2>3. fallback' \subseteq candidates
    BY <2>1, <2>2 DEF FallbackIncomplete
  <2>4. PICK chosen : scores' = OneHot(candidates, chosen)
    BY <2>1, <2>2 DEF FallbackOn, FallbackScores
  <2>5. DOMAIN scores' = candidates /\ \A n \in candidates : scores'[n] \in {0, 1}
    BY <2>4 DEF OneHot
  <2>6. {0, 1} \subseteq -MaxRawScore .. MaxRawScore
    BY MaxRawScoreAssumption
  <2> QED BY <2>3, <2>5, <2>6 DEF ValidScores
<1> QED BY <1>1, <1>2

LEMMA DecisionNext == Decision /\ [BaselinesNext]_<<vars, decisionVars>> => Decision'
<1> SUFFICES ASSUME Decision, [BaselinesNext]_<<vars, decisionVars>> PROVE Decision'
  OBVIOUS
<1>1. CASE Accept \/ FallBack
  <2>1. /\ stage = "decide" /\ stage' = "best"
        /\ UNCHANGED <<candidates, left, best, highest, winners, framework, cluster>>
    BY <1>1 DEF Accept, FallBack, Decided
  <2>2. ValidScores(candidates, scores') /\ fallback' \in {NoFallback} \cup SUBSET candidates
    BY <1>1, <2>1, DecisionIsValid
  <2>3. TypeOK' /\ Fresh'
    BY <2>1, <2>2 DEF Decision, TypeOK, Fresh, NoFallback
  <2>4. /\ candidates \in (SUBSET Node) \ {{}} /\ left = candidates
        /\ best = NoNode /\ highest = MinusInf /\ winners = {} /\ framework = NoScores
    BY <2>1 DEF Decision, Fresh
  <2>5. visited' = {} /\ Seen' = {}
    BY <2>1, <2>4 DEF visited, Seen
  <2>6. \A n \in DOMAIN scores' : scores'[n] \in Int
    BY <2>2, MaxRawScoreAssumption DEF ValidScores
  <2>7. LoopsInv'
    BY <2>1, <2>4, <2>5, <2>6 DEF LoopsInv, Arguments, BestLoop, HighestLoop, WinnersLoop
  <2> QED BY <2>3, <2>7 DEF Decision
<1>2. CASE Next /\ UNCHANGED decisionVars
  <2>1. UNCHANGED <<candidates, scores, cluster, fallback>> /\ stage # "decide" /\ stage' # "decide"
    BY <1>2 DEF Next, Visit, VisitBest, VisitHighest, VisitWinner, EndBest, EndHighest, EndWinners, decisionVars
  <2>2. LoopsInv'
    BY <1>2, <2>1, LoopsStep DEF Decision
  <2> QED BY <2>1, <2>2 DEF Decision, TypeOK, Fresh, NoFallback, ValidScores
<1>3. CASE UNCHANGED <<vars, decisionVars>>
  <2>1. UNCHANGED vars /\ UNCHANGED <<cluster, fallback>>
    BY <1>3 DEF decisionVars
  <2>2. stage # "decide" => LoopsInv'
    BY <2>1, LoopsStep DEF Decision
  <2> QED BY <2>1, <2>2 DEF Decision, TypeOK, Fresh, NoFallback, ValidScores, vars
<1> QED BY <1>1, <1>2, <1>3 DEF BaselinesNext

LEMMA DecisionInvariance == BaselinesSpec => []Decision
<1>1. BaselinesInit => Decision
  BY DEF BaselinesInit, Decision, TypeOK, Fresh
<1> QED BY <1>1, DecisionNext, PTL DEF BaselinesSpec

\* decision.go 222-238: whatever the decider answers, or fails to, each candidate has a bounded score, and
\* nothing else has one; the blind nodes of a fallback are candidates.
THEOREM DecisionsAreComplete == BaselinesSpec => []TypeOK
BY DecisionInvariance, PTL DEF Decision

\* snapshot.go 90-104, decision.go 93-111: what kube-scheduler ranks on after the loops is what the
\* policy's scores say, or the fallback's.
THEOREM DecisionsAreLooped == BaselinesSpec => []LoopsCompute
<1>1. Decision => LoopsCompute
  BY DEF Decision, LoopsInv, BestLoop, WinnersLoop, LoopsCompute
<1> QED BY <1>1, DecisionInvariance, PTL
=============================================================================
