----------------------------- MODULE SchedulingProofs -----------------------------
(***************************************************************************)
(* The safety properties of Scheduling, for every number of processes,     *)
(* pods, nodes and policies.                                               *)
(*                                                                         *)
(* TypeOK and Alive are proved first; StepCases then says which of four    *)
(* things a step does to the cycles and the lines, and every later         *)
(* invariant is proved over those: Sound is what a decision line is made   *)
(* of, Answered who computed an answer, Numbered that ids stay below the   *)
(* counters, Logged that what is being bound is on the decision lines, and *)
(* Agreement which replicas the decider has had since a process agreed.    *)
(***************************************************************************)
EXTENDS Scheduling, FiniteSetTheorems, TLAPS

-----------------------------------------------------------------------------
(* The operators of Scores: what they CHOOSE exists, for every finite set  *)
(* of candidates and every score map. Each needs a first element of a      *)
(* finite set in some order, which HasFirst provides.                      *)

\* A finite set that is not empty has a first element in any total order.
LEMMA HasFirst ==
    ASSUME NEW S, IsFiniteSet(S), S # {}, NEW R,
           \A x, y \in S : x # y => <<x, y>> \in R \/ <<y, x>> \in R,
           IsTransitivelyClosedOn(R, S)
    PROVE  \E x \in S : \A y \in S \ {x} : <<x, y>> \in R
<1> DEFINE First(T, x) == x \in T /\ \A y \in T \ {x} : <<x, y>> \in R
           Bad == {T \in SUBSET S : T # {} /\ ~ \E x : First(T, x)}
<1>1. SUFFICES ASSUME Bad # {} PROVE FALSE
  BY <1>1, S # {}, S \in SUBSET S
<1>2. IsWellFoundedOn(StrictSubsetOrdering(S), SUBSET S)
  BY FS_StrictSubsetOrderingWellFounded, FS_FiniteSubsetsOfFinite
<1>3. PICK T \in Bad : \A U \in Bad : <<U, T>> \notin StrictSubsetOrdering(S)
  <2>1. Bad \subseteq SUBSET S
    OBVIOUS
  <2> HIDE DEF Bad
  <2> QED BY <1>1, <1>2, <2>1, WFMin
<1>4. PICK a \in T : TRUE
  OBVIOUS
<1>5. T \ {a} # {}
  BY <1>4
<1>6. T \ {a} \notin Bad
  <2>1. <<T \ {a}, T>> \in StrictSubsetOrdering(S)
    BY <1>4 DEF StrictSubsetOrdering
  <2> QED BY <1>3, <2>1
<1>7. PICK b : First(T \ {a}, b)
  BY <1>5, <1>6
<1>8. CASE <<b, a>> \in R
  <2>1. First(T, b)
    BY <1>7, <1>8
  <2> QED BY <2>1
<1>9. CASE <<a, b>> \in R
  <2>1. \A y \in T \ {a} : <<a, y>> \in R
    BY <1>4, <1>7, <1>9 DEF IsTransitivelyClosedOn
  <2>2. First(T, a)
    BY <1>4, <2>1
  <2> QED BY <2>2
<1> QED BY <1>4, <1>7, <1>8, <1>9

-----------------------------------------------------------------------------
\* What the plugin is handed: candidates that exist, at least one.
Candidates(C) == C \subseteq Node /\ C # {}

LEMMA CandidatesFinite ==
    ASSUME NEW C, Candidates(C)
    PROVE  IsFiniteSet(C) /\ C \subseteq Nat /\ NoNode \notin C
BY NodeAssumption, FS_Subset DEF Candidates

\* scoreCandidates (decision.go 95-111): the winners are the candidates no score exceeds, and there is one.
LEMMA WinnersAreHighest ==
    ASSUME NEW C, Candidates(C), NEW s \in [C -> Int]
    PROVE  /\ Winners(C, s) = {n \in C : \A m \in C : s[m] <= s[n]}
           /\ Winners(C, s) # {}
<1> DEFINE R == {p \in C \X C : s[p[2]] <= s[p[1]]}
<1>1. IsFiniteSet(C) /\ C # {}
  BY CandidatesFinite DEF Candidates
<1>2. \A x, y \in C : x # y => <<x, y>> \in R \/ <<y, x>> \in R
  OBVIOUS
<1>3. IsTransitivelyClosedOn(R, C)
  BY DEF IsTransitivelyClosedOn
<1>4. PICK t \in C : \A y \in C \ {t} : <<t, y>> \in R
  <2>1. IsFiniteSet(C) /\ C # {}
    BY <1>1
  <2> HIDE DEF R
  <2> QED BY ONLY <2>1, <1>2, <1>3, HasFirst
<1>5. \A m \in C : s[m] <= s[t]
  <2>1. \A m \in C : <<t, m>> \in R => s[m] <= s[t]
    OBVIOUS
  <2>2. \A m \in C : m # t => <<t, m>> \in R
    BY <1>4
  <2>3. s[t] <= s[t]
    OBVIOUS
  <2> HIDE DEF R
  <2> QED BY <2>1, <2>2, <2>3
<1>6. \A n \in C : ScoreOf(s, n) = s[n]
  BY DEF ScoreOf
<1>7. Highest(C, s) = s[t]
  <2> DEFINE H == {ScoreOf(s, n) : n \in C}
             Top(h) == \A n \in C : ScoreOf(s, n) <= h
  <2>1. s[t] \in H /\ Top(s[t])
    BY <1>5, <1>6
  <2>2. \A h \in H : Top(h) => h = s[t]
    <3>1. TAKE h \in H
    <3>2. PICK k \in C : h = s[k]
      BY <1>6
    <3> QED BY <1>5, <1>6, <3>2
  <2>3. Highest(C, s) \in H /\ Top(Highest(C, s))
    BY <2>1 DEF Highest
  <2> QED BY <2>2, <2>3
<1> QED BY <1>5, <1>6, <1>7 DEF Winners

\* snapshot.Best (snapshot.go 90-104): with every candidate scored, one of the winners.
LEMMA BestWins ==
    ASSUME NEW C, Candidates(C), NEW s \in [C -> Int]
    PROVE  /\ Best(C, s) \in Winners(C, s)
           /\ Intended(C, s) = Best(C, s)
<1> DEFINE R == {p \in C \X C : s[p[2]] < s[p[1]] \/ (s[p[2]] = s[p[1]] /\ p[1] <= p[2])}
           Wins(n) == \A m \in C : s[m] < s[n] \/ (s[m] = s[n] /\ n <= m)
<1>1. IsFiniteSet(C) /\ C # {} /\ C \subseteq Nat /\ NoNode \notin C
  BY CandidatesFinite DEF Candidates
<1>2. \A x, y \in C : x # y => <<x, y>> \in R \/ <<y, x>> \in R
  BY <1>1
<1>3. IsTransitivelyClosedOn(R, C)
  BY <1>1 DEF IsTransitivelyClosedOn
<1>4. PICK t \in C : \A y \in C \ {t} : <<t, y>> \in R
  <2>1. IsFiniteSet(C) /\ C # {}
    BY <1>1
  <2> HIDE DEF R
  <2> QED BY ONLY <2>1, <1>2, <1>3, HasFirst
<1>5. Wins(t)
  <2>1. \A m \in C : <<t, m>> \in R => s[m] < s[t] \/ (s[m] = s[t] /\ t <= m)
    OBVIOUS
  <2>2. s[t] = s[t] /\ t <= t
    BY <1>1
  <2> HIDE DEF R
  <2> QED BY <1>4, <2>1, <2>2
<1>6. C \cap DOMAIN s = C
  OBVIOUS
<1>7. Best(C, s) = CHOOSE n \in C : Wins(n)
  BY <1>1, <1>6 DEF Best
<1>8. Best(C, s) \in C /\ Wins(Best(C, s))
  BY <1>4, <1>5, <1>7
<1>9. Best(C, s) \in Winners(C, s)
  BY <1>8, WinnersAreHighest
<1> QED BY <1>1, <1>8, <1>9 DEF Intended

-----------------------------------------------------------------------------
\* fallbackNode (fallback.go 29-45): a candidate, and none is freer.
LEMMA FallbackNodeIsFreest ==
    ASSUME NEW C, Candidates(C), NEW alloc \in [Node -> Int], NEW req \in [Node -> Int],
           NEW cpu \in Int
    PROVE  LET f == FallbackNode(C, alloc, req, cpu)
           IN  f \in C /\ \A m \in C : alloc[m] - req[m] <= alloc[f] - req[f]
<1> DEFINE R == {p \in C \X C : RanksBefore(alloc, req, cpu, p[1], p[2])}
           f == FallbackNode(C, alloc, req, cpu)
<1>1. IsFiniteSet(C) /\ C # {} /\ C \subseteq Nat /\ C \subseteq Node
  BY CandidatesFinite DEF Candidates
<1>2. \A x, y \in C : x # y => <<x, y>> \in R \/ <<y, x>> \in R
  BY <1>1 DEF RanksBefore, FreeMilliCPU
<1>3. IsTransitivelyClosedOn(R, C)
  BY <1>1 DEF IsTransitivelyClosedOn, RanksBefore, FreeMilliCPU
<1>4. PICK t \in C : \A y \in C \ {t} : <<t, y>> \in R
  <2>1. IsFiniteSet(C) /\ C # {}
    BY <1>1
  <2> HIDE DEF R
  <2> QED BY ONLY <2>1, <1>2, <1>3, HasFirst
<1>5. f \in C /\ \A m \in C \ {f} : RanksBefore(alloc, req, cpu, f, m)
  <2>1. \A y \in C : <<t, y>> \in R => RanksBefore(alloc, req, cpu, t, y)
    OBVIOUS
  <2>2. \A y \in C \ {t} : RanksBefore(alloc, req, cpu, t, y)
    BY <1>4, <2>1
  <2> QED BY <2>2 DEF FallbackNode
<1>6. \A m \in C : alloc[m] - req[m] <= alloc[f] - req[f]
  <2> HIDE DEF f
  <2>1. \A m \in C : m # f => alloc[m] - req[m] - cpu <= alloc[f] - req[f] - cpu
    BY <1>1, <1>5 DEF RanksBefore, FreeMilliCPU
  <2>2. \A m \in C : alloc[m] \in Int /\ req[m] \in Int
    BY <1>1
  <2> QED BY <1>5, <2>1, <2>2
<1> QED BY <1>5, <1>6

LEMMA OneHotWinner ==
    ASSUME NEW C, Candidates(C), NEW c \in C
    PROVE  /\ OneHot(C, c) \in [C -> 0 .. 1]
           /\ Winners(C, OneHot(C, c)) = {c}
           /\ Intended(C, OneHot(C, c)) = c
<1>1. OneHot(C, c) \in [C -> 0 .. 1] /\ OneHot(C, c) \in [C -> Int]
  BY DEF OneHot
<1>2. \A n \in C : (\A m \in C : OneHot(C, c)[m] <= OneHot(C, c)[n]) <=> n = c
  BY DEF OneHot
<1>3. Winners(C, OneHot(C, c)) = {c}
  <2>1. Winners(C, OneHot(C, c)) = {n \in C : \A m \in C : OneHot(C, c)[m] <= OneHot(C, c)[n]}
    BY <1>1, WinnersAreHighest
  <2> QED BY <1>2, <2>1
<1> QED BY <1>1, <1>3, BestWins

-----------------------------------------------------------------------------
(* The invariants.                                                         *)

Alive ==
    \A i \in Scheduler :
        /\ status[i] # "unborn" => config[i] \in Strategy
        /\ cycle[i] # NoCycle => status[i] = "ready"

\* A decision line is the outcome of the plugin's arithmetic on the scores it shows.
SoundDecision(d) ==
    /\ DOMAIN d.scores # {}
    /\ d.winners = {n \in DOMAIN d.scores : \A m \in DOMAIN d.scores : d.scores[m] <= d.scores[n]}
    /\ d.intended \in d.winners
    /\ d.reason # NoReason =>
          /\ d.winners = {d.intended}
          /\ \A m \in DOMAIN d.scores :
                Capacity[m] - d.requested[m] <= Capacity[d.intended] - d.requested[d.intended]

\* What process i may write at the end of decide.
GoodLine(i, d) ==
    /\ d \in Decision
    /\ d.id = cycle[i].id
    /\ d.pod = cycle[i].pod
    /\ d.strategy = config[i]
    /\ DOMAIN d.scores = cycle[i].candidates
    /\ SoundDecision(d)
    /\ d.reason = NoReason =>
          /\ cycle[i].answer \in Answer
          /\ cycle[i].answer.strategy = config[i]
          /\ d.scorer = cycle[i].answer.scorer
    /\ d.reason = "strategy_mismatch" =>
          /\ cycle[i].answer \in Answer
          /\ d.reported = cycle[i].answer.strategy
          /\ d.reported # config[i]

-----------------------------------------------------------------------------
\* What an answer that is not refused comes to is a score map.
LEMMA RawScoresType ==
    ASSUME NEW C, Candidates(C), NEW r \in Answer, ~Refused(C, r), ValidScores(C, RawScores(C, r))
    PROVE  RawScores(C, r) \in [C -> -MaxRawScore .. MaxRawScore]
<1>1. CASE DOMAIN r.scores # {}
  <2>1. PICK D : r.scores \in [D -> RawScore]
    BY DEF Answer, ScoreMap
  <2> QED BY <1>1, <2>1 DEF RawScores, ValidScores
<1>2. CASE DOMAIN r.scores = {}
  BY <1>2 DEF RawScores, ValidScores, OneHot
<1> QED BY <1>1, <1>2

LEMMA RequestedType ==
    ASSUME TypeOK, NEW i \in Scheduler
    PROVE  Requested(i) \in [Node -> Nat]
<1>1. \A n \in Node : Cardinality({p \in Pod : Hosted(i, p, n)}) \in Nat
  <2>1. ASSUME NEW n \in Node PROVE IsFiniteSet({p \in Pod : Hosted(i, p, n)})
    BY SchedulingAssumption, FS_Subset
  <2> QED BY <2>1, FS_CardinalityType
<1> QED BY <1>1 DEF Requested

\* The fallback's scores, and the winner they leave.
LEMMA FallbackScoresSound ==
    ASSUME NEW C, Candidates(C), NEW req \in [Node -> Nat]
    PROVE  LET f == FallbackNode(C, Capacity, req, 1)
               s == FallbackScores(C, Capacity, req, 1)
           IN  /\ s \in [C -> -MaxRawScore .. MaxRawScore]
               /\ Winners(C, s) = {f}
               /\ Intended(C, s) = f
               /\ \A m \in C : Capacity[m] - req[m] <= Capacity[f] - req[f]
<1> DEFINE f == FallbackNode(C, Capacity, req, 1)
           s == FallbackScores(C, Capacity, req, 1)
<1>1. Capacity \in [Node -> Int] /\ req \in [Node -> Int] /\ 1 \in Int
  BY SchedulingAssumption
<1>2. f \in C /\ \A m \in C : Capacity[m] - req[m] <= Capacity[f] - req[f]
  BY <1>1, FallbackNodeIsFreest
<1>3. s = OneHot(C, f)
  BY DEF FallbackScores
<1>4. s \in [C -> 0 .. 1] /\ Winners(C, s) = {f} /\ Intended(C, s) = f
  BY <1>2, <1>3, OneHotWinner
<1>5. 0 .. 1 \subseteq -MaxRawScore .. MaxRawScore
  BY MaxRawScoreAssumption
<1>6. s \in [C -> -MaxRawScore .. MaxRawScore]
  <2> HIDE DEF s
  <2> QED BY <1>4, <1>5
<1> QED BY <1>2, <1>4, <1>6

\* A decision line is well formed and sound, whatever the call came to.
LEMMA DecisionLineSound ==
    ASSUME TypeOK, Alive, NEW i \in Scheduler, Calling(i),
           NEW reason \in Reason, NEW reported \in Strategy \cup {NoName}, NEW scores,
           NEW scorer \in Strategy \cup {NoName},
           reason = NoReason => scores \in [cycle[i].candidates -> -MaxRawScore .. MaxRawScore]
    PROVE  LET d == DecisionLine(i, reason, reported, Effective(i, reason, scores), scorer)
           IN  d \in Decision /\ DOMAIN d.scores = cycle[i].candidates /\ SoundDecision(d)
<1> DEFINE c == cycle[i]
           C == c.candidates
           effective == IF reason = NoReason THEN scores ELSE FallbackScores(C, Capacity, c.requested, 1)
           d == [id |-> c.id, pod |-> c.pod, strategy |-> config[i], reported |-> reported,
                 reason |-> reason, scores |-> effective, intended |-> Intended(C, effective),
                 winners |-> Winners(C, effective), requested |-> c.requested,
                 scorer |-> IF reason = NoReason THEN scorer ELSE NoName]
<1>1. c \in Cycle /\ config[i] \in Strategy
  BY DEF TypeOK, Alive, Calling
<1>2. Candidates(C) /\ c.requested \in [Node -> Nat] /\ c.id \in Id /\ c.pod \in Pod
  BY <1>1 DEF Candidates, Cycle
<1>3. effective \in [C -> -MaxRawScore .. MaxRawScore]
  BY <1>2, FallbackScoresSound
<1>4. effective \in [C -> Int]
  <2> HIDE DEF effective
  <2> QED BY <1>3, MaxRawScoreAssumption
<1>5. /\ Winners(C, effective) = {n \in C : \A m \in C : effective[m] <= effective[n]}
      /\ Intended(C, effective) \in Winners(C, effective)
  <2> HIDE DEF effective
  <2> QED BY <1>2, <1>4, WinnersAreHighest, BestWins
<1>6. C \subseteq Node /\ C # {} /\ C \in SUBSET Node
  BY <1>2 DEF Candidates
<1>7. DOMAIN effective = C
  <2> HIDE DEF effective
  <2> QED BY <1>4
<1>8. Intended(C, effective) \in Node /\ Winners(C, effective) \in SUBSET Node
  BY <1>5, <1>6
<1>9. effective \in EffectiveScores
  <2> HIDE DEF effective
  <2> QED BY <1>3, <1>6 DEF EffectiveScores
<1>10. d \in Decision
  <2> HIDE DEF effective, C
  <2> QED BY <1>1, <1>2, <1>8, <1>9 DEF Decision
<1>11. SoundDecision(d)
  <2>1. reason # NoReason =>
          /\ Winners(C, effective) = {Intended(C, effective)}
          /\ \A m \in C : Capacity[m] - c.requested[m]
                            <= Capacity[Intended(C, effective)] - c.requested[Intended(C, effective)]
    BY <1>2, FallbackScoresSound
  <2> HIDE DEF effective, C
  <2> QED BY <1>5, <1>6, <1>7, <2>1 DEF SoundDecision
<1>12. d = DecisionLine(i, reason, reported, Effective(i, reason, scores), scorer)
  BY DEF DecisionLine, Effective
<1>13. DOMAIN d.scores = cycle[i].candidates
  <2> HIDE DEF effective
  <2> QED BY <1>7
<1> HIDE DEF d
<1> QED BY <1>10, <1>11, <1>12, <1>13

\* The two ways a call ends.
LEMMA ScoringConcludes ==
    ASSUME TypeOK, Alive, NEW i \in Scheduler, Scoring(i)
    PROVE  /\ Calling(i)
           /\ \E d : GoodLine(i, d) /\ Conclude(i, d)
<1>1. cycle[i] \in Cycle
  BY DEF TypeOK, Scoring, Decide, CallFails, Calling
<1>2. CASE Decide(i)
  <2> DEFINE r == cycle[i].answer
             C == cycle[i].candidates
             reason == FallbackReason(config[i], C, r)
             d == DecisionLine(i, reason, r.strategy, Effective(i, reason, RawScores(C, r)), r.scorer)
  <2>1. Calling(i) /\ Candidates(C) /\ r \in Answer
    BY <1>1, <1>2 DEF Decide, Cycle, Candidates
  <2>2. reason \in Reason
    BY DEF FallbackReason, Reason
  <2>3. reason = NoReason => /\ RawScores(C, r) \in [C -> -MaxRawScore .. MaxRawScore]
                            /\ r.strategy = config[i]
    BY <2>1, RawScoresType DEF FallbackReason, NoReason
  <2>4. reason = "strategy_mismatch" => r.strategy # config[i]
    BY DEF FallbackReason, NoReason
  <2>5. r.strategy \in Strategy \cup {NoName} /\ r.scorer \in Strategy \cup {NoName}
    BY <2>1 DEF Answer
  <2>6. d \in Decision /\ DOMAIN d.scores = C /\ SoundDecision(d)
    <3> HIDE DEF reason
    <3> QED BY <2>1, <2>2, <2>3, <2>5, DecisionLineSound
  <2>7. GoodLine(i, d)
    <3> HIDE DEF reason
    <3> QED BY <2>1, <2>3, <2>4, <2>6 DEF GoodLine, DecisionLine
  <2>8. Conclude(i, d)
    BY <1>2 DEF Decide
  <2> HIDE DEF d
  <2> QED BY <2>1, <2>7, <2>8
<1>3. CASE CallFails(i)
  <2> DEFINE d == DecisionLine(i, "decider_error", NoName, Effective(i, "decider_error", <<>>), NoName)
  <2>1. Calling(i) /\ Conclude(i, d)
    BY <1>3 DEF CallFails
  <2>2. "decider_error" \in Reason /\ "decider_error" # NoReason
    BY DEF Reason, NoReason
  <2>3. d \in Decision /\ DOMAIN d.scores = cycle[i].candidates /\ SoundDecision(d)
    BY <2>1, <2>2, DecisionLineSound
  <2>4. GoodLine(i, d)
    BY <2>2, <2>3 DEF GoodLine, DecisionLine
  <2> HIDE DEF d
  <2> QED BY <2>1, <2>4
<1> QED BY <1>2, <1>3 DEF Scoring

-----------------------------------------------------------------------------
(* Type correctness.                                                       *)

LEMMA TypeInit == Init => TypeOK /\ Alive
BY SchedulingAssumption DEF Init, TypeOK, Alive

LEMMA TypeLifecycle ==
    ASSUME TypeOK, Alive, NEW i \in Scheduler, Lifecycle(i)
    PROVE  TypeOK' /\ Alive'
<1>1. CASE Start(i)
  BY <1>1 DEF Start, TypeOK, Alive, cluster, work, lines
<1>2. CASE Agree(i)
  <2>1. /\ status' = [status EXCEPT ![i] = "ready"]
        /\ agreedAt' = [agreedAt EXCEPT ![i] = edits]
        /\ agreedAmong' = [agreedAmong EXCEPT ![i] = replicas]
        /\ UNCHANGED <<cluster, config, counter, work, lines>>
    BY <1>2 DEF Agree, Agreed
  <2>2. agreedAt' \in [Scheduler -> 0 .. MaxEdits] /\ agreedAmong' \in [Scheduler -> SUBSET Strategy]
    BY <2>1 DEF TypeOK
  <2>3. Alive'
    BY <1>2, <2>1 DEF Agree, TypeOK, Alive, cluster, work
  <2> QED BY <2>1, <2>2, <2>3 DEF TypeOK, cluster, work, lines
<1>3. CASE RefuseToStart(i)
  BY <1>3 DEF RefuseToStart, TypeOK, Alive, cluster, work, lines
<1>4. CASE Crash(i)
  <2>1. PICK Q \in SUBSET {p \in Pod : attempt[i][p] # NoAttempt /\ bound[p] = NoNode} :
          bound' = [p \in Pod |-> IF p \in Q THEN attempt[i][p].node ELSE bound[p]]
    BY <1>4 DEF Crash
  <2>2. \A p \in Q : attempt[i][p] \in Attempt
    BY DEF TypeOK
  <2>3. \A p \in Pod : bound'[p] \in Node \cup {NoNode}
    BY <2>1, <2>2 DEF TypeOK, Attempt
  <2>4. bound' \in [Pod -> Node \cup {NoNode}]
    BY <2>1, <2>3
  <2>5. cycle' \in [Scheduler -> Cycle \cup {NoCycle}]
    BY <1>4 DEF Crash, TypeOK
  <2>6. attempt' \in [Scheduler -> [Pod -> Attempt \cup {NoAttempt}]]
    BY <1>4 DEF Crash, TypeOK
  <2> QED BY <1>4, <2>4, <2>5, <2>6 DEF Crash, TypeOK, Alive, cluster, lines
<1> QED BY <1>1, <1>2, <1>3, <1>4 DEF Lifecycle

LEMMA TypeTakePod ==
    ASSUME TypeOK, Alive, NEW i \in Scheduler, TakePod(i)
    PROVE  TypeOK' /\ Alive'
<1>1. PICK p \in Pod : PreScore(i, p) \/ AssumeOnly(i, p)
  BY DEF TakePod
<1>2. CASE PreScore(i, p)
  <2>1. PICK C \in SUBSET Admissible(i) :
          /\ Cardinality(C) > 1
          /\ counter' = [counter EXCEPT ![i] = @ + 1]
          /\ cycle' = [cycle EXCEPT ![i] = Snapshot(i, p, C)]
    BY <1>2 DEF PreScore
  <2>2. C \in (SUBSET Node) \ {{}}
    BY <2>1, FS_EmptySet DEF Admissible
  <2>3. counter' \in [Scheduler -> Nat] /\ counter[i] + 1 \in Nat \ {0}
    BY <2>1 DEF TypeOK
  <2>4. NewDecisionID(i, counter[i] + 1) \in Id
    BY <2>3 DEF NewDecisionID, Id
  <2>5. Snapshot(i, p, C) \in Cycle
    BY <2>2, <2>4, RequestedType DEF Cycle, Snapshot
  <2>6. cycle' \in [Scheduler -> Cycle \cup {NoCycle}]
    BY <2>1, <2>5 DEF TypeOK
  <2> QED BY <1>2, <2>3, <2>6 DEF PreScore, Idle, TypeOK, Alive, cluster, lines
<1>3. CASE AssumeOnly(i, p)
  <2>1. PICK n \in Node : attempt' = [attempt EXCEPT ![i][p] = [node |-> n, decision |-> NoDecision]]
    BY <1>3 DEF AssumeOnly, Admissible
  <2>2. attempt' \in [Scheduler -> [Pod -> Attempt \cup {NoAttempt}]]
    BY <2>1 DEF TypeOK, Attempt
  <2> QED BY <1>3, <2>2 DEF AssumeOnly, TypeOK, Alive, cluster, process, lines
<1> QED BY <1>1, <1>2, <1>3

LEMMA TypeAnswers ==
    ASSUME TypeOK, Alive, NEW i \in Scheduler, DeciderAnswers(i)
    PROVE  TypeOK' /\ Alive'
<1>1. PICK scorer \in serving : \E s \in ScoreMap, n \in Node \cup {Stranger, NoNode}, name \in {scorer, NoName} :
        cycle' = [cycle EXCEPT ![i].answer =
                    [scores |-> s, node |-> n, strategy |-> name, scorer |-> scorer]]
  BY DEF DeciderAnswers
<1>2. PICK s \in ScoreMap, n \in Node \cup {Stranger, NoNode}, name \in {scorer, NoName} :
        cycle' = [cycle EXCEPT ![i].answer =
                    [scores |-> s, node |-> n, strategy |-> name, scorer |-> scorer]]
  BY <1>1
<1> DEFINE r == [scores |-> s, node |-> n, strategy |-> name, scorer |-> scorer]
<1>9. r \in Answer
  BY DEF TypeOK, Answer
<1>10. cycle' = [cycle EXCEPT ![i].answer = r]
  BY <1>2
<1> HIDE DEF r
<1>3. cycle[i] \in Cycle
  BY DEF DeciderAnswers, Calling, TypeOK
<1>4. cycle' \in [Scheduler -> Cycle \cup {NoCycle}]
  BY <1>9, <1>10, <1>3 DEF TypeOK, Cycle
<1>5. \A j \in Scheduler : cycle'[j] # NoCycle => cycle[j] # NoCycle
  BY <1>10, <1>3 DEF DeciderAnswers, Calling, TypeOK
<1> QED BY <1>4, <1>5 DEF DeciderAnswers, TypeOK, Alive, cluster, process, lines

LEMMA TypeScoring ==
    ASSUME TypeOK, Alive, NEW i \in Scheduler, Scoring(i)
    PROVE  TypeOK' /\ Alive'
<1>1. PICK d : GoodLine(i, d) /\ Conclude(i, d)
  BY ScoringConcludes
<1>2. cycle[i] \in Cycle /\ cycle[i] # NoCycle
  BY ScoringConcludes DEF Calling, TypeOK
<1>3. cycle' \in [Scheduler -> Cycle \cup {NoCycle}]
  BY <1>1, <1>2 DEF GoodLine, Conclude, TypeOK, Cycle
<1>4. \A j \in Scheduler : cycle'[j] # NoCycle => cycle[j] # NoCycle
  BY <1>1, <1>2 DEF Conclude, TypeOK
<1>5. decisions' \in SUBSET Decision
  BY <1>1 DEF GoodLine, Conclude, TypeOK
<1> QED BY <1>1, <1>3, <1>4, <1>5 DEF Conclude, TypeOK, Alive, cluster, process

LEMMA TypeSelectHost ==
    ASSUME TypeOK, Alive, NEW i \in Scheduler, SelectHost(i)
    PROVE  TypeOK' /\ Alive'
<1> DEFINE c == cycle[i]
<1>1. PICK n \in c.candidates :
        attempt' = [attempt EXCEPT ![i][c.pod] = [node |-> n, decision |-> c.decision]]
  BY DEF SelectHost
<1>2. c \in Cycle
  BY DEF SelectHost, TypeOK
<1>3. c.candidates \subseteq Node /\ c.pod \in Pod /\ c.decision \in Decision \cup {NoDecision}
  BY <1>2 DEF Cycle
<1>4. [node |-> n, decision |-> c.decision] \in Attempt
  BY <1>1, <1>3 DEF Attempt
<1>5. attempt' \in [Scheduler -> [Pod -> Attempt \cup {NoAttempt}]]
  BY <1>1, <1>3, <1>4 DEF TypeOK
<1>6. cycle' \in [Scheduler -> Cycle \cup {NoCycle}]
  BY DEF SelectHost, TypeOK
<1>7. \A j \in Scheduler : cycle'[j] # NoCycle => cycle[j] # NoCycle
  BY DEF SelectHost, TypeOK
<1> QED BY <1>5, <1>6, <1>7 DEF SelectHost, TypeOK, Alive, cluster, process, lines

LEMMA TypeFinishBinding ==
    ASSUME TypeOK, Alive, NEW i \in Scheduler, NEW p \in Pod, FinishBinding(i, p)
    PROVE  TypeOK' /\ Alive'
<1>1. attempt[i][p] \in Attempt
  BY DEF FinishBinding, Bind, BindConflict, BindFails, TypeOK
<1>2. attempt' \in [Scheduler -> [Pod -> Attempt \cup {NoAttempt}]]
  <2>1. attempt' = [attempt EXCEPT ![i][p] = NoAttempt]
    BY DEF FinishBinding, Bind, BindConflict, BindFails, Forget
  <2> QED BY <2>1 DEF TypeOK
<1>3. bound' \in [Pod -> Node \cup {NoNode}]
  BY <1>1 DEF FinishBinding, Bind, BindConflict, BindFails, TypeOK, Attempt
<1>4. failures' \in 0 .. MaxFailures
  BY SchedulingAssumption DEF FinishBinding, Bind, BindConflict, BindFails, TypeOK
<1>5. bindings' \in SUBSET Binding
  <2>1. BindingLine(i, p) \in Binding
    BY <1>1 DEF BindingLine, Binding, Attempt, Decision
  <2> QED BY <2>1 DEF FinishBinding, Bind, BindConflict, BindFails, TypeOK, lines
<1>6. UNCHANGED <<cluster, process, cycle, decisions>>
  BY DEF FinishBinding, Bind, BindConflict, BindFails, lines
<1> QED BY <1>2, <1>3, <1>4, <1>5, <1>6 DEF TypeOK, Alive, cluster, process

\* Neither an edit nor what becomes of the decider's replicas touches a process, a pod or a line.
LEMMA ClusterApart ==
    ASSUME Edit \/ Replicas \/ UNCHANGED vars
    PROVE  UNCHANGED <<process, work, lines>>
BY DEF Edit, EditScheduler, EditDecider, Replicas, ReplicaReady, ReplicaStops, ReplicaRetires, vars

LEMMA ClusterKinds ==
    ASSUME TypeOK, Edit \/ Replicas \/ UNCHANGED vars
    PROVE  /\ declared' \in Strategy
           /\ deployed' \in replicas' /\ serving' \subseteq replicas' /\ replicas' \subseteq Strategy
           /\ edits' \in 0 .. MaxEdits
<1>1. CASE Edit
  BY <1>1, SchedulingAssumption DEF Edit, EditScheduler, EditDecider, TypeOK
<1>2. CASE Replicas
  BY <1>2 DEF Replicas, ReplicaReady, ReplicaStops, ReplicaRetires, TypeOK
<1>3. CASE UNCHANGED vars
  BY <1>3 DEF vars, cluster, TypeOK
<1> QED BY <1>1, <1>2, <1>3

LEMMA TypeStep ==
    ASSUME TypeOK, Alive, [Next]_vars
    PROVE  TypeOK' /\ Alive'
<1>1. CASE Edit \/ Replicas \/ UNCHANGED vars
  BY <1>1, ClusterApart, ClusterKinds DEF TypeOK, Alive, process, work, lines
<1>2. ASSUME NEW i \in Scheduler,
             Lifecycle(i) \/ TakePod(i) \/ DeciderAnswers(i) \/ Scoring(i) \/ SelectHost(i)
      PROVE  TypeOK' /\ Alive'
  BY <1>2, TypeLifecycle, TypeTakePod, TypeAnswers, TypeScoring, TypeSelectHost
<1>3. ASSUME NEW i \in Scheduler, NEW p \in Pod, FinishBinding(i, p)
      PROVE  TypeOK' /\ Alive'
  BY <1>3, TypeFinishBinding
<1> QED BY <1>1, <1>2, <1>3 DEF Next

\* The state keeps its shape, for every number of processes, pods, nodes and policies: in particular
\* a decision line has a score for each candidate and intends one of them (plugin.go 187-232).
THEOREM TypeCorrect == Spec => []TypeOK
<1>1. TypeOK /\ Alive /\ [Next]_vars => (TypeOK /\ Alive)'
  BY TypeStep
<1> QED BY TypeInit, <1>1, PTL DEF Spec

-----------------------------------------------------------------------------
(* What a step may do to the cycles and to the decision lines.             *)

Quiet == UNCHANGED <<cycle, decisions, counter>>

Ends(i) == cycle' = [cycle EXCEPT ![i] = NoCycle] /\ UNCHANGED <<decisions, counter>>

Opens(i, p, C) ==
    /\ cycle' = [cycle EXCEPT ![i] = Snapshot(i, p, C)]
    /\ counter' = [counter EXCEPT ![i] = @ + 1]
    /\ UNCHANGED decisions

Hears(i, r) ==
    /\ Calling(i)
    /\ r \in Answer
    /\ r.strategy \in {r.scorer, NoName}
    /\ r.scorer \in serving
    /\ cycle' = [cycle EXCEPT ![i].answer = r]
    /\ UNCHANGED <<decisions, counter>>

Concludes(i, d) ==
    /\ Calling(i)
    /\ GoodLine(i, d)
    /\ cycle' = [cycle EXCEPT ![i].decision = d]
    /\ decisions' = decisions \cup {d}
    /\ UNCHANGED counter

LEMMA StepCases ==
    ASSUME TypeOK, Alive, [Next]_vars
    PROVE  \/ Quiet
           \/ \E i \in Scheduler :
                 \/ Ends(i)
                 \/ \E p \in Pod : \E C \in SUBSET Node : Opens(i, p, C)
                 \/ \E r : Hears(i, r)
                 \/ \E d : Concludes(i, d)
<1>1. CASE Edit \/ Replicas \/ UNCHANGED vars
  BY <1>1, ClusterApart DEF Quiet, process, work, lines
<1>2. ASSUME NEW i \in Scheduler, Start(i) \/ Agree(i) \/ RefuseToStart(i)
      PROVE  Quiet
  BY <1>2 DEF Quiet, Start, Agree, Agreed, RefuseToStart, work, lines
<1>3. ASSUME NEW i \in Scheduler, NEW p \in Pod, AssumeOnly(i, p) \/ FinishBinding(i, p)
      PROVE  Quiet
  BY <1>3 DEF Quiet, AssumeOnly, FinishBinding, Bind, BindConflict, BindFails, process, lines
<1>4. ASSUME NEW i \in Scheduler, Crash(i) \/ SelectHost(i)
      PROVE  Ends(i)
  BY <1>4 DEF Ends, Crash, SelectHost, process, lines
<1>5. ASSUME NEW i \in Scheduler, NEW p \in Pod, PreScore(i, p)
      PROVE  \E C \in SUBSET Node : Opens(i, p, C)
  <2>1. PICK C \in SUBSET Node : /\ counter' = [counter EXCEPT ![i] = @ + 1]
                                 /\ cycle' = [cycle EXCEPT ![i] = Snapshot(i, p, C)]
    BY <1>5 DEF PreScore, Admissible
  <2> QED BY <1>5, <2>1 DEF PreScore, Opens, lines
<1>6. ASSUME NEW i \in Scheduler, DeciderAnswers(i)
      PROVE  \E r : Hears(i, r)
  <2>0. PICK scorer \in serving : \E s \in ScoreMap, n \in Node \cup {Stranger, NoNode}, name \in {scorer, NoName} :
          cycle' = [cycle EXCEPT ![i].answer =
                      [scores |-> s, node |-> n, strategy |-> name, scorer |-> scorer]]
    BY <1>6 DEF DeciderAnswers
  <2>1. PICK s \in ScoreMap, n \in Node \cup {Stranger, NoNode}, name \in {scorer, NoName} :
          cycle' = [cycle EXCEPT ![i].answer =
                      [scores |-> s, node |-> n, strategy |-> name, scorer |-> scorer]]
    BY <2>0
  <2> DEFINE r == [scores |-> s, node |-> n, strategy |-> name, scorer |-> scorer]
  <2>2. r \in Answer /\ r.strategy \in {r.scorer, NoName} /\ r.scorer \in serving
    BY DEF TypeOK, Answer
  <2>3. Calling(i) /\ UNCHANGED <<decisions, counter>>
    BY <1>6 DEF DeciderAnswers, process, lines
  <2>4. cycle' = [cycle EXCEPT ![i].answer = r]
    BY <2>1
  <2> HIDE DEF r
  <2> QED BY <2>2, <2>3, <2>4 DEF Hears
<1>7. ASSUME NEW i \in Scheduler, Scoring(i)
      PROVE  \E d : Concludes(i, d)
  BY <1>7, ScoringConcludes DEF Conclude, Concludes, process
<1> QED BY <1>1, <1>2, <1>3, <1>4, <1>5, <1>6, <1>7 DEF Next, Lifecycle, TakePod

\* Every decision line is the plugin's arithmetic on the scores it shows.
Sound == \A d \in decisions : SoundDecision(d)

LEMMA SoundStep ==
    ASSUME TypeOK, Alive, Sound, [Next]_vars
    PROVE  Sound'
<1>1. CASE UNCHANGED decisions
  BY <1>1 DEF Sound, SoundDecision
<1>2. ASSUME NEW i \in Scheduler, NEW d, Concludes(i, d)
      PROVE  Sound'
  BY <1>2 DEF Sound, SoundDecision, GoodLine, Concludes
<1> QED BY <1>1, <1>2, StepCases DEF Quiet, Ends, Opens, Hears

\* A fallback leaves kube-scheduler one node, with the most CPU free in the snapshot (fallback.go 29-57),
\* for every number of nodes, capacities and requests.
THEOREM FallbackDecides == Spec => []FallbackNeverTies
<1>1. Init => TypeOK /\ Alive /\ Sound
  BY TypeInit DEF Init, Sound
<1>2. TypeOK /\ Alive /\ Sound /\ [Next]_vars => (TypeOK /\ Alive /\ Sound)'
  BY TypeStep, SoundStep
<1>3. Sound => FallbackNeverTies
  BY DEF Sound, SoundDecision, FallbackNeverTies
<1> QED BY <1>1, <1>2, <1>3, PTL DEF Spec

-----------------------------------------------------------------------------
(* Labels.                                                                 *)

\* An answer names the policy that computed it, or none.
Answered ==
    \A i \in Scheduler : cycle[i] # NoCycle /\ cycle[i].answer # NoAnswer =>
        cycle[i].answer.strategy \in {cycle[i].answer.scorer, NoName}

LEMMA AnsweredStep ==
    ASSUME TypeOK, Alive, Answered, [Next]_vars
    PROVE  Answered'
<1>1. ASSUME Quiet PROVE Answered'
  BY <1>1 DEF Quiet, Answered
<1>2. ASSUME NEW i \in Scheduler, Ends(i) PROVE Answered'
  BY <1>2 DEF Ends, Answered, TypeOK
<1>3. ASSUME NEW i \in Scheduler, NEW p \in Pod, NEW C \in SUBSET Node, Opens(i, p, C)
      PROVE  Answered'
  <2>1. Snapshot(i, p, C).answer = NoAnswer
    BY DEF Snapshot
  <2> QED BY <1>3, <2>1 DEF Opens, Answered, TypeOK
<1>4. ASSUME NEW i \in Scheduler, NEW r, Hears(i, r) PROVE Answered'
  BY <1>4 DEF Hears, Calling, Answered, TypeOK, Cycle
<1>5. ASSUME NEW i \in Scheduler, NEW d, Concludes(i, d) PROVE Answered'
  BY <1>5 DEF Concludes, Calling, Answered, TypeOK, Cycle
<1> QED BY <1>1, <1>2, <1>3, <1>4, <1>5, StepCases

LEMMA HonestStep ==
    ASSUME TypeOK, Alive, Answered, HonestLabel, [Next]_vars
    PROVE  HonestLabel'
<1>1. CASE UNCHANGED decisions
  BY <1>1 DEF HonestLabel
<1>2. ASSUME NEW i \in Scheduler, NEW d, Concludes(i, d)
      PROVE  HonestLabel'
  <2>1. d.reason = NoReason => d.scorer = d.strategy
    <3> SUFFICES ASSUME d.reason = NoReason PROVE d.scorer = d.strategy
      OBVIOUS
    <3>1. /\ cycle[i].answer \in Answer
          /\ cycle[i].answer.strategy = config[i]
          /\ d.scorer = cycle[i].answer.scorer
          /\ d.strategy = config[i]
          /\ d \in Decision
      BY <1>2 DEF GoodLine, Concludes
    <3>2. cycle[i].answer # NoAnswer
      BY <3>1, AbsenceAssumption
    <3>3. config[i] # NoName
      BY <3>1, SchedulingAssumption DEF Decision
    <3> QED BY <1>2, <3>1, <3>2, <3>3 DEF Answered, Calling, Concludes
  <2> QED BY <1>2, <2>1 DEF HonestLabel, Concludes
<1> QED BY <1>1, <1>2, StepCases DEF Quiet, Ends, Opens, Hears

\* A decision that is not a fallback was scored by the strategy it is labelled with (plugin.go 85-98,
\* 200-206), for every schedule of redeployments, restarts and late answers.
THEOREM LabelsAreHonest == Spec => []HonestLabel
<1> DEFINE IInv == TypeOK /\ Alive /\ Answered /\ HonestLabel
<1>1. Init => IInv
  BY TypeInit DEF Init, Answered, HonestLabel
<1>2. IInv /\ [Next]_vars => IInv'
  BY TypeStep, AnsweredStep, HonestStep
<1> QED BY <1>1, <1>2, PTL DEF Spec

-----------------------------------------------------------------------------
(* Decision ids.                                                           *)

\* Every id in use is at most the counter of the process that gave it out, and the one
\* a call is waiting under is on no line yet.
Numbered ==
    /\ \A d \in decisions : d.id[2] <= counter[d.id[1]]
    /\ \A i \in Scheduler : cycle[i] # NoCycle =>
          /\ cycle[i].id = <<i, counter[i]>>
          /\ cycle[i].decision = NoDecision => \A d \in decisions : d.id # cycle[i].id

LEMMA NumberedStep ==
    ASSUME TypeOK, Alive, Numbered, [Next]_vars
    PROVE  Numbered'
<1>1. ASSUME Quiet PROVE Numbered'
  BY <1>1 DEF Quiet, Numbered
<1>2. ASSUME NEW i \in Scheduler, Ends(i) PROVE Numbered'
  BY <1>2 DEF Ends, Numbered, TypeOK
<1>3. ASSUME NEW i \in Scheduler, NEW p \in Pod, NEW C \in SUBSET Node, Opens(i, p, C)
      PROVE  Numbered'
  <2>1. /\ counter \in [Scheduler -> Nat]
        /\ counter'[i] = counter[i] + 1
        /\ \A j \in Scheduler : j # i => counter'[j] = counter[j]
        /\ decisions' = decisions
    BY <1>3 DEF Opens, TypeOK
  <2>2. /\ cycle'[i] = Snapshot(i, p, C)
        /\ \A j \in Scheduler : j # i => cycle'[j] = cycle[j]
    BY <1>3 DEF Opens, TypeOK
  <2>3. Snapshot(i, p, C).id = <<i, counter'[i]>>
    BY <2>1 DEF Snapshot, NewDecisionID
  <2>4. \A d \in decisions : d.id[1] \in Scheduler /\ d.id[2] \in Nat
    BY DEF TypeOK, Decision, Id
  <2>5. \A d \in decisions : d.id[2] <= counter'[d.id[1]]
    BY <2>1, <2>4 DEF Numbered
  <2>6. \A d \in decisions : d.id # <<i, counter'[i]>>
    <3> SUFFICES ASSUME NEW d \in decisions, d.id[1] = i, d.id[2] = counter'[i] PROVE FALSE
      OBVIOUS
    <3>1. d.id[2] <= counter[i] /\ d.id[2] = counter[i] + 1
      BY <2>1 DEF Numbered
    <3> QED BY <2>1, <3>1
  <2>7. \A j \in Scheduler \ {i} : cycle'[j] # NoCycle =>
          /\ cycle'[j].id = <<j, counter'[j]>>
          /\ cycle'[j].decision = NoDecision => \A d \in decisions' : d.id # cycle'[j].id
    BY <2>1, <2>2 DEF Numbered
  <2> QED BY <2>1, <2>2, <2>3, <2>5, <2>6, <2>7 DEF Numbered
<1>4. ASSUME NEW i \in Scheduler, NEW r, Hears(i, r) PROVE Numbered'
  BY <1>4 DEF Hears, Calling, Numbered, TypeOK, Cycle
<1>5. ASSUME NEW i \in Scheduler, NEW d, Concludes(i, d) PROVE Numbered'
  <2>1. cycle[i] \in Cycle /\ cycle[i] # NoCycle
    BY <1>5 DEF Concludes, Calling, TypeOK
  <2>2. /\ cycle'[i].id = cycle[i].id
        /\ cycle'[i].decision = d
        /\ \A j \in Scheduler : j # i => cycle'[j] = cycle[j]
        /\ decisions' = decisions \cup {d}
        /\ counter' = counter
        /\ d.id = <<i, counter[i]>>
        /\ d # NoDecision
    BY <1>5, <2>1, AbsenceAssumption DEF Concludes, GoodLine, Numbered, TypeOK, Cycle
  <2>3. \A e \in decisions' : e.id[2] <= counter'[e.id[1]]
    BY <2>2 DEF Numbered, TypeOK
  <2>4. \A j \in Scheduler : cycle'[j] # NoCycle => cycle'[j].id = <<j, counter'[j]>>
    BY <2>1, <2>2 DEF Numbered
  <2>5. ASSUME NEW j \in Scheduler, cycle'[j] # NoCycle, cycle'[j].decision = NoDecision,
               NEW e \in decisions'
        PROVE  e.id # cycle'[j].id
    <3>1. j # i /\ cycle'[j] = cycle[j] /\ cycle[j].id = <<j, counter[j]>>
      BY <2>2, <2>5 DEF Numbered
    <3> QED BY <2>2, <2>5, <3>1 DEF Numbered
  <2> QED BY <2>3, <2>4, <2>5 DEF Numbered
<1> QED BY <1>1, <1>2, <1>3, <1>4, <1>5, StepCases

LEMMA UniqueStep ==
    ASSUME TypeOK, Alive, Numbered, UniqueDecisionIds, [Next]_vars
    PROVE  UniqueDecisionIds'
<1>1. CASE UNCHANGED decisions
  BY <1>1 DEF UniqueDecisionIds
<1>2. ASSUME NEW i \in Scheduler, NEW d, Concludes(i, d) PROVE UniqueDecisionIds'
  <2>1. decisions' = decisions \cup {d} /\ \A e \in decisions : e.id # d.id
    BY <1>2 DEF Concludes, GoodLine, Calling, Numbered
  <2> QED BY <2>1 DEF UniqueDecisionIds
<1> QED BY <1>1, <1>2, StepCases DEF Quiet, Ends, Opens, Hears

\* Two decision lines never share an id (decision.go 76-82), for any number of processes of one run,
\* one after the other or at once, and any number of attempts.
THEOREM IdsAreUnique == Spec => []UniqueDecisionIds
<1> DEFINE IInv == TypeOK /\ Alive /\ Numbered /\ UniqueDecisionIds
<1>1. Init => IInv
  BY TypeInit DEF Init, Numbered, UniqueDecisionIds
<1>2. IInv /\ [Next]_vars => IInv'
  BY TypeStep, NumberedStep, UniqueStep
<1> QED BY <1>1, <1>2, PTL DEF Spec

-----------------------------------------------------------------------------
(* Bindings.                                                               *)

\* What a cycle decided, and what an attempt is binding on, are on the decision lines.
CycleLogged ==
    \A i \in Scheduler : cycle[i] # NoCycle /\ cycle[i].decision # NoDecision =>
        /\ cycle[i].decision \in decisions
        /\ cycle[i].decision.pod = cycle[i].pod
        /\ DOMAIN cycle[i].decision.scores = cycle[i].candidates

AttemptLogged ==
    \A i \in Scheduler, p \in Pod :
        attempt[i][p] # NoAttempt /\ attempt[i][p].decision # NoDecision =>
            /\ attempt[i][p].decision \in decisions
            /\ attempt[i][p].decision.pod = p
            /\ attempt[i][p].node \in attempt[i][p].decision.winners

Logged == CycleLogged /\ AttemptLogged

LEMMA DecisionsGrow ==
    ASSUME TypeOK, Alive, [Next]_vars
    PROVE  decisions \subseteq decisions'
BY StepCases DEF Quiet, Ends, Opens, Hears, Concludes

LEMMA CycleLoggedStep ==
    ASSUME TypeOK, Alive, CycleLogged, [Next]_vars
    PROVE  CycleLogged'
<1>1. ASSUME Quiet PROVE CycleLogged'
  BY <1>1 DEF Quiet, CycleLogged
<1>2. ASSUME NEW i \in Scheduler, Ends(i) PROVE CycleLogged'
  BY <1>2 DEF Ends, CycleLogged, TypeOK
<1>3. ASSUME NEW i \in Scheduler, NEW p \in Pod, NEW C \in SUBSET Node, Opens(i, p, C)
      PROVE  CycleLogged'
  <2>1. Snapshot(i, p, C).decision = NoDecision
    BY DEF Snapshot
  <2> QED BY <1>3, <2>1 DEF Opens, CycleLogged, TypeOK
<1>4. ASSUME NEW i \in Scheduler, NEW r, Hears(i, r) PROVE CycleLogged'
  BY <1>4 DEF Hears, Calling, CycleLogged, TypeOK, Cycle
<1>5. ASSUME NEW i \in Scheduler, NEW d, Concludes(i, d) PROVE CycleLogged'
  <2>1. cycle[i] \in Cycle /\ cycle[i] # NoCycle
    BY <1>5 DEF Concludes, Calling, TypeOK
  <2>2. /\ cycle'[i].decision = d /\ cycle'[i].pod = cycle[i].pod
        /\ cycle'[i].candidates = cycle[i].candidates
        /\ \A j \in Scheduler : j # i => cycle'[j] = cycle[j]
        /\ decisions' = decisions \cup {d}
        /\ d.pod = cycle[i].pod /\ DOMAIN d.scores = cycle[i].candidates
    BY <1>5, <2>1 DEF Concludes, GoodLine, TypeOK, Cycle
  <2> QED BY <2>2 DEF CycleLogged
<1> QED BY <1>1, <1>2, <1>3, <1>4, <1>5, StepCases

\* The nodes of the highest framework score are the decision's winners, and no others.
LEMMA SelectedIsWinner ==
    ASSUME NEW C, Candidates(C), NEW s \in [C -> Int], NEW n \in C,
           \A m \in C : FrameworkScores(C, s)[m] <= FrameworkScores(C, s)[n]
    PROVE  n \in Winners(C, s)
<1>1. PICK w \in Winners(C, s) : w \in C
  BY WinnersAreHighest
<1>2. FrameworkScores(C, s)[w] = 100
  BY <1>1 DEF FrameworkScores, MaxNodeScore
<1>3. n \notin Winners(C, s) => FrameworkScores(C, s)[n] = 0
  BY DEF FrameworkScores, MinNodeScore
<1> QED BY <1>1, <1>2, <1>3

LEMMA AttemptLoggedStep ==
    ASSUME TypeOK, Alive, Sound, CycleLogged, AttemptLogged, [Next]_vars
    PROVE  AttemptLogged'
<1> USE DecisionsGrow
<1>1. CASE UNCHANGED attempt
  BY <1>1 DEF AttemptLogged
<1>2. ASSUME NEW i \in Scheduler, SelectHost(i) PROVE AttemptLogged'
  <2> DEFINE c == cycle[i]
             d == c.decision
  <2>1. PICK n \in c.candidates :
          /\ \A m \in c.candidates : FrameworkScores(c.candidates, d.scores)[m]
                                      <= FrameworkScores(c.candidates, d.scores)[n]
          /\ attempt' = [attempt EXCEPT ![i][c.pod] = [node |-> n, decision |-> d]]
    BY <1>2 DEF SelectHost
  <2>2. c \in Cycle /\ c # NoCycle /\ d # NoDecision /\ c.pod \in Pod
    BY <1>2 DEF SelectHost, TypeOK, Cycle
  <2>3. d \in decisions /\ d.pod = c.pod /\ DOMAIN d.scores = c.candidates
    BY <2>2 DEF CycleLogged
  <2>4. d \in Decision /\ SoundDecision(d)
    BY <2>3 DEF Sound, TypeOK
  <2>5. Candidates(c.candidates) /\ d.scores \in [c.candidates -> Int]
    <3>1. PICK C \in SUBSET Node : d.scores \in [C -> -MaxRawScore .. MaxRawScore]
      BY <2>4 DEF Decision, EffectiveScores
    <3>2. C = c.candidates
      BY <2>3, <3>1
    <3>3. -MaxRawScore .. MaxRawScore \subseteq Int
      BY MaxRawScoreAssumption
    <3> HIDE DEF c, d
    <3>4. d.scores \in [c.candidates -> Int]
      BY <3>1, <3>2, <3>3
    <3> QED BY <2>2, <3>4 DEF Candidates, Cycle
  <2>6. n \in Winners(c.candidates, d.scores)
    <3> HIDE DEF c, d
    <3> QED BY <2>1, <2>5, SelectedIsWinner
  <2>7. n \in d.winners
    <3>1. d.winners = {k \in c.candidates : \A m \in c.candidates : d.scores[m] <= d.scores[k]}
      BY <2>3, <2>4 DEF SoundDecision
    <3> HIDE DEF c, d
    <3> QED BY <2>5, <2>6, <3>1, WinnersAreHighest
  <2>8. attempt'[i][c.pod] = [node |-> n, decision |-> d]
    BY <2>1, <2>2 DEF TypeOK
  <2>9. \A j \in Scheduler, p \in Pod : <<j, p>> # <<i, c.pod>> => attempt'[j][p] = attempt[j][p]
    BY <2>1 DEF TypeOK
  <2> HIDE DEF c, d
  <2>10. ASSUME NEW j \in Scheduler, NEW p \in Pod,
                attempt'[j][p] # NoAttempt, attempt'[j][p].decision # NoDecision
         PROVE  /\ attempt'[j][p].decision \in decisions'
                /\ attempt'[j][p].decision.pod = p
                /\ attempt'[j][p].node \in attempt'[j][p].decision.winners
    <3>1. CASE j = i /\ p = c.pod
      BY <2>3, <2>7, <2>8, <3>1
    <3>2. CASE ~(j = i /\ p = c.pod)
      BY <2>9, <2>10, <3>2 DEF AttemptLogged
    <3> QED BY <3>1, <3>2
  <2> QED BY <2>10 DEF AttemptLogged
<1>3. ASSUME NEW i \in Scheduler, NEW p \in Pod, AssumeOnly(i, p) PROVE AttemptLogged'
  <2>1. PICK n : attempt' = [attempt EXCEPT ![i][p] = [node |-> n, decision |-> NoDecision]]
    BY <1>3 DEF AssumeOnly
  <2>2. attempt'[i][p].decision = NoDecision
    BY <2>1 DEF TypeOK
  <2>3. \A j \in Scheduler, q \in Pod : <<j, q>> # <<i, p>> => attempt'[j][q] = attempt[j][q]
    BY <2>1 DEF TypeOK
  <2> QED BY <2>2, <2>3 DEF AttemptLogged
<1>4. ASSUME NEW i \in Scheduler, NEW p \in Pod, FinishBinding(i, p) PROVE AttemptLogged'
  <2>1. attempt' = [attempt EXCEPT ![i][p] = NoAttempt]
    BY <1>4 DEF FinishBinding, Bind, BindConflict, BindFails, Forget
  <2> QED BY <2>1 DEF AttemptLogged, TypeOK
<1>5. ASSUME NEW i \in Scheduler, Crash(i) PROVE AttemptLogged'
  BY <1>5 DEF Crash, AttemptLogged, TypeOK
<1>6. ASSUME NEW i \in Scheduler, Start(i) \/ Agree(i) \/ RefuseToStart(i) \/ DeciderAnswers(i)
      PROVE  UNCHANGED attempt
  BY <1>6 DEF Start, Agree, Agreed, RefuseToStart, DeciderAnswers, work
<1>7. ASSUME NEW i \in Scheduler, Scoring(i) PROVE UNCHANGED attempt
  BY <1>7, ScoringConcludes DEF Conclude
<1>8. ASSUME NEW i \in Scheduler, NEW p \in Pod, PreScore(i, p) PROVE UNCHANGED attempt
  BY <1>8 DEF PreScore
<1>9. CASE Edit \/ Replicas \/ UNCHANGED vars
  BY <1>1, <1>9, ClusterApart DEF work
<1> QED BY <1>1, <1>2, <1>3, <1>4, <1>5, <1>6, <1>7, <1>8, <1>9 DEF Next, Lifecycle, TakePod

\* Only a bind call that succeeds writes a binding line.
LEMMA BindingsChange ==
    ASSUME TypeOK, Alive, [Next]_vars
    PROVE  \/ UNCHANGED bindings
           \/ \E i \in Scheduler, p \in Pod : Bind(i, p)
<1>1. CASE Edit \/ Replicas \/ UNCHANGED vars
  BY <1>1, ClusterApart DEF lines
<1>2. ASSUME NEW i \in Scheduler,
             Lifecycle(i) \/ TakePod(i) \/ DeciderAnswers(i) \/ SelectHost(i)
      PROVE  UNCHANGED bindings
  BY <1>2 DEF Lifecycle, Start, Agree, Agreed, RefuseToStart, Crash, TakePod, PreScore, AssumeOnly,
              DeciderAnswers, SelectHost, lines
<1>3. ASSUME NEW i \in Scheduler, Scoring(i) PROVE UNCHANGED bindings
  BY <1>3, ScoringConcludes DEF Conclude
<1>4. ASSUME NEW i \in Scheduler, NEW p \in Pod, FinishBinding(i, p), ~Bind(i, p)
      PROVE  UNCHANGED bindings
  BY <1>4 DEF FinishBinding, BindConflict, BindFails, lines
<1> QED BY <1>1, <1>2, <1>3, <1>4 DEF Next

LEMMA ExplainedStep ==
    ASSUME TypeOK, Alive, Sound, AttemptLogged, BindingsExplained, [Next]_vars
    PROVE  BindingsExplained'
<1>1. CASE UNCHANGED bindings
  BY <1>1, DecisionsGrow DEF BindingsExplained
<1>2. ASSUME NEW i \in Scheduler, NEW p \in Pod, Bind(i, p) PROVE BindingsExplained'
  <2> DEFINE a == attempt[i][p]
             d == a.decision
             b == BindingLine(i, p)
  <2>1. bindings' = bindings \cup {b} /\ decisions' = decisions /\ a # NoAttempt
    BY <1>2 DEF Bind
  <2>2. b.id # NoId => d # NoDecision
    BY DEF BindingLine
  <2>3. d # NoDecision => /\ d \in decisions /\ d.pod = p /\ a.node \in d.winners
                          /\ SoundDecision(d)
    BY <2>1 DEF AttemptLogged, Sound
  <2>4. d # NoDecision => b.id = d.id /\ b.pod = p /\ b.node = a.node /\ b.matched = (a.node \in d.winners)
    BY DEF BindingLine
  <2>5. b.id # NoId => /\ d \in decisions /\ d.id = b.id /\ d.pod = b.pod
                      /\ b.node \in DOMAIN d.scores
                      /\ \A m \in DOMAIN d.scores : d.scores[m] <= d.scores[b.node]
                      /\ d.intended \in d.winners
                      /\ b.matched
    <3> HIDE DEF a, d, b
    <3> QED BY <2>2, <2>3, <2>4 DEF SoundDecision
  <2> HIDE DEF a, d, b
  <2> QED BY <2>1, <2>5 DEF BindingsExplained
<1> QED BY <1>1, <1>2, BindingsChange

\* A binding line joins a decision about the same pod, whose policy ranked no candidate above
\* the node the pod was bound on (decision.go 93-111, plugin.go 253-267), for every score and number of nodes.
THEOREM BindingsAreExplained == Spec => []BindingsExplained
<1> DEFINE IInv == TypeOK /\ Alive /\ Sound /\ CycleLogged /\ AttemptLogged /\ BindingsExplained
<1>1. Init => IInv
  BY TypeInit DEF Init, Sound, CycleLogged, AttemptLogged, BindingsExplained
<1>2. IInv /\ [Next]_vars => IInv'
  BY TypeStep, SoundStep, CycleLoggedStep, AttemptLoggedStep, ExplainedStep
<1> QED BY <1>1, <1>2, PTL DEF Spec

LEMMA BoundStays ==
    ASSUME TypeOK, Alive, [Next]_vars, NEW p \in Pod, bound[p] # NoNode
    PROVE  bound'[p] = bound[p]
<1>1. ASSUME NEW i \in Scheduler, Crash(i) PROVE bound'[p] = bound[p]
  BY <1>1 DEF Crash
<1>2. ASSUME NEW i \in Scheduler, NEW q \in Pod, FinishBinding(i, q) PROVE bound'[p] = bound[p]
  BY <1>2 DEF FinishBinding, Bind, BindConflict, BindFails, TypeOK
<1>3. ASSUME NEW i \in Scheduler, Start(i) \/ Agree(i) \/ RefuseToStart(i) \/ TakePod(i)
                                  \/ DeciderAnswers(i) \/ SelectHost(i)
      PROVE  bound' = bound
  BY <1>3 DEF Start, Agree, Agreed, RefuseToStart, TakePod, PreScore, AssumeOnly, DeciderAnswers, SelectHost, work
<1>4. ASSUME NEW i \in Scheduler, Scoring(i) PROVE bound' = bound
  BY <1>4, ScoringConcludes DEF Conclude
<1>5. CASE Edit \/ Replicas \/ UNCHANGED vars
  BY <1>5, ClusterApart DEF work
<1> QED BY <1>1, <1>2, <1>3, <1>4, <1>5 DEF Next, Lifecycle

LEMMA TrueStep ==
    ASSUME TypeOK, Alive, BindingsTrue, [Next]_vars
    PROVE  BindingsTrue'
<1>1. \A b \in bindings : b.pod \in Pod /\ bound[b.pod] # NoNode
  BY NodeAssumption DEF BindingsTrue, TypeOK, Binding
<1>2. \A b \in bindings : bound'[b.pod] = b.node
  BY <1>1, BoundStays DEF BindingsTrue
<1>3. CASE UNCHANGED bindings
  BY <1>2, <1>3 DEF BindingsTrue
<1>4. ASSUME NEW i \in Scheduler, NEW p \in Pod, Bind(i, p) PROVE BindingsTrue'
  <2> DEFINE b == BindingLine(i, p)
  <2>1. bindings' = bindings \cup {b} /\ b.pod = p /\ bound'[p] = b.node /\ bound[p] = NoNode
    BY <1>4 DEF Bind, BindingLine, TypeOK
  <2>2. \A a \in bindings : a.pod # p
    BY <1>1, <2>1
  <2> HIDE DEF b
  <2> QED BY <1>2, <2>1, <2>2 DEF BindingsTrue
<1> QED BY <1>3, <1>4, BindingsChange

\* The binding lines can be trusted (decision.go 164): at most one per pod, naming the node it is on,
\* for any number of processes, conflicts, lost replies and crashes.
THEOREM BindingsAreTrue == Spec => []BindingsTrue
<1>1. Init => TypeOK /\ Alive /\ BindingsTrue
  BY TypeInit DEF Init, BindingsTrue
<1>2. TypeOK /\ Alive /\ BindingsTrue /\ [Next]_vars => (TypeOK /\ Alive /\ BindingsTrue)'
  BY TypeStep, TrueStep
<1> QED BY <1>1, <1>2, PTL DEF Spec

-----------------------------------------------------------------------------
(* Mismatches.                                                             *)

\* As long as no Deployment was edited since i agreed, the decider's replicas are among those there
\* were then, and so is the one that answered i; before it has agreed, i has numbered nothing.
Agreement ==
    \A i \in Scheduler :
        /\ agreedAt[i] <= edits
        /\ status[i] \in {"unborn", "starting"} => counter[i] = 0
        /\ status[i] = "ready" => config[i] \in agreedAmong[i]
        /\ status[i] = "ready" /\ agreedAt[i] = edits => replicas \subseteq agreedAmong[i]
        /\ cycle[i] # NoCycle /\ cycle[i].answer # NoAnswer /\ agreedAt[i] = edits =>
              cycle[i].answer.scorer \in agreedAmong[i]

\* Between edits, replicas only go; only the life of a process concerns its agreement.
LEMMA AgreementCases ==
    ASSUME TypeOK, Alive, [Next]_vars
    PROVE  \/ replicas' \subseteq replicas /\ UNCHANGED <<edits, status, config, agreedAt, agreedAmong>>
           \/ Edit
           \/ \E i \in Scheduler : Lifecycle(i)
<1> DEFINE Same == UNCHANGED <<replicas, edits, status, config, agreedAt, agreedAmong>>
<1>1. ASSUME NEW i \in Scheduler, TakePod(i) \/ DeciderAnswers(i) \/ SelectHost(i)
      PROVE  Same
  BY <1>1 DEF TakePod, PreScore, AssumeOnly, DeciderAnswers, SelectHost, cluster, process
<1>2. ASSUME NEW i \in Scheduler, Scoring(i)
      PROVE  Same
  BY <1>2, ScoringConcludes DEF Conclude, cluster, process
<1>3. ASSUME NEW i \in Scheduler, NEW p \in Pod, FinishBinding(i, p)
      PROVE  Same
  BY <1>3 DEF FinishBinding, Bind, BindConflict, BindFails, cluster, process
<1>4. UNCHANGED vars => Same
  BY DEF vars, cluster, process
<1>5. Replicas => replicas' \subseteq replicas /\ UNCHANGED <<edits, status, config, agreedAt, agreedAmong>>
  BY ClusterApart DEF Replicas, ReplicaReady, ReplicaStops, ReplicaRetires, process
<1> QED BY <1>1, <1>2, <1>3, <1>4, <1>5 DEF Next

\* Only a process that has agreed numbers decisions.
LEMMA CounterMoves ==
    ASSUME TypeOK, Alive, [Next]_vars, NEW i \in Scheduler, counter'[i] # counter[i]
    PROVE  status[i] = "ready"
<1>1. ASSUME NEW j \in Scheduler, NEW p \in Pod, PreScore(j, p) PROVE status[i] = "ready"
  BY <1>1 DEF PreScore, Idle, TypeOK
<1>2. Edit \/ Replicas \/ UNCHANGED vars => UNCHANGED counter
  BY ClusterApart DEF process
<1>3. ASSUME NEW j \in Scheduler, Lifecycle(j) \/ DeciderAnswers(j) \/ SelectHost(j)
      PROVE  UNCHANGED counter
  BY <1>3 DEF Lifecycle, Start, Agree, Agreed, RefuseToStart, Crash, DeciderAnswers, SelectHost, process
<1>4. ASSUME NEW j \in Scheduler, Scoring(j) PROVE UNCHANGED counter
  BY <1>4, ScoringConcludes DEF Conclude, process
<1>5. ASSUME NEW j \in Scheduler, NEW p \in Pod, AssumeOnly(j, p) \/ FinishBinding(j, p)
      PROVE  UNCHANGED counter
  BY <1>5 DEF AssumeOnly, FinishBinding, Bind, BindConflict, BindFails, process
<1> QED BY <1>1, <1>2, <1>3, <1>4, <1>5 DEF Next, TakePod

LEMMA EditKeepsAll ==
    ASSUME TypeOK, Edit
    PROVE  edits' = edits + 1 /\ UNCHANGED <<process, cycle, decisions>>
BY ClusterApart DEF Edit, EditScheduler, EditDecider, work, lines

LEMMA LifecycleAgreed ==
    ASSUME TypeOK, Alive, Agreement, NEW i \in Scheduler, Lifecycle(i)
    PROVE  Agreement'
<1>1. CASE Start(i)
  BY <1>1 DEF Start, Agreement, Alive, TypeOK, cluster, work
<1>2. CASE Agree(i)
  BY <1>2 DEF Agree, Agreed, Agreement, Alive, TypeOK, cluster, work
<1>3. CASE RefuseToStart(i)
  BY <1>3 DEF RefuseToStart, Agreement, Alive, TypeOK, cluster, work
<1>4. CASE Crash(i)
  BY <1>4 DEF Crash, Agreement, Alive, TypeOK, cluster
<1> QED BY <1>1, <1>2, <1>3, <1>4 DEF Lifecycle

LEMMA AgreedStep ==
    ASSUME TypeOK, Alive, Agreement, [Next]_vars
    PROVE  Agreement'
<1>1. CASE Edit
  <2>1. edits' = edits + 1 /\ UNCHANGED <<status, config, agreedAt, agreedAmong, counter, cycle>>
    BY <1>1, EditKeepsAll DEF process
  <2>2. \A i \in Scheduler : agreedAt[i] \in Nat /\ edits \in Nat
    BY DEF TypeOK
  <2>3. \A i \in Scheduler : agreedAt[i] < edits + 1
    BY <2>2 DEF Agreement
  <2> QED BY <2>1, <2>2, <2>3 DEF Agreement
<1>2. CASE \E i \in Scheduler : Lifecycle(i)
  BY <1>2, LifecycleAgreed
<1>3. CASE replicas' \subseteq replicas /\ UNCHANGED <<edits, status, config, agreedAt, agreedAmong>>
  <2>1. ASSUME Quiet PROVE Agreement'
    BY <1>3, <2>1 DEF Quiet, Agreement
  <2>2. ASSUME NEW i \in Scheduler, Ends(i) PROVE Agreement'
    BY <1>3, <2>2 DEF Ends, Agreement, TypeOK
  <2>3. ASSUME NEW i \in Scheduler, NEW p \in Pod, NEW C \in SUBSET Node, Opens(i, p, C)
        PROVE  Agreement'
    <3>1. Snapshot(i, p, C).answer = NoAnswer
      BY DEF Snapshot
    <3>2. counter'[i] # counter[i]
      BY <2>3 DEF Opens, TypeOK
    <3>3. status[i] = "ready"
      BY <3>2, CounterMoves
    <3>4. \A j \in Scheduler : status[j] # "ready" => counter'[j] = counter[j]
      BY CounterMoves
    <3> QED BY <1>3, <2>3, <3>1, <3>4 DEF Opens, Agreement, TypeOK
  <2>4. ASSUME NEW i \in Scheduler, NEW r, Hears(i, r) PROVE Agreement'
    <3>1. status[i] = "ready" /\ cycle[i] \in Cycle /\ r.scorer \in replicas
      BY <2>4 DEF Hears, Calling, Alive, TypeOK
    <3> QED BY <1>3, <2>4, <3>1 DEF Hears, Calling, Agreement, TypeOK, Cycle
  <2>5. ASSUME NEW i \in Scheduler, NEW d, Concludes(i, d) PROVE Agreement'
    BY <1>3, <2>5 DEF Concludes, Calling, Agreement, TypeOK, Cycle
  <2> QED BY <2>1, <2>2, <2>3, <2>4, <2>5, StepCases
<1> QED BY <1>1, <1>2, <1>3, AgreementCases

LEMMA MismatchStep ==
    ASSUME TypeOK, Alive, Answered, Numbered, Agreement, MismatchMeansRollout, [Next]_vars
    PROVE  MismatchMeansRollout'
<1>1. \A d \in decisions : d.id[1] \in Scheduler /\ d.id[2] \in Nat \ {0}
  BY DEF TypeOK, Decision, Id
<1>2. \A i \in Scheduler : agreedAt[i] \in Nat /\ edits \in Nat
  BY DEF TypeOK
<1>3. ASSUME UNCHANGED decisions PROVE MismatchMeansRollout'
  <2>1. CASE UNCHANGED <<edits, status, config, agreedAt, agreedAmong>>
    BY <1>3, <2>1 DEF MismatchMeansRollout
  <2>2. CASE Edit
    <3>1. edits' = edits + 1 /\ UNCHANGED <<agreedAt, decisions>>
      BY <2>2, EditKeepsAll DEF process
    <3>2. \A i \in Scheduler : agreedAt[i] # edits + 1
      BY <1>2 DEF Agreement
    <3> QED BY <1>1, <3>1, <3>2 DEF MismatchMeansRollout
  <2>3. ASSUME NEW i \in Scheduler, Lifecycle(i) PROVE MismatchMeansRollout'
    <3>1. edits' = edits
      BY <2>3 DEF Lifecycle, Start, Agree, Agreed, RefuseToStart, Crash, cluster
    <3>2. \A j \in Scheduler : status[j] # "starting" =>
              agreedAt'[j] = agreedAt[j] /\ agreedAmong'[j] = agreedAmong[j]
      BY <2>3 DEF Lifecycle, Start, Agree, Agreed, RefuseToStart, Crash, TypeOK
    <3>3. \A d \in decisions : status[d.id[1]] # "starting"
      BY <1>1 DEF Numbered, Agreement
    <3> QED BY <1>1, <1>3, <3>1, <3>2, <3>3 DEF MismatchMeansRollout
  <2> QED BY <2>1, <2>2, <2>3, AgreementCases
<1>4. ASSUME NEW i \in Scheduler, NEW d, Concludes(i, d) PROVE MismatchMeansRollout'
  <2>1. d.reason = "strategy_mismatch" /\ d.reported # NoName /\ agreedAt[i] = edits =>
            {d.strategy, d.reported} \subseteq agreedAmong[i]
    <3> SUFFICES ASSUME d.reason = "strategy_mismatch", d.reported # NoName, agreedAt[i] = edits
                 PROVE  d.strategy \in agreedAmong[i] /\ d.reported \in agreedAmong[i]
      OBVIOUS
    <3>1. /\ cycle[i] # NoCycle /\ cycle[i].answer \in Answer
          /\ cycle[i].answer.strategy # NoName /\ d.reported = cycle[i].answer.strategy
          /\ d.strategy = config[i]
      BY <1>4 DEF GoodLine, Concludes, Calling
    <3>2. cycle[i].answer # NoAnswer /\ status[i] = "ready"
      BY <3>1, AbsenceAssumption DEF Alive
    <3>3. cycle[i].answer.scorer = cycle[i].answer.strategy
      BY <3>1, <3>2 DEF Answered
    <3> QED BY <3>1, <3>2, <3>3 DEF Agreement
  <2>2. d.id[1] = i /\ decisions' = decisions \cup {d}
    BY <1>4 DEF GoodLine, Concludes, Calling, Numbered
  <2>3. UNCHANGED <<edits, agreedAt, agreedAmong>>
    <3>1. ASSUME NEW j \in Scheduler, Lifecycle(j) PROVE UNCHANGED decisions
      BY <3>1 DEF Lifecycle, Start, Agree, Agreed, RefuseToStart, Crash, lines
    <3>2. \A e \in decisions : e.id # d.id
      BY <1>4 DEF GoodLine, Concludes, Calling, Numbered
    <3>3. decisions' # decisions
      BY <2>2, <3>2
    <3> QED BY <3>1, <3>3, AgreementCases, EditKeepsAll
  <2> QED BY <2>1, <2>2, <2>3 DEF MismatchMeansRollout
<1> QED BY <1>3, <1>4, StepCases DEF Quiet, Ends, Opens, Hears

\* plugin.go 89-98, 192-195: a named mismatch with no edit since the process agreed with the decider is between
\* two policies that were both among the decider's replicas when they agreed, for any number of
\* processes, restarts and rollouts, and replicas that come and go.
THEOREM MismatchesMeanRollouts == Spec => []MismatchMeansRollout
<1> DEFINE IInv == TypeOK /\ Alive /\ Answered /\ Numbered /\ Agreement /\ MismatchMeansRollout
<1>1. Init => IInv
  BY TypeInit DEF Init, Answered, Numbered, Agreement, MismatchMeansRollout
<1>2. IInv /\ [Next]_vars => IInv'
  BY TypeStep, AnsweredStep, NumberedStep, AgreedStep, MismatchStep
<1> QED BY <1>1, <1>2, PTL DEF Spec

-----------------------------------------------------------------------------
(* The promise of module Placement is kept.                                *)

\* A pod in its scheduling cycle is not being bound by the same process.
Apart == \A i \in Scheduler : cycle[i] # NoCycle => attempt[i][cycle[i].pod] = NoAttempt

Offers == [i \in Scheduler |-> [p \in Pod |-> Offer(i, p)]]

LEMMA ApartStep ==
    ASSUME TypeOK, Alive, Apart, [Next]_vars
    PROVE  Apart'
<1>1. ASSUME NEW i \in Scheduler, NEW p \in Pod, PreScore(i, p) PROVE Apart'
  <2>1. PICK C \in SUBSET Node : cycle' = [cycle EXCEPT ![i] = Snapshot(i, p, C)]
    BY <1>1 DEF PreScore, Admissible
  <2>2. cycle'[i].pod = p /\ \A j \in Scheduler : j # i => cycle'[j] = cycle[j]
    BY <2>1 DEF Snapshot, TypeOK
  <2> QED BY <1>1, <2>2 DEF PreScore, Idle, Apart
<1>2. ASSUME NEW i \in Scheduler, NEW p \in Pod, AssumeOnly(i, p) PROVE Apart'
  <2>1. UNCHANGED cycle /\ cycle[i] = NoCycle /\ \A j \in Scheduler : j # i => attempt'[j] = attempt[j]
    BY <1>2 DEF AssumeOnly, Idle, TypeOK
  <2> QED BY <2>1 DEF Apart
<1>3. ASSUME NEW i \in Scheduler, SelectHost(i) PROVE Apart'
  <2>1. cycle'[i] = NoCycle /\ \A j \in Scheduler : j # i => cycle'[j] = cycle[j] /\ attempt'[j] = attempt[j]
    BY <1>3 DEF SelectHost, TypeOK
  <2> QED BY <2>1 DEF Apart
<1>4. ASSUME NEW i \in Scheduler, NEW p \in Pod, FinishBinding(i, p) PROVE Apart'
  <2>1. UNCHANGED cycle /\ attempt' = [attempt EXCEPT ![i][p] = NoAttempt]
    BY <1>4 DEF FinishBinding, Bind, BindConflict, BindFails, Forget
  <2> QED BY <2>1 DEF Apart, TypeOK, Cycle
<1>5. ASSUME NEW i \in Scheduler, Crash(i) PROVE Apart'
  BY <1>5 DEF Crash, Apart, TypeOK
<1>6. ASSUME NEW i \in Scheduler, DeciderAnswers(i) \/ Scoring(i) PROVE Apart'
  <2>1. UNCHANGED attempt
    BY <1>6, ScoringConcludes DEF DeciderAnswers, Conclude
  <2>2. cycle[i] \in Cycle /\ cycle[i] # NoCycle
    BY <1>6, ScoringConcludes DEF DeciderAnswers, Calling, TypeOK
  <2>3. cycle'[i].pod = cycle[i].pod /\ \A j \in Scheduler : j # i => cycle'[j] = cycle[j]
    <3>1. CASE DeciderAnswers(i)
      BY <2>2, <3>1 DEF DeciderAnswers, TypeOK, Cycle
    <3>2. CASE Scoring(i)
      BY <2>2, <3>2, ScoringConcludes DEF Conclude, TypeOK, Cycle
    <3> QED BY <1>6, <3>1, <3>2
  <2> QED BY <2>1, <2>2, <2>3 DEF Apart
<1>7. ASSUME NEW i \in Scheduler, Start(i) \/ Agree(i) \/ RefuseToStart(i) PROVE UNCHANGED <<cycle, attempt>>
  BY <1>7 DEF Start, Agree, Agreed, RefuseToStart, work
<1>8. Edit \/ Replicas \/ UNCHANGED vars => UNCHANGED <<cycle, attempt>>
  BY ClusterApart DEF work
<1>9. ASSUME UNCHANGED <<cycle, attempt>> PROVE Apart'
  BY <1>9 DEF Apart
<1> QED BY <1>1, <1>2, <1>3, <1>4, <1>5, <1>6, <1>7, <1>8, <1>9 DEF Next, Lifecycle, TakePod

\* A pod being bound is on offer, on the node it is being bound to among others.
LEMMA AttemptIsOffer ==
    ASSUME TypeOK, AttemptLogged, NEW i \in Scheduler, NEW p \in Pod, attempt[i][p] # NoAttempt
    PROVE  attempt[i][p].node \in Offer(i, p) /\ attempt[i][p].node \in Node
<1>1. attempt[i][p] \in Attempt
  BY DEF TypeOK
<1> QED BY <1>1 DEF AttemptLogged, Offer, Attempt

\* The three ways a step shows in Placement.
LEMMA Stutters ==
    ASSUME UNCHANGED bound, \A j \in Scheduler, q \in Pod : Offer(j, q)' = Offer(j, q)
    PROVE  UNCHANGED <<Offers, bound>>
BY DEF Offers

LEMMA Announces ==
    ASSUME NEW i \in Scheduler, NEW p \in Pod, NEW W \in (SUBSET Node) \ {{}},
           Offer(i, p) = {}, Offer(i, p)' = W,
           \A j \in Scheduler, q \in Pod : ~(j = i /\ q = p) => Offer(j, q)' = Offer(j, q),
           UNCHANGED bound
    PROVE  Promise!Next
<1>1. Offers' = [Offers EXCEPT ![i][p] = W]
  BY DEF Offers
<1>2. Promise!Announce(i, p)
  BY <1>1 DEF Promise!Announce, Offers
<1> QED BY <1>2 DEF Promise!Next

LEMMA Settles ==
    ASSUME NEW i \in Scheduler, NEW P \in (SUBSET Pod) \ {{}}, NEW Q \in SUBSET P,
           NEW place \in [Q -> Node],
           \A p \in P : Offer(i, p) # {},
           \A p \in Q : bound[p] = NoNode /\ place[p] \in Offer(i, p),
           \A p \in P : Offer(i, p)' = {},
           \A j \in Scheduler, q \in Pod : ~(j = i /\ q \in P) => Offer(j, q)' = Offer(j, q),
           bound' = [p \in Pod |-> IF p \in Q THEN place[p] ELSE bound[p]]
    PROVE  Promise!Next
<1>1. Offers' = [Offers EXCEPT ![i] = [p \in Pod |-> IF p \in P THEN {} ELSE Offers[i][p]]]
  BY DEF Offers
<1>2. \A p \in P : Offers[i][p] # {}
  BY DEF Offers
<1>3. \A p \in Q : place[p] \in Offers[i][p]
  BY DEF Offers
<1>4. Promise!Settle(i, P, Q)
  BY <1>1, <1>2, <1>3 DEF Promise!Settle, Offers
<1> QED BY <1>4 DEF Promise!Next

\* A cycle under way shows nothing new until its decision is written, then the winners.
LEMMA ScoringAnnounces ==
    ASSUME TypeOK, Alive, Sound, Apart, NEW i \in Scheduler, Scoring(i)
    PROVE  Promise!Next
<1>1. PICK d : GoodLine(i, d) /\ Conclude(i, d)
  BY ScoringConcludes
<1>2. cycle[i] \in Cycle /\ cycle[i] # NoCycle /\ cycle[i].decision = NoDecision
  BY ScoringConcludes DEF Calling, TypeOK
<1>. PICK p \in Pod : p = cycle[i].pod
  BY <1>2 DEF Cycle
<1>3. attempt[i][p] = NoAttempt /\ attempt' = attempt /\ bound' = bound
  BY <1>1, <1>2 DEF Apart, Conclude
<1>4. /\ cycle'[i].pod = p /\ cycle'[i].decision = d /\ cycle'[i] \in Cycle
      /\ \A j \in Scheduler : j # i => cycle'[j] = cycle[j]
  BY <1>1, <1>2 DEF Conclude, GoodLine, TypeOK, Cycle
<1>5. cycle'[i] # NoCycle /\ d # NoDecision
  BY <1>1, <1>4, AbsenceAssumption DEF GoodLine
<1>6. d.winners \in (SUBSET Node) \ {{}}
  BY <1>1 DEF GoodLine, SoundDecision, Decision
<1>7. Offer(i, p) = {} /\ Offer(i, p)' = d.winners
  BY <1>2, <1>3, <1>4, <1>5 DEF Offer
<1>8. \A j \in Scheduler, q \in Pod : ~(j = i /\ q = p) => Offer(j, q)' = Offer(j, q)
  BY <1>2, <1>3, <1>4 DEF Offer
<1> QED BY <1>3, <1>6, <1>7, <1>8, Announces

\* The winners of the decision stay on offer when the pod is assumed on one of them.
LEMMA SelectHostStutters ==
    ASSUME TypeOK, Apart, NEW i \in Scheduler, SelectHost(i)
    PROVE  UNCHANGED <<Offers, bound>>
<1>1. cycle[i] \in Cycle /\ cycle[i] # NoCycle /\ cycle[i].decision # NoDecision
  BY DEF SelectHost, TypeOK
<1>. PICK p \in Pod : p = cycle[i].pod
  BY <1>1 DEF Cycle
<1>2. PICK n \in cycle[i].candidates :
        attempt' = [attempt EXCEPT ![i][p] = [node |-> n, decision |-> cycle[i].decision]]
  BY DEF SelectHost
<1>3. attempt[i][p] = NoAttempt
  BY <1>1 DEF Apart
<1>4. [node |-> n, decision |-> cycle[i].decision] # NoAttempt
  <2>1. [node |-> n, decision |-> cycle[i].decision] \in Attempt
    BY <1>1, <1>2 DEF Attempt, Cycle
  <2> QED BY <2>1, AbsenceAssumption
<1>5. /\ attempt'[i][p].decision = cycle[i].decision /\ attempt'[i][p] # NoAttempt
      /\ \A j \in Scheduler, q \in Pod : ~(j = i /\ q = p) => attempt'[j][q] = attempt[j][q]
  BY <1>1, <1>2, <1>4 DEF TypeOK
<1>6. cycle'[i] = NoCycle /\ \A j \in Scheduler : j # i => cycle'[j] = cycle[j]
  BY DEF SelectHost, TypeOK
<1>7. Offer(i, p)' = Offer(i, p)
  BY <1>1, <1>3, <1>5 DEF Offer
<1>8. \A j \in Scheduler, q \in Pod : ~(j = i /\ q = p) => Offer(j, q)' = Offer(j, q)
  BY <1>5, <1>6 DEF Offer
<1> QED BY <1>7, <1>8, Stutters DEF SelectHost

LEMMA AssumeOnlyAnnounces ==
    ASSUME TypeOK, NEW i \in Scheduler, NEW p \in Pod, AssumeOnly(i, p)
    PROVE  Promise!Next
<1>1. PICK n \in Node : attempt' = [attempt EXCEPT ![i][p] = [node |-> n, decision |-> NoDecision]]
  BY DEF AssumeOnly, Admissible
<1>2. attempt[i][p] = NoAttempt /\ cycle[i] = NoCycle /\ cycle' = cycle /\ bound' = bound
  BY DEF AssumeOnly, Idle
<1>3. [node |-> n, decision |-> NoDecision] # NoAttempt
  BY AbsenceAssumption DEF Attempt
<1>4. /\ attempt'[i][p].node = n /\ attempt'[i][p].decision = NoDecision /\ attempt'[i][p] # NoAttempt
      /\ \A j \in Scheduler, q \in Pod : ~(j = i /\ q = p) => attempt'[j][q] = attempt[j][q]
  BY <1>1, <1>3 DEF TypeOK
<1>5. Offer(i, p) = {} /\ Offer(i, p)' = {n}
  BY <1>2, <1>4 DEF Offer
<1>6. \A j \in Scheduler, q \in Pod : ~(j = i /\ q = p) => Offer(j, q)' = Offer(j, q)
  BY <1>2, <1>4 DEF Offer
<1>7. {n} \in (SUBSET Node) \ {{}}
  OBVIOUS
<1> QED BY <1>2, <1>5, <1>6, <1>7, Announces

\* A binding cycle that ends discharges the offer, or withdraws it.
LEMMA FinishBindingSettles ==
    ASSUME TypeOK, AttemptLogged, Apart, NEW i \in Scheduler, NEW p \in Pod, FinishBinding(i, p)
    PROVE  Promise!Next
<1>0. PICK P \in SUBSET Pod : P = {p}
  OBVIOUS
<1>1. attempt[i][p] # NoAttempt /\ cycle' = cycle /\ attempt' = [attempt EXCEPT ![i][p] = NoAttempt]
  BY DEF FinishBinding, Bind, BindConflict, BindFails, Forget
<1>2. /\ attempt'[i][p] = NoAttempt
      /\ \A j \in Scheduler, q \in Pod : ~(j = i /\ q = p) => attempt'[j][q] = attempt[j][q]
  BY <1>1 DEF TypeOK
<1>3. Offer(i, p)' = {}
  BY <1>1, <1>2 DEF Offer, Apart
<1>4. \A j \in Scheduler, q \in Pod : ~(j = i /\ q \in P) => Offer(j, q)' = Offer(j, q)
  <2>1. ASSUME NEW j \in Scheduler, NEW q \in Pod, ~(j = i /\ q = p) PROVE Offer(j, q)' = Offer(j, q)
    BY <1>1, <1>2, <2>1 DEF Offer
  <2> QED BY <1>0, <2>1
<1>5. attempt[i][p].node \in Offer(i, p) /\ attempt[i][p].node \in Node
  BY <1>1, AttemptIsOffer
<1>6. /\ P \in (SUBSET Pod) \ {{}}
      /\ \A q \in P : Offer(i, q) # {}
      /\ \A q \in P : Offer(i, q)' = {}
  BY <1>0, <1>3, <1>5
<1>7. bound \in [Pod -> Node \cup {NoNode}]
  BY DEF TypeOK
<1>8. CASE UNCHANGED bound
  <2>1. PICK Q \in SUBSET P : Q = {}
    OBVIOUS
  <2>2. PICK place \in [Q -> Node] : place = [q \in Q |-> attempt[i][p].node]
    BY <2>1
  <2>3. bound' = [q \in Pod |-> IF q \in Q THEN place[q] ELSE bound[q]]
    BY <1>7, <1>8, <2>1
  <2>4. \A q \in Q : bound[q] = NoNode /\ place[q] \in Offer(i, q)
    BY <2>1
  <2> QED BY <1>4, <1>6, <2>3, <2>4, Settles
<1>9. CASE bound[p] = NoNode /\ bound' = [bound EXCEPT ![p] = attempt[i][p].node]
  <2>1. PICK Q \in SUBSET P : Q = {p}
    BY <1>0
  <2>2. PICK place \in [Q -> Node] : place = [q \in Q |-> attempt[i][p].node]
    BY <1>5
  <2>3. bound' = [q \in Pod |-> IF q \in Q THEN place[q] ELSE bound[q]]
    BY <1>7, <1>9, <2>1, <2>2
  <2>4. \A q \in Q : bound[q] = NoNode /\ place[q] \in Offer(i, q)
    BY <1>5, <1>9, <2>1, <2>2
  <2> QED BY <1>4, <1>6, <2>3, <2>4, Settles
<1> QED BY <1>8, <1>9 DEF FinishBinding, Bind, BindConflict, BindFails

\* The offers of a process that ends are all over, those whose bind call had arrived kept.
LEMMA CrashSettles ==
    ASSUME TypeOK, Sound, CycleLogged, AttemptLogged, NEW i \in Scheduler, Crash(i)
    PROVE  Promise!Next \/ UNCHANGED <<Offers, bound>>
<1>1. PICK Q \in SUBSET {p \in Pod : attempt[i][p] # NoAttempt /\ bound[p] = NoNode} :
        bound' = [p \in Pod |-> IF p \in Q THEN attempt[i][p].node ELSE bound[p]]
  BY DEF Crash
<1>. PICK P \in SUBSET Pod : P = {p \in Pod : Offer(i, p) # {}}
  OBVIOUS
<1>. PICK place : place = [p \in Q |-> attempt[i][p].node]
  OBVIOUS
<1>2. /\ cycle'[i] = NoCycle /\ attempt'[i] = [p \in Pod |-> NoAttempt]
      /\ \A j \in Scheduler : j # i => cycle'[j] = cycle[j] /\ attempt'[j] = attempt[j]
  BY DEF Crash, TypeOK
<1>3. \A p \in Pod : Offer(i, p)' = {}
  BY <1>2 DEF Offer
<1>4. \A j \in Scheduler, q \in Pod : j # i => Offer(j, q)' = Offer(j, q)
  BY <1>2 DEF Offer
<1>5. \A p \in Q : p \in Pod /\ bound[p] = NoNode /\ attempt[i][p].node \in Offer(i, p)
                   /\ attempt[i][p].node \in Node
  BY AttemptIsOffer
<1>6. Q \in SUBSET P /\ place \in [Q -> Node]
  BY <1>5
<1>7. bound' = [p \in Pod |-> IF p \in Q THEN place[p] ELSE bound[p]]
  BY <1>1
<1>8. \A p \in Q : bound[p] = NoNode /\ place[p] \in Offer(i, p)
  BY <1>5
<1>9. \A p \in P : Offer(i, p) # {} /\ Offer(i, p)' = {}
  BY <1>3
<1>10. \A j \in Scheduler, q \in Pod : ~(j = i /\ q \in P) => Offer(j, q)' = Offer(j, q)
  BY <1>3, <1>4
<1>11. CASE P = {}
  <2>1. bound' = bound
    BY <1>6, <1>7, <1>11 DEF TypeOK
  <2> QED BY <1>10, <1>11, <2>1, Stutters
<1>12. CASE P # {}
  <2>1. P \in (SUBSET Pod) \ {{}}
    BY <1>12
  <2>2. \A p \in P : Offer(i, p) # {}
    BY <1>9
  <2>3. \A p \in P : Offer(i, p)' = {}
    BY <1>9
  <2>4. Q \in SUBSET P
    BY <1>6
  <2>5. place \in [Q -> Node]
    BY <1>6
  <2>6. Promise!Next
    BY ONLY i \in Scheduler, <1>7, <1>8, <1>10, <2>1, <2>2, <2>3, <2>4, <2>5, Settles
  <2> QED BY <2>6
<1> QED BY <1>11, <1>12

\* Every step is a step of Placement, or leaves the offers and the placements as they are.
LEMMA PromiseStep ==
    ASSUME TypeOK, Alive, Sound, CycleLogged, AttemptLogged, Apart, [Next]_vars
    PROVE  [Promise!Next]_<<Offers, bound>>
<1>1. ASSUME NEW i \in Scheduler, NEW p \in Pod, PreScore(i, p) PROVE UNCHANGED <<Offers, bound>>
  <2>1. PICK C \in SUBSET Node : cycle' = [cycle EXCEPT ![i] = Snapshot(i, p, C)]
    BY <1>1 DEF PreScore, Admissible
  <2>2. /\ cycle[i] = NoCycle /\ cycle'[i].decision = NoDecision
        /\ \A j \in Scheduler : j # i => cycle'[j] = cycle[j]
    BY <1>1, <2>1 DEF PreScore, Idle, Snapshot, TypeOK
  <2>3. \A j \in Scheduler, q \in Pod : Offer(j, q)' = Offer(j, q)
    BY <1>1, <2>2 DEF PreScore, Offer
  <2> QED BY <1>1, <2>3, Stutters DEF PreScore
<1>2. ASSUME NEW i \in Scheduler, DeciderAnswers(i) PROVE UNCHANGED <<Offers, bound>>
  <2>1. /\ cycle[i] # NoCycle /\ cycle[i] \in Cycle /\ cycle[i].decision = NoDecision
        /\ UNCHANGED <<attempt, bound>>
    BY <1>2 DEF DeciderAnswers, Calling, TypeOK
  <2>2. cycle'[i].decision = NoDecision /\ \A j \in Scheduler : j # i => cycle'[j] = cycle[j]
    BY <1>2, <2>1 DEF DeciderAnswers, TypeOK, Cycle
  <2>3. \A j \in Scheduler, q \in Pod : Offer(j, q)' = Offer(j, q)
    BY <2>1, <2>2 DEF Offer
  <2> QED BY <2>1, <2>3, Stutters
<1>3. ASSUME NEW i \in Scheduler, Start(i) \/ Agree(i) \/ RefuseToStart(i)
      PROVE  UNCHANGED <<cycle, attempt, bound>>
  BY <1>3 DEF Start, Agree, Agreed, RefuseToStart, work
<1>4. Edit \/ Replicas \/ UNCHANGED vars => UNCHANGED <<cycle, attempt, bound>>
  BY ClusterApart DEF work
<1>5. ASSUME UNCHANGED <<cycle, attempt, bound>> PROVE UNCHANGED <<Offers, bound>>
  BY <1>5, Stutters DEF Offer
<1> QED BY <1>1, <1>2, <1>3, <1>4, <1>5, ScoringAnnounces, SelectHostStutters, AssumeOnlyAnnounces,
           FinishBindingSettles, CrashSettles DEF Next, Lifecycle, TakePod

\* Scheduling implements Placement: whatever is decided, by whom, and however it fails, every placement
\* discharges one announced set of nodes, and no pod is placed twice or moved (plugin.go 187-267).
THEOREM PlacementIsKept == Spec => PlacementKept
<1> DEFINE IInv == TypeOK /\ Alive /\ Sound /\ CycleLogged /\ AttemptLogged /\ Apart
<1>1. Init => IInv
  BY TypeInit DEF Init, Sound, CycleLogged, AttemptLogged, Apart
<1>2. IInv /\ [Next]_vars => IInv'
  BY TypeStep, SoundStep, CycleLoggedStep, AttemptLoggedStep, ApartStep
<1>3. Init => Promise!Init
  BY DEF Init, Promise!Init, Offer
<1>4. IInv /\ [Next]_vars => [Promise!Next]_<<Offers, bound>>
  BY PromiseStep
<1> QED BY <1>1, <1>2, <1>3, <1>4, PTL DEF Spec, PlacementKept, Promise!Spec, Offers
=============================================================================
