-------------------------------- MODULE Scheduling --------------------------------
(***************************************************************************)
(* The decision path: scheduler processes running the KaptainScore plugin  *)
(* (plugin/scoring), the decider they call over HTTP (plugin/decider,      *)
(* bridge/app.py), and what they leave behind: bindings at the API server, *)
(* decision and binding lines on stdout.                                   *)
(*                                                                         *)
(* A process reads KAPTAIN_STRATEGY once, agrees with the decider, then    *)
(* takes pods one at a time (scheduling cycle) while earlier pods are      *)
(* still being bound (binding cycles). Leader election is off and the      *)
(* Deployment rolls, so two processes may run at once. So does the         *)
(* decider's: its old replica answers until the new one is ready, and for  *)
(* a moment both do. Pods request one unit of CPU each.                    *)
(***************************************************************************)
EXTENDS Scores

CONSTANTS
    Scheduler,     \* the scheduler processes that ever run, named by their nonce
    Pod,
    Strategy,      \* the policies a decider may be deployed with
    RawScore,      \* the raw scores a decider may answer
    Stranger,      \* a node name outside every snapshot
    NoName,        \* the empty strategy name
    Capacity,      \* the allocatable CPU of each node
    MaxEdits,      \* bound: how often the two Deployments are edited
    MaxFailures,   \* bound: how often a bind call fails or loses its reply
    NoCycle, NoAnswer, NoDecision, NoAttempt, NoId

ASSUME SchedulingAssumption ==
    /\ IsFiniteSet(Pod)
    /\ RawScore \subseteq Int
    /\ Stranger \notin Node \cup {NoNode}
    /\ NoName \notin Strategy
    /\ Capacity \in [Node -> Nat]
    /\ MaxEdits \in Nat
    /\ MaxFailures \in Nat

VARIABLES
    declared,    \* KAPTAIN_STRATEGY of the scheduler's Deployment
    deployed,    \* STRATEGY of the decider's Deployment
    replicas,    \* the policies of the decider's pods: deployed, and those a rollout has not retired
    serving,     \* the policies of those that are ready: the Service sends a request to any
    edits,       \* how often a Deployment was edited
    status,      \* status[i]: unborn, starting, ready or dead
    config,      \* config[i]: the strategy the process declared at startup
    agreedAt,    \* agreedAt[i]: edits when the two agreed (history)
    agreedAmong, \* agreedAmong[i]: replicas when the two agreed (history)
    counter,     \* counter[i]: decisionCounter
    cycle,       \* cycle[i]: the pod in its scheduling cycle, its snapshot, call and decision
    attempt,     \* attempt[i][p]: the node assumed for p while it is being bound
    bound,       \* bound[p]: where the API server says p is bound
    failures,    \* how many bind calls failed
    decisions,   \* the decision lines
    bindings     \* the binding lines

cluster == <<declared, deployed, replicas, serving, edits>>
process == <<status, config, agreedAt, agreedAmong, counter>>
work    == <<cycle, attempt, bound, failures>>
lines   == <<decisions, bindings>>
vars    == <<cluster, process, work, lines>>

Init ==
    /\ declared \in Strategy
    /\ deployed \in Strategy
    /\ replicas = {deployed}
    /\ serving \in SUBSET replicas
    /\ edits = 0
    /\ status = [i \in Scheduler |-> "unborn"]
    /\ config = [i \in Scheduler |-> NoName]
    /\ agreedAt = [i \in Scheduler |-> 0]
    /\ agreedAmong = [i \in Scheduler |-> {}]
    /\ counter = [i \in Scheduler |-> 0]
    /\ cycle = [i \in Scheduler |-> NoCycle]
    /\ attempt = [i \in Scheduler |-> [p \in Pod |-> NoAttempt]]
    /\ bound = [p \in Pod |-> NoNode]
    /\ failures = 0
    /\ decisions = {}
    /\ bindings = {}

-----------------------------------------------------------------------------
(* Deployments and processes.                                              *)

EditScheduler(s) ==
    /\ edits < MaxEdits
    /\ s # declared
    /\ declared' = s
    /\ edits' = edits + 1
    /\ UNCHANGED <<deployed, replicas, serving, process, work, lines>>

\* A rollout begins: the replicas there are go on answering.
EditDecider(s) ==
    /\ edits < MaxEdits
    /\ s # deployed
    /\ deployed' = s
    /\ replicas' = replicas \cup {s}
    /\ edits' = edits + 1
    /\ UNCHANGED <<declared, serving, process, work, lines>>

\* A replica answers /healthz.
ReplicaReady(s) ==
    /\ s \in replicas \ serving
    /\ serving' = serving \cup {s}
    /\ UNCHANGED <<declared, deployed, replicas, edits, process, work, lines>>

\* A replica crashes, is evicted or no longer answers; its ReplicaSet has another in its place.
ReplicaStops(s) ==
    /\ s \in serving
    /\ serving' = serving \ {s}
    /\ UNCHANGED <<declared, deployed, replicas, edits, process, work, lines>>

\* RollingUpdate with one replica: an old one that answers goes once the deployed one does.
ReplicaRetires(s) ==
    /\ s \in replicas \ {deployed}
    /\ s \in serving => deployed \in serving
    /\ replicas' = replicas \ {s}
    /\ serving' = serving \ {s}
    /\ UNCHANGED <<declared, deployed, edits, process, work, lines>>

Start(i) ==
    /\ status[i] = "unborn"
    /\ status' = [status EXCEPT ![i] = "starting"]
    /\ config' = [config EXCEPT ![i] = declared]
    /\ UNCHANGED <<cluster, agreedAt, agreedAmong, counter, work, lines>>

Agreed(i) ==
    /\ status' = [status EXCEPT ![i] = "ready"]
    /\ agreedAt' = [agreedAt EXCEPT ![i] = edits]
    /\ agreedAmong' = [agreedAmong EXCEPT ![i] = replicas]
    /\ UNCHANGED <<cluster, config, counter, work, lines>>

\* agreeOnStrategy without its comparison.
AgreeWithAnyone(i) ==
    /\ status[i] = "starting"
    /\ serving # {}
    /\ Agreed(i)

Agree(i) ==
    /\ status[i] = "starting"
    /\ config[i] \in serving
    /\ Agreed(i)

\* The decider reports another policy, or no probe succeeded for startupGrace.
RefuseToStart(i) ==
    /\ status[i] = "starting"
    /\ status' = [status EXCEPT ![i] = "dead"]
    /\ UNCHANGED <<cluster, config, agreedAt, agreedAmong, counter, work, lines>>

\* The process ends. Of the bind calls in flight, those of Q had reached the API server.
Crash(i) ==
    /\ status[i] = "ready"
    /\ status' = [status EXCEPT ![i] = "dead"]
    /\ cycle' = [cycle EXCEPT ![i] = NoCycle]
    /\ attempt' = [attempt EXCEPT ![i] = [p \in Pod |-> NoAttempt]]
    /\ \E Q \in SUBSET {p \in Pod : attempt[i][p] # NoAttempt /\ bound[p] = NoNode} :
          bound' = [p \in Pod |-> IF p \in Q THEN attempt[i][p].node ELSE bound[p]]
    /\ UNCHANGED <<cluster, config, agreedAt, agreedAmong, counter, failures, lines>>

-----------------------------------------------------------------------------
(* The scheduling cycle.                                                   *)

Hosted(i, p, n) == bound[p] = n \/ (attempt[i][p] # NoAttempt /\ attempt[i][p].node = n)

\* The scheduler cache: what is bound, and what this process has assumed.
Requested(i) == [n \in Node |-> Cardinality({p \in Pod : Hosted(i, p, n)})]

Admissible(i) == {n \in Node : Requested(i)[n] < Capacity[n]}

\* The counter alone, which a second process counts again from one.
CounterOnly(i, k) == <<k>>

NewDecisionID(i, k) == <<i, k>>

Idle(i, p) ==
    /\ status[i] = "ready"
    /\ cycle[i] = NoCycle
    /\ attempt[i][p] = NoAttempt
    /\ bound[p] = NoNode

\* What a scheduling cycle knows when it calls the decider.
Snapshot(i, p, C) ==
    [pod |-> p, candidates |-> C, requested |-> Requested(i),
     id |-> NewDecisionID(i, counter[i] + 1), answer |-> NoAnswer, decision |-> NoDecision]

\* PreScore up to the call: kube-scheduler found at least two candidates.
PreScore(i, p) ==
    /\ Idle(i, p)
    /\ \E C \in SUBSET Admissible(i) :
          /\ Cardinality(C) > 1
          /\ counter' = [counter EXCEPT ![i] = @ + 1]
          /\ cycle' = [cycle EXCEPT ![i] = Snapshot(i, p, C)]
    /\ UNCHANGED <<cluster, status, config, agreedAt, agreedAmong, attempt, bound, failures, lines>>

\* One candidate: kube-scheduler skips scoring, and the plugin sees only PostBind.
AssumeOnly(i, p) ==
    /\ Idle(i, p)
    /\ \E n \in Admissible(i) :
          attempt' = [attempt EXCEPT ![i][p] = [node |-> n, decision |-> NoDecision]]
    /\ UNCHANGED <<cluster, process, cycle, bound, failures, lines>>

Calling(i) == cycle[i] # NoCycle /\ cycle[i].decision = NoDecision

ScoreMap == UNION {[D -> RawScore] : D \in SUBSET (Node \cup {Stranger})}

\* A replica scores the snapshot with the policy it runs, which it may not name.
DeciderAnswers(i) ==
    /\ Calling(i)
    /\ cycle[i].answer = NoAnswer
    /\ \E scorer \in serving : \E s \in ScoreMap, n \in Node \cup {Stranger, NoNode}, name \in {scorer, NoName} :
          /\ DOMAIN s # {} => n = NoNode
          /\ cycle' = [cycle EXCEPT ![i].answer =
                [scores |-> s, node |-> n, strategy |-> name, scorer |-> scorer]]
    /\ UNCHANGED <<cluster, process, attempt, bound, failures, lines>>

NoReason == "none"

\* decide without the case that compares the two names.
TrustingReason(strategy, C, r) ==
    IF Refused(C, r) THEN "decider_error"
    ELSE IF ~ValidScores(C, RawScores(C, r)) THEN "invalid_score"
    ELSE NoReason

FallbackReason(strategy, C, r) ==
    IF Refused(C, r) THEN "decider_error"
    ELSE IF r.strategy # strategy THEN "strategy_mismatch"
    ELSE IF ~ValidScores(C, RawScores(C, r)) THEN "invalid_score"
    ELSE NoReason

\* What decide goes on with: the answer's scores, or the fallback's.
Effective(i, reason, scores) ==
    IF reason = NoReason THEN scores
    ELSE FallbackScores(cycle[i].candidates, Capacity, cycle[i].requested, 1)

\* The end of decide and of PreScore, with the effective scores.
DecisionLine(i, reason, reported, effective, scorer) ==
    LET c == cycle[i]
    IN  [id |-> c.id, pod |-> c.pod, strategy |-> config[i], reported |-> reported,
         reason |-> reason, scores |-> effective,
         intended |-> Intended(c.candidates, effective),
         winners |-> Winners(c.candidates, effective),
         requested |-> c.requested, scorer |-> IF reason = NoReason THEN scorer ELSE NoName]

Conclude(i, d) ==
    /\ cycle' = [cycle EXCEPT ![i].decision = d]
    /\ decisions' = decisions \cup {d}
    /\ UNCHANGED <<cluster, process, attempt, bound, failures, bindings>>

Decide(i) ==
    /\ Calling(i)
    /\ cycle[i].answer # NoAnswer
    /\ LET r == cycle[i].answer
           C == cycle[i].candidates
           reason == FallbackReason(config[i], C, r)
       IN  \E s \in {Effective(i, reason, RawScores(C, r))} :
              Conclude(i, DecisionLine(i, reason, r.strategy, s, r.scorer))

\* A client without a timeout sees only a refused connection.
FailsWhenDown(i) ==
    /\ Calling(i)
    /\ serving = {}
    /\ \E s \in {Effective(i, "decider_error", <<>>)} :
          Conclude(i, DecisionLine(i, "decider_error", NoName, s, NoName))

\* Timeout, refused connection, or an error status; an answer already sent is lost.
CallFails(i) ==
    /\ Calling(i)
    /\ \E s \in {Effective(i, "decider_error", <<>>)} :
          Conclude(i, DecisionLine(i, "decider_error", NoName, s, NoName))

\* kube-scheduler assumes the pod on any node of the highest score, and binds it aside.
SelectHost(i) ==
    /\ cycle[i] # NoCycle
    /\ cycle[i].decision # NoDecision
    /\ LET c == cycle[i]
           score == FrameworkScores(c.candidates, c.decision.scores)
       IN  \E n \in c.candidates :
              /\ \A m \in c.candidates : score[m] <= score[n]
              /\ attempt' = [attempt EXCEPT ![i][c.pod] = [node |-> n, decision |-> c.decision]]
    /\ cycle' = [cycle EXCEPT ![i] = NoCycle]
    /\ UNCHANGED <<cluster, process, bound, failures, lines>>

-----------------------------------------------------------------------------
(* The binding cycles.                                                     *)

Forget(i, p) == attempt' = [attempt EXCEPT ![i][p] = NoAttempt]

BindingLine(i, p) ==
    LET a == attempt[i][p]
        scored == a.decision # NoDecision
    IN  [scheduler |-> i, pod |-> p, node |-> a.node,
         id |-> IF scored THEN a.decision.id ELSE NoId,
         matched |-> scored /\ a.node \in a.decision.winners]

\* The bind call succeeds and PostBind writes its line.
Bind(i, p) ==
    /\ attempt[i][p] # NoAttempt
    /\ bound[p] = NoNode
    /\ bound' = [bound EXCEPT ![p] = attempt[i][p].node]
    /\ bindings' = bindings \cup {BindingLine(i, p)}
    /\ Forget(i, p)
    /\ UNCHANGED <<cluster, process, cycle, failures, decisions>>

\* The other scheduler bound the pod first.
BindConflict(i, p) ==
    /\ attempt[i][p] # NoAttempt
    /\ bound[p] # NoNode
    /\ Forget(i, p)
    /\ UNCHANGED <<cluster, process, cycle, bound, failures, lines>>

\* A binding line written when the bind is attempted rather than in PostBind.
LogsAttempt(i, p) ==
    /\ attempt[i][p] # NoAttempt
    /\ bound[p] = NoNode
    /\ failures < MaxFailures
    /\ failures' = failures + 1
    /\ \/ UNCHANGED bound
       \/ bound' = [bound EXCEPT ![p] = attempt[i][p].node]
    /\ bindings' = bindings \cup {BindingLine(i, p)}
    /\ Forget(i, p)
    /\ UNCHANGED <<cluster, process, cycle, decisions>>

\* The call fails for another reason, or succeeds and its reply is lost; the pod is forgotten.
BindFails(i, p) ==
    /\ attempt[i][p] # NoAttempt
    /\ bound[p] = NoNode
    /\ failures < MaxFailures
    /\ failures' = failures + 1
    /\ \/ UNCHANGED bound
       \/ bound' = [bound EXCEPT ![p] = attempt[i][p].node]
    /\ Forget(i, p)
    /\ UNCHANGED <<cluster, process, cycle, lines>>

-----------------------------------------------------------------------------
Lifecycle(i) == Start(i) \/ Agree(i) \/ RefuseToStart(i) \/ Crash(i)

Edit == \E s \in Strategy : EditScheduler(s) \/ EditDecider(s)

Replicas == \E s \in Strategy : ReplicaReady(s) \/ ReplicaStops(s) \/ ReplicaRetires(s)

TakePod(i) == \E p \in Pod : PreScore(i, p) \/ AssumeOnly(i, p)

Scoring(i) == CallFails(i) \/ Decide(i)

FinishBinding(i, p) == Bind(i, p) \/ BindConflict(i, p) \/ BindFails(i, p)

Next == \/ Edit
        \/ Replicas
        \/ \E i \in Scheduler :
              \/ Lifecycle(i) \/ TakePod(i) \/ DeciderAnswers(i) \/ Scoring(i) \/ SelectHost(i)
              \/ \E p \in Pod : FinishBinding(i, p)

Spec == Init /\ [][Next]_vars

\* kube-scheduler keeps popping pods, a call to the decider or the API server returns within
\* its timeout. Nothing is assumed of the decider, of restarts or of the Deployments.
Fairness == \A i \in Scheduler :
    /\ WF_vars(TakePod(i))
    /\ WF_vars(Scoring(i))
    /\ WF_vars(SelectHost(i))
    /\ \A p \in Pod : WF_vars(FinishBinding(i, p))

FairSpec == Spec /\ Fairness

-----------------------------------------------------------------------------
(* Properties.                                                             *)

Id == Scheduler \X (Nat \ {0})

Reason == {NoReason, "decider_error", "strategy_mismatch", "invalid_score"}

\* Complete and bounded: what is left of an answer, or the fallback's scores.
EffectiveScores == UNION {[C -> -MaxRawScore .. MaxRawScore] : C \in SUBSET Node}

Decision == [id : Id, pod : Pod, strategy : Strategy, reported : Strategy \cup {NoName},
             reason : Reason, scores : EffectiveScores, intended : Node,
             winners : SUBSET Node, requested : [Node -> Nat], scorer : Strategy \cup {NoName}]

Answer == [scores : ScoreMap, node : Node \cup {Stranger, NoNode},
           strategy : Strategy \cup {NoName}, scorer : Strategy]

Cycle == [pod : Pod, candidates : (SUBSET Node) \ {{}}, requested : [Node -> Nat], id : Id,
          answer : Answer \cup {NoAnswer}, decision : Decision \cup {NoDecision}]

Attempt == [node : Node, decision : Decision \cup {NoDecision}]

Binding == [scheduler : Scheduler, pod : Pod, node : Node, id : Id \cup {NoId}, matched : BOOLEAN]

\* Nothing is mistaken for its absence.
ASSUME AbsenceAssumption ==
    /\ NoCycle \notin Cycle
    /\ NoAnswer \notin Answer
    /\ NoDecision \notin Decision
    /\ NoAttempt \notin Attempt
    /\ NoId \notin Id

\* The shape of the state; in particular a decision has a score for every candidate, an
\* intended node, and none of them is a name the decider made up.
TypeOK ==
    /\ declared \in Strategy
    /\ deployed \in replicas /\ serving \subseteq replicas /\ replicas \subseteq Strategy
    /\ edits \in 0 .. MaxEdits
    /\ status \in [Scheduler -> {"unborn", "starting", "ready", "dead"}]
    /\ config \in [Scheduler -> Strategy \cup {NoName}]
    /\ agreedAt \in [Scheduler -> 0 .. MaxEdits]
    /\ agreedAmong \in [Scheduler -> SUBSET Strategy]
    /\ counter \in [Scheduler -> Nat]
    /\ cycle \in [Scheduler -> Cycle \cup {NoCycle}]
    /\ attempt \in [Scheduler -> [Pod -> Attempt \cup {NoAttempt}]]
    /\ bound \in [Pod -> Node \cup {NoNode}]
    /\ failures \in 0 .. MaxFailures
    /\ decisions \in SUBSET Decision
    /\ bindings \in SUBSET Binding

\* plugin.go:85-88, 200-206: a decision labelled with a strategy and not marked as a fallback was
\* scored by that strategy, whenever the decider was redeployed between the snapshot, the answer and its reading.
HonestLabel == \A d \in decisions : d.reason = NoReason => d.scorer = d.strategy

\* plugin.go:89-98, 192-195: a decider that names a policy other than the declared one was deployed since the
\* two agreed. Without an edit since then, they agreed in the middle of a rollout, when the declared
\* policy and the one that answers now were both among the decider's replicas.
MismatchMeansRollout ==
    \A d \in decisions :
        LET i == d.id[1]
        IN  d.reason = "strategy_mismatch" /\ d.reported # NoName /\ agreedAt[i] = edits =>
                {d.strategy, d.reported} \subseteq agreedAmong[i]

\* decision.go:76-82: two decision lines never share an id, across attempts, restarts and processes
\* that run at the same time.
UniqueDecisionIds == \A d, e \in decisions : d.id = e.id => d = e

\* decision.go:93-111, plugin.go:253-267: a binding line with an id joins a decision line about the same
\* pod, and the pod was bound on a node no candidate's score exceeds; the node the policy
\* intended, computed apart, is one of those winners.
BindingsExplained ==
    \A b \in bindings : b.id # NoId =>
        \E d \in decisions :
            /\ d.id = b.id
            /\ d.pod = b.pod
            /\ b.node \in DOMAIN d.scores
            /\ \A m \in DOMAIN d.scores : d.scores[m] <= d.scores[b.node]
            /\ d.intended \in d.winners
            /\ b.matched

\* decision.go:164: the binding lines are a record of placements one can trust: at most one per pod,
\* by one process, naming the node where the API server has the pod, through conflicts,
\* lost replies and crashes.
BindingsTrue ==
    /\ \A b \in bindings : bound[b.pod] = b.node
    /\ \A a, b \in bindings : a.pod = b.pod => a = b

\* fallback.go:29-57: a fallback leaves kube-scheduler nothing to draw: it has one winner, which it
\* intended, and no candidate had more CPU free in the snapshot.
FallbackNeverTies ==
    \A d \in decisions : d.reason # NoReason =>
        /\ d.winners = {d.intended}
        /\ \A m \in DOMAIN d.scores :
              Capacity[m] - d.requested[m] <= Capacity[d.intended] - d.requested[d.intended]

\* What process i currently accepts for p.
Offer(i, p) ==
    IF attempt[i][p] # NoAttempt
    THEN IF attempt[i][p].decision = NoDecision THEN {attempt[i][p].node}
                                                ELSE attempt[i][p].decision.winners
    ELSE IF cycle[i] # NoCycle /\ cycle[i].pod = p /\ cycle[i].decision # NoDecision
         THEN cycle[i].decision.winners
         ELSE {}

Promise == INSTANCE Placement WITH
    offer <- [i \in Scheduler |-> [p \in Pod |-> Offer(i, p)]],
    placed <- bound

\* Every placement discharges one announced set of winners, at most one per pod.
PlacementKept == Promise!Spec

\* decider.go:29-31 and plugin.go:217-223: once one process stays up, every pod is placed, whatever the
\* decider does: down, mute, or answering nonsense.
EveryPodPlaced ==
    (\E i \in Scheduler : <>[](status[i] = "ready")) => <>(\A p \in Pod : bound[p] # NoNode)
=============================================================================
