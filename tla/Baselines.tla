-------------------------------- MODULE Baselines --------------------------------
(***************************************************************************)
(* One decision from what the plugin reads of the nodes to what            *)
(* kube-scheduler ranks on: the snapshot, the policy's scores or the       *)
(* fallback's, and the loops of ScoreLoops. The policies that only rank on *)
(* the snapshot, or on the estimates of kaptain.py's observer, are written *)
(* out (bridge/strategies); Kaptain itself answers anything here. Module   *)
(* Scheduling has the calls around a decision.                             *)
(*                                                                         *)
(* A ratio of the code is Scale times it here, exactly: Scale is a         *)
(* multiple of every allocatable amount. The mean of two is their sum.     *)
(***************************************************************************)
EXTENDS ScoreLoops

CONSTANTS
    NodeState,     \* what a node may be: its amounts, and the features that can be read of it
    Pod,           \* what the incoming pod requests
    Scale,
    Digest,        \* the hashes of a seed and a task
    Observed       \* what the observer may know of the nodes: the pod's estimated runtime on each, or zero
                   \* if its task never ran there, the work left on it and its slowdown

Features == {"allocatable", "requested", "telemetry"}

Amount == [cpu : Nat, memory : Nat]

ASSUME BaselinesAssumption ==
    /\ NodeState \subseteq [allocatable : Amount, requested : Amount, used : Amount, read : SUBSET Features]
    /\ Pod \in Amount
    /\ Scale \in Nat /\ Digest \subseteq Nat
    /\ Observed \subseteq [Node -> [estimate : Nat, left : Nat, slowdown : Nat]]
    /\ \A state \in NodeState : \A resource \in {"cpu", "memory"} :
          state.allocatable[resource] > 0 => Scale % state.allocatable[resource] = 0

VARIABLES
    cluster,     \* the candidates as they are
    policy,      \* the policy the decider runs
    digest,      \* the hash of the seed and the pod's task
    known,       \* what the observer knows of the nodes
    fallback     \* the decision line: no fallback, or fallback_blind_nodes

decisionVars == <<cluster, policy, digest, known, fallback>>

NoFallback == {NoNode}

-----------------------------------------------------------------------------
(* The snapshot.                                                           *)

\* What cannot be read is zero, and its feature is declared missing.
NodeSnapshot(state) ==
    LET reading(feature, amount) == IF feature \in state.read THEN amount ELSE [cpu |-> 0, memory |-> 0]
    IN  [allocatable |-> reading("allocatable", state.allocatable),
         requested   |-> reading("requested", state.requested),
         used        |-> reading("telemetry", state.used),
         missing     |-> Features \ state.read]

Snapshot(nodes) == [n \in DOMAIN nodes |-> NodeSnapshot(nodes[n])]

-----------------------------------------------------------------------------
(* The policies that only rank, on the snapshot s and what is known.       *)

Policies == {"dummy-random", "largest-cpu-capacity", "least-allocated", "least-used",
             "shortest-estimate", "earliest-finish", "slowed-estimate"}

\* NoCapacity that lets a capacity of zero pass.
NegativeCapacity(node) == node.allocatable.cpu < 0 \/ node.allocatable.memory < 0

NoCapacity(node) == node.allocatable.cpu <= 0 \/ node.allocatable.memory <= 0

NeverRan(n) == known[n].estimate = 0

\* The policy refuses to rank on a candidate, or divides by zero: the decider answers an error.
Raises(p, s) == \E n \in DOMAIN s :
    \/ p = "largest-cpu-capacity" /\ "allocatable" \in s[n].missing
    \/ p = "least-allocated" /\ (NoCapacity(s[n]) \/ "requested" \in s[n].missing)
    \/ p = "least-used" /\ (NoCapacity(s[n]) \/ "telemetry" \in s[n].missing)
    \/ p = "earliest-finish" /\ ~NeverRan(n) /\ s[n].allocatable.cpu = 0
    \/ p = "slowed-estimate" /\ (s[n].allocatable.cpu <= 0 \/ "requested" \in s[n].missing)

\* The part left free, scaled.
Free(allocatable, taken) ==
    IF taken >= allocatable THEN 0 ELSE (Scale * (allocatable - taken)) \div allocatable

FreeWithPod(node, taken) ==
    Free(node.allocatable.cpu, taken.cpu + Pod.cpu) + Free(node.allocatable.memory, taken.memory + Pod.memory)

\* A draw that only depends on the names, the seed and the task.
Pick(C) == CHOOSE n \in C : Cardinality({m \in C : m < n}) = digest % Cardinality(C)

DummyRandom(s) == OneHot(DOMAIN s, Pick(DOMAIN s))

LargestCPUCapacity(s) == [n \in DOMAIN s |-> s[n].allocatable.cpu]

LeastAllocated(s) == [n \in DOMAIN s |-> FreeWithPod(s[n], s[n].requested)]

LeastUsed(s) == [n \in DOMAIN s |-> FreeWithPod(s[n], s[n].used)]

\* The estimates: a node where the task never ran scores zero, before all others.
ShortestEstimate(s) == [n \in DOMAIN s |-> -(Scale * known[n].estimate)]

\* The work left is shared over the node's cores.
Finish(node, n) == Scale * known[n].estimate + (Scale * known[n].left) \div node.allocatable.cpu

EarliestFinish(s) == [n \in DOMAIN s |-> IF NeverRan(n) THEN 0 ELSE -Finish(s[n], n)]

\* The runtime, slowed by what is requested on the node, the pod included.
Slowed(node, n) ==
    LET occupancy == (Scale * (node.requested.cpu + Pod.cpu)) \div node.allocatable.cpu
    IN  known[n].estimate * (Scale + known[n].slowdown * occupancy)

SlowedEstimate(s) == [n \in DOMAIN s |-> IF NeverRan(n) THEN 0 ELSE -Slowed(s[n], n)]

PolicyScores(p, s) ==
    CASE p = "dummy-random"         -> DummyRandom(s)
      [] p = "largest-cpu-capacity" -> LargestCPUCapacity(s)
      [] p = "least-allocated"      -> LeastAllocated(s)
      [] p = "least-used"           -> LeastUsed(s)
      [] p = "shortest-estimate"    -> ShortestEstimate(s)
      [] p = "earliest-finish"      -> EarliestFinish(s)
      [] p = "slowed-estimate"      -> SlowedEstimate(s)

-----------------------------------------------------------------------------
(* The decision.                                                           *)

FallbackOn(s) ==
    FallbackScores(DOMAIN s, [n \in DOMAIN s |-> s[n].allocatable.cpu],
                   [n \in DOMAIN s |-> s[n].requested.cpu], Pod.cpu)

\* FallbackIncomplete that only looks for the capacity.
NoAllocatable(s) == {n \in DOMAIN s : "allocatable" \in s[n].missing}

FallbackIncomplete(s) == {n \in DOMAIN s : s[n].missing \cap {"allocatable", "requested"} # {}}

BaselinesInit ==
    /\ candidates \in (SUBSET Node) \ {{}}
    /\ cluster \in [candidates -> NodeState]
    /\ policy \in Policies \cup {"kaptain"}
    /\ digest \in Digest
    /\ known \in Observed
    /\ fallback = NoFallback
    /\ stage = "decide"
    /\ scores = NoScores /\ left = candidates
    /\ best = NoNode /\ bestScore = 0 /\ highest = MinusInf
    /\ winners = {} /\ framework = NoScores

\* What the decider may answer; nothing is an error.
Answers ==
    CASE policy = "kaptain" -> ScoreMap(candidates)
      [] policy # "kaptain" /\ Raises(policy, Snapshot(cluster)) -> {}
      [] OTHER -> {PolicyScores(policy, Snapshot(cluster))}

Decided ==
    /\ stage = "decide" /\ stage' = "best"
    /\ UNCHANGED <<candidates, left, best, bestScore, highest, winners, framework, cluster, policy, digest, known>>

\* Accept without the validation.
AcceptAny ==
    /\ Decided
    /\ scores' \in Answers
    /\ fallback' = NoFallback

Accept ==
    /\ Decided
    /\ scores' \in {s \in Answers : ValidScores(candidates, s)}
    /\ fallback' = NoFallback

\* An error, an answer that is not valid, or a call that failed.
FallBack ==
    /\ Decided
    /\ scores' = FallbackOn(Snapshot(cluster))
    /\ fallback' = FallbackIncomplete(Snapshot(cluster))

BaselinesNext == Accept \/ FallBack \/ (Next /\ UNCHANGED decisionVars)

BaselinesSpec == BaselinesInit /\ [][BaselinesNext]_<<vars, decisionVars>>

-----------------------------------------------------------------------------
(* Properties.                                                             *)

AsRead(nodes) == [n \in DOMAIN nodes |-> [nodes[n] EXCEPT !.read = Features]]

\* decision.go:222-238: what is ranked has a bounded score for every candidate, and no other.
TypeOK ==
    /\ cluster \in [candidates -> NodeState]
    /\ stage # "decide" => ValidScores(candidates, scores)
    /\ fallback # NoFallback => fallback \subseteq candidates

\* README.md:227, "A value that cannot be read is `missing`, never zero": what a policy answered is what
\* it would have answered had everything been read, whatever was missing of whichever candidate.
AnswersWhatIs ==
    stage # "decide" /\ fallback = NoFallback /\ policy \in Policies =>
        scores = PolicyScores(policy, Snapshot(AsRead(cluster)))

\* README.md:224-225: a fallback whose line names no blind node is the one that knows all requests.
BlindFallbackSays ==
    stage # "decide" /\ fallback = {} => scores = FallbackOn(Snapshot(AsRead(cluster)))
=============================================================================
