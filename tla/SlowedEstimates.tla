----------------------------- MODULE SlowedEstimates -----------------------------
(***************************************************************************)
(* The slowed-estimate policies (bridge/strategies/kaptain.py): classes    *)
(* Estimates, Load, SlowedEstimate, and the observer (class Cluster) that  *)
(* a Load changes.                                                         *)
(*                                                                         *)
(* A runtime is divided by the slowdown of its node before it enters the   *)
(* estimates, and the slowdown is itself learned. The numbers are left     *)
(* out: an estimate is the runtimes mixed into it, each with the slowdown  *)
(* it was divided by, and the fit may come to any slowdown. A pod requests *)
(* one unit of CPU. These policies do not settle: the only reader of the   *)
(* pods is the observer's loop.                                            *)
(***************************************************************************)
EXTENDS Integers, FiniteSets, SequencesExt

CONSTANTS
    Pod, Task, TaskOf,
    Node,             \* the nodes' names, in their order
    Base,             \* what the pods outside the experiment request on each node
    Timed,            \* the pods that run MIN_TIMED_S or more and have a CPU limit
    Fixed,            \* FIXED_SLOWDOWN
    Grid,             \* SLOWDOWN_GRID
    MinLoaded,
    Unslowed,         \* the divisor of a pod whose occupancy is zero
    NoList, NoSnapshot, NoNode,
    MaxRaised         \* bound: how often learning from a pod raises

ASSUME SlowedAssumption ==
    /\ IsFiniteSet(Pod) /\ Timed \subseteq Pod
    /\ TaskOf \in [Pod -> Task]
    /\ TaskOf \in [Pod -> Task]
    /\ Node \subseteq Int /\ IsFiniteSet(Node)
    /\ Base \in [Node -> Nat \ {0}]
    /\ Unslowed \notin Grid \cup {Fixed}
    /\ NoNode \notin Node
    /\ MinLoaded \in Nat /\ MaxRaised \in Nat

VARIABLES
    pod,         \* pod[p]: pending, running or succeeded
    node,        \* node[p]: where p was bound
    beside,      \* beside[p]: the unfinished pods of the node when p was bound
    snapshot,    \* the snapshot a decision is made from
    started,     \* whether self.cluster exists
    list,        \* the pod list between its poll and the end of its read
    running,     \* the unfinished pods of the last read: their nodes are self.busy
    seen,        \* self.seen
    sized,       \* the nodes in load.cores
    system,      \* load.system, zero until the node is seen idle
    history,     \* load.history
    slowdown,    \* load.alphas, Fixed until one is learned
    known,       \* estimates.known
    raised

pods     == <<pod, node, beside>>
load     == <<sized, system, history, slowdown>>
observer == <<started, list, running, seen, known, raised>>
vars     == <<pods, snapshot, load, observer>>

\* An estimate: the pods it was updated from, and what it took over from another node.
NoEstimate == [own |-> <<>>, taken |-> {}]

Init ==
    /\ pod = [p \in Pod |-> "pending"]
    /\ node = [p \in Pod |-> NoNode]
    /\ beside = [p \in Pod |-> {}]
    /\ snapshot = NoSnapshot
    /\ started = FALSE /\ list = NoList /\ running = {} /\ seen = {}
    /\ sized = {} /\ system = [n \in Node |-> 0]
    /\ history = [n \in Node |-> <<>>]
    /\ slowdown = [n \in Node |-> Fixed]
    /\ known = [t \in Task |-> [n \in Node |-> NoEstimate]]
    /\ raised = 0

-----------------------------------------------------------------------------
(* The pods, and the decisions about them.                                 *)

On(n) == {p \in Pod : pod[p] = "running" /\ node[p] = n}

Bound(p, n) ==
    /\ pod' = [pod EXCEPT ![p] = "running"]
    /\ node' = [node EXCEPT ![p] = n]
    /\ beside' = [beside EXCEPT ![p] = On(n)]

\* kube-scheduler takes p, and the plugin writes what is requested on its candidates.
Snapshot(p) ==
    /\ snapshot = NoSnapshot
    /\ pod[p] = "pending"
    /\ \E C \in SUBSET Node :
          /\ Cardinality(C) > 1
          /\ snapshot' = [pod |-> p, requested |-> [n \in C |-> Base[n] + Cardinality(On(n))]]
    /\ UNCHANGED <<pods, load, observer>>

Busy == {node[p] : p \in running}

\* see that takes the pods of the last list off what a busy node's snapshot shows.
SeenLess(n) ==
    IF n \in DOMAIN snapshot.requested
    THEN snapshot.requested[n] - Cardinality({p \in running : node[p] = n})
    ELSE system[n]

\* Load.see: the least requested on n while the last list had no pod of ours there.
Seen(n) ==
    IF n \in DOMAIN snapshot.requested \ Busy
       /\ (system[n] = 0 \/ snapshot.requested[n] < system[n])
    THEN snapshot.requested[n]
    ELSE system[n]

Locked == list # NoList /\ list.reading

\* SlowedEstimate.scores, and the binding that follows, on the best node or a fallback's; it may fail.
Decide ==
    /\ snapshot # NoSnapshot /\ ~Locked
    /\ started' = TRUE
    /\ sized' = sized \cup DOMAIN snapshot.requested
    /\ system' = [n \in Node |-> Seen(n)]
    /\ \/ \E n \in DOMAIN snapshot.requested : Bound(snapshot.pod, n)
       \/ UNCHANGED pods
    /\ snapshot' = NoSnapshot
    /\ UNCHANGED <<list, running, seen, history, slowdown, known, raised>>

\* One candidate, or no answer from the decider: the policy sees nothing.
PlaceUnseen(p) ==
    /\ snapshot = NoSnapshot
    /\ pod[p] = "pending"
    /\ \E n \in Node : Bound(p, n)
    /\ UNCHANGED <<snapshot, load, observer>>

Finish(p) ==
    /\ pod[p] = "running"
    /\ pod' = [pod EXCEPT ![p] = "succeeded"]
    /\ UNCHANGED <<node, beside, snapshot, load, observer>>

-----------------------------------------------------------------------------
(* The estimates.                                                          *)

Runs(k, t, n) == Len(k[t][n].own)

\* Estimates.get where the task never ran on n: the estimate of the node where it ran most.
Moved(k, t) ==
    LET ran == {n \in Node : Runs(k, t, n) > 0}
        most == CHOOSE n \in ran : \A m \in ran :
                   Runs(k, t, m) < Runs(k, t, n) \/ (Runs(k, t, m) = Runs(k, t, n) /\ m <= n)
    IN  IF ran = {} THEN {} ELSE Range(k[t][most].own) \cup k[t][most].taken

\* Estimates.update with the runtime of p, divided by a slowdown.
Update(k, n, p, by) ==
    LET t == TaskOf[p]
        old == IF Runs(k, t, n) > 0 THEN k[t][n] ELSE [own |-> <<>>, taken |-> Moved(k, t)]
    IN  [k EXCEPT ![t][n] = [old EXCEPT !.own = Append(@, [pod |-> p, by |-> by])]]

\* Load.alone, with the slowdown a of the node.
Divisor(a, entry) == IF entry.occ = 0 THEN Unslowed ELSE a

\* Relearned that leaves the node's estimates as they are.
NotAgain(k, n, entries, a) == Update(k, n, Last(entries).pod, Divisor(a, Last(entries)))

\* The estimates with those of n computed again, from every runtime kept.
Relearned(k, n, entries, a) ==
    LET cleared == [t \in Task |-> [k[t] EXCEPT ![n] = NoEstimate]]
        again(acc, entry) == Update(acc, n, entry.pod, Divisor(a, entry))
    IN  FoldLeft(again, cleared, entries)

-----------------------------------------------------------------------------
(* The observer.                                                           *)

\* A poll that takes a bound pod for a finished one.
PollBound ==
    /\ started /\ list = NoList
    /\ list' = [todo |-> {p \in Pod : pod[p] # "pending"}, running |-> {}, reading |-> FALSE]
    /\ UNCHANGED <<pods, snapshot, load, started, running, seen, known, raised>>

Poll ==
    /\ started /\ list = NoList
    /\ list' = [todo |-> {p \in Pod : pod[p] = "succeeded"},
                running |-> {p \in Pod : pod[p] = "running"}, reading |-> FALSE]
    /\ UNCHANGED <<pods, snapshot, load, started, running, seen, known, raised>>

BeginRead ==
    /\ list # NoList /\ ~list.reading
    /\ list' = [list EXCEPT !.reading = TRUE, !.todo = @ \ seen]
    /\ running' = list.running
    /\ UNCHANGED <<pods, snapshot, load, started, seen, known, raised>>

ToLearn == IF Locked THEN list.todo ELSE {}

\* The others are the node's pods whose interval, in the list, holds the instant p was bound: a list
\* that has p finished has all of them.
Occupancy(p) == IF node[p] \in sized THEN system[node[p]] + 1 + Cardinality(beside[p]) ELSE 0

\* Load.points: the runtimes kept of timed pods, where the node's cores were known.
Points(entries) == {entry \in Range(entries) : entry.pod \in Timed /\ entry.occ # 0}

\* What Load.record may leave as a slowdown that was a: fit_slowdown comes to anything, once there are
\* enough points and the occupancy varies within a task.
Fits(a, entries) ==
    LET points == Points(entries)
        spread == \E e, f \in points : TaskOf[e.pod] = TaskOf[f.pod] /\ e.occ # f.occ
    IN  {a} \cup IF Cardinality(points) >= MinLoaded /\ spread THEN Grid ELSE {}

\* Load.history of p's node with p.
Recorded(p) == Append(history[node[p]], [pod |-> p, occ |-> Occupancy(p)])

\* finished and learn_alone, for one pod of the list.
Learn(p) ==
    /\ p \in ToLearn
    /\ LET n == node[p]
           entries == Recorded(p)
       IN  \E a \in (IF p \in Timed THEN Fits(slowdown[n], entries) ELSE {slowdown[n]}) :
              /\ slowdown' = [slowdown EXCEPT ![n] = a]
              /\ history' = [history EXCEPT ![n] = entries]
              /\ known' = IF a # slowdown[n] THEN Relearned(known, n, entries, a)
                          ELSE Update(known, n, p, Divisor(a, Last(entries)))
    /\ seen' = seen \cup {p}
    /\ list' = [list EXCEPT !.todo = @ \ {p}]
    /\ UNCHANGED <<pods, snapshot, sized, system, started, running, raised>>

\* learn_alone whose update raises after Load.record has kept the runtime.
RaisesLate(p) ==
    /\ p \in ToLearn
    /\ raised < MaxRaised
    /\ raised' = raised + 1
    /\ history' = [history EXCEPT ![node[p]] = Recorded(p)]
    /\ list' = [list EXCEPT !.todo = @ \ {p}]
    /\ UNCHANGED <<pods, snapshot, sized, system, slowdown, started, running, seen, known>>

\* Learning from p raises before its first change: p waits for the next read.
Raises(p) ==
    /\ p \in ToLearn
    /\ raised < MaxRaised
    /\ raised' = raised + 1
    /\ list' = [list EXCEPT !.todo = @ \ {p}]
    /\ UNCHANGED <<pods, snapshot, load, started, running, seen, known>>

EndRead ==
    /\ Locked /\ ToLearn = {}
    /\ list' = NoList
    /\ UNCHANGED <<pods, snapshot, load, started, running, seen, known, raised>>

Next ==
    \/ Decide \/ Poll \/ BeginRead \/ EndRead
    \/ \E p \in Pod : Snapshot(p) \/ PlaceUnseen(p) \/ Finish(p) \/ Learn(p) \/ Raises(p)

Spec == Init /\ [][Next]_vars

-----------------------------------------------------------------------------
(* Properties.                                                             *)

Slowdown == Grid \cup {Fixed}

Entry == [pod : Pod, by : Slowdown \cup {Unslowed}]

Measure == [pod : Pod, occ : Nat]

\* The shape of the state; the pod of a decision under way is pending, and only pods that have finished
\* were learned from, or are about to be.
TypeOK ==
    /\ pod \in [Pod -> {"pending", "running", "succeeded"}]
    /\ node \in [Pod -> Node \cup {NoNode}]
    /\ \A p \in Pod : node[p] = NoNode <=> pod[p] = "pending"
    /\ beside \in [Pod -> SUBSET Pod]
    /\ snapshot # NoSnapshot =>
          /\ snapshot.pod \in Pod /\ pod[snapshot.pod] = "pending"
          /\ DOMAIN snapshot.requested \subseteq Node
          /\ \A n \in DOMAIN snapshot.requested : snapshot.requested[n] \in Nat
    /\ started \in BOOLEAN
    /\ list # NoList =>
          /\ list \in [todo : SUBSET Pod, running : SUBSET Pod, reading : BOOLEAN]
          /\ \A p \in list.todo : pod[p] = "succeeded"
          /\ \A p \in list.running : pod[p] # "pending"
    /\ seen \subseteq Pod /\ \A p \in seen : pod[p] = "succeeded"
    /\ running \subseteq Pod /\ \A p \in running : pod[p] # "pending"
    /\ sized \in SUBSET Node /\ system \in [Node -> Nat]
    /\ slowdown \in [Node -> Slowdown]
    /\ history \in [Node -> Seq(Measure)]
    /\ known \in [Task -> [Node -> [own : Seq(Entry), taken : SUBSET Entry]]]
    /\ raised \in 0 .. MaxRaised

\* The runtimes kept of a task on a node, in their order.
OfTask(n, t) ==
    LET keep(kept, entry) == IF TaskOf[entry.pod] = t THEN Append(kept, entry) ELSE kept
    IN  FoldLeft(keep, <<>>, history[n])

\* test_slowdown.py:69-70, of each node's own runtimes: whenever the slowdown moved, what a node's
\* estimates were updated with is every runtime kept for the task there, in its order, each
\* divided by the node's last slowdown, "as if it had been known from the start".
EstimatesFollowSlowdown ==
    \A t \in Task, n \in Node :
        LET h == OfTask(n, t)
        IN  known[t][n].own =
                [i \in DOMAIN h |-> [pod |-> h[i].pod, by |-> Divisor(slowdown[n], h[i])]]

\* The places where the history of a node has p.
Kept(p) == {k \in Node \X UNION {DOMAIN history[n] : n \in Node} :
               k[2] \in DOMAIN history[k[1]] /\ history[k[1]][k[2]].pod = p}

\* kaptain.py:321-330: a pod whose learning raised is tried again, is kept once in the end, and no pod is
\* kept that is not seen.
KeptOnce == \A p \in Pod : Cardinality(Kept(p)) = IF p \in seen THEN 1 ELSE 0

\* kaptain.py:174-182: what a node is taken to run outside the experiment is never less than what it runs,
\* however far the pod list lags the snapshot, or the snapshot the list.
SystemCoversOthers == \A n \in Node : system[n] # 0 => system[n] >= Base[n]

\* kaptain.py:167-169, "none divided by an alpha since revised", of all an estimate holds, what it took over
\* from another node included.
NoOldSlowdown ==
    \A t \in Task, n \in Node :
        \A entry \in Range(known[t][n].own) \cup known[t][n].taken :
            entry.by \in {Unslowed, slowdown[node[entry.pod]]}
=============================================================================
