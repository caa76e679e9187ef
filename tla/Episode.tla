---------------------------------- MODULE Episode ----------------------------------
(***************************************************************************)
(* What Kaptain learns a training run from (bridge/strategies/kaptain.py): *)
(* the samples its observer takes of the pods (class Cluster), the CPU it  *)
(* reads in the background, and the rewards it makes of them (discounted,  *)
(* transitions). Learner has the other side: which runs the network and    *)
(* the estimates learn from, and when.                                     *)
(*                                                                         *)
(* A step of the clock is the two seconds between two polls. The discount  *)
(* is any whole numbers that follow the law of exp(-kappa t), in a unit in *)
(* which every discounted quantity is exact: with a half-life of a step,   *)
(* 2^-t in units of 2^-MaxTime (and of 1 / kappa, an integral of it).      *)
(***************************************************************************)
EXTENDS Integers, Sequences, FiniteSets, FiniteSetsExt, Functions

CONSTANTS
    Pod,            \* the pods of the run
    Rate,           \* the CPU a pod may have used, in cores
    Limit,          \* its CPU limit, in cores
    Phi,            \* what the LLM may say of a state
    NoPhi,          \* the LLM failed
    NoList,
    Discount,       \* Discount[t]: exp(-kappa t)
    MaxTime         \* bound: the clock stops there

ASSUME EpisodeAssumption ==
    /\ IsFiniteSet(Pod) /\ MaxTime \in Nat
    /\ Rate \cup {Limit} \subseteq Nat
    /\ Phi \subseteq Int /\ NoPhi \notin Int

ASSUME DiscountAssumption ==
    /\ Discount \in [0 .. MaxTime -> Int]
    /\ \A s, t \in 0 .. MaxTime :
          s + t <= MaxTime => Discount[s] * Discount[t] = Discount[0] * Discount[s + t]

VARIABLES
    now,
    pod,            \* pod[p]: its phase, and when it was created, started and finished
    list,           \* the last list of pods read, and when it was polled
    polled,         \* the list the observer has polled and not read yet, if any
    last,           \* when the observer took its last sample
    samples,        \* cluster.samples: time, time since the last, unfinished pods
    seen,           \* cluster.seen
    reading,        \* the pods whose log is being read
    used,           \* cluster.used: the pods whose CPU is known, and their rate
    episode,        \* the decisions: their time and their Phi
    settling,       \* the settle call: none, polled, read, closed or learned
    fresh,          \* the list settle polled and has not read yet, if any
    given,          \* what the learner is given: samples, CPU, reads to wait for, the end of the episode
    complete,       \* whether every pod had finished when kexp settled (history)
    unseen          \* how long pods had come or gone without the observer's list saying so (history)

observed == <<list, last, samples, seen, reading>>
call     == <<settling, fresh, complete, given>>
vars == <<now, pod, observed, polled, used, episode, call, unseen>>

Absent == [phase |-> "none", created |-> 0, started |-> 0, finished |-> 0]

Ended == {"succeeded", "failed"}

Came(phase) == {p \in Pod : phase[p] # "none"}
Left(phase) == {p \in Pod : phase[p] \in Ended}

Unfinished(phase) == Came(phase) \ Left(phase)

Phases == [p \in Pod |-> pod[p].phase]

Init ==
    /\ now = 0
    /\ pod = [p \in Pod |-> Absent]
    /\ list = [phase |-> Phases, at |-> 0]
    /\ polled = NoList
    /\ last = 0 /\ samples = <<>>
    /\ seen = {} /\ reading = {} /\ used = <<>>
    /\ episode = <<>>
    /\ settling = "none" /\ fresh = NoList /\ complete = FALSE
    /\ given = [samples |-> <<>>, reading |-> {}, used |-> <<>>, end |-> 0]
    /\ unseen = 0

-----------------------------------------------------------------------------
(* The cluster and the decisions.                                          *)

Tick ==
    /\ now < MaxTime
    /\ settling # "learned"
    /\ now' = now + 1
    /\ UNCHANGED <<pod, observed, polled, used, episode, call, unseen>>

Arrives(p) ==
    /\ pod[p].phase = "none" /\ settling = "none"
    /\ pod' = [pod EXCEPT ![p].phase = "pending", ![p].created = now]
    /\ UNCHANGED <<now, observed, polled, used, episode, call, unseen>>

\* scores: the decision is kept with its time and its Phi, which the LLM gives, or not, in the background.
Decides(p) ==
    /\ pod[p].phase = "pending" /\ settling = "none"
    /\ pod' = [pod EXCEPT ![p].phase = "running", ![p].started = now]
    /\ \E phi \in Phi \cup {NoPhi} : episode' = Append(episode, [time |-> now, phi |-> phi])
    /\ UNCHANGED <<now, observed, polled, used, call, unseen>>

Finishes(p) ==
    /\ pod[p].phase = "running"
    /\ \E phase \in Ended : pod' = [pod EXCEPT ![p].phase = phase, ![p].finished = now]
    /\ UNCHANGED <<now, observed, polled, used, episode, call, unseen>>

-----------------------------------------------------------------------------
(* The observer.                                                           *)

\* Bound: the observer goes on for ever, but nothing it takes later is of this run.
Observes == settling \notin {"closed", "learned"}

Poll ==
    /\ polled = NoList
    /\ now > last /\ Observes
    /\ polled' = [phase |-> Phases, at |-> now]
    /\ UNCHANGED <<now, pod, observed, used, episode, call, unseen>>

\* How many pods came or went, of the last list and these.
Changes(phase) ==
    Cardinality(SymDiff(Came(phase), Came(list.phase))) + Cardinality(SymDiff(Left(phase), Left(list.phase)))

\* Cluster.read: each pod found succeeded for the first time has its CPU read.
Reads(found) ==
    LET new == {p \in Pod : found.phase[p] = "succeeded"} \ seen
    IN  /\ list' = found
        /\ seen' = seen \cup new
        /\ reading' = reading \cup new
        /\ unseen' = unseen + Changes(found.phase) * (now - Min({found.at, list.at}))

Sample ==
    samples' = Append(samples, [time |-> now, dt |-> now - last,
                                count |-> Cardinality(Unfinished(list'.phase))])

\* The list is read, and the sample taken, under one lock.
ReadsPoll ==
    /\ polled # NoList
    /\ Reads(polled)
    /\ Sample
    /\ last' = now
    /\ polled' = NoList
    /\ UNCHANGED <<now, pod, used, episode, call>>

\* PollFails that waits for the next poll to count the time.
CountsTwice ==
    /\ polled = NoList
    /\ now > last /\ Observes
    /\ UNCHANGED list
    /\ Sample
    /\ UNCHANGED <<now, pod, polled, last, seen, reading, used, episode, call, unseen>>

\* The API missed once: the last count stands, for this time too.
PollFails ==
    /\ polled = NoList
    /\ now > last /\ Observes
    /\ UNCHANGED list
    /\ Sample
    /\ last' = now
    /\ UNCHANGED <<now, pod, polled, seen, reading, used, episode, call, unseen>>

\* used_cpu: what the pod's log says, or its limit when there is no such line.
ReadsLog(p) ==
    /\ p \in reading
    /\ reading' = reading \ {p}
    /\ \E rate \in Rate \cup {Limit} :
          used' = Append(used, [pod |-> p, time |-> pod[p].finished, dt |-> pod[p].finished - pod[p].started,
                                count |-> rate])
    /\ UNCHANGED <<now, pod, list, polled, last, samples, seen, episode, call, unseen>>

-----------------------------------------------------------------------------
(* Settling.                                                               *)

\* kexp settles a run once its pods have finished, or its time is up; refresh polls, then reads.
Settles ==
    /\ settling = "none" /\ episode # <<>>
    /\ settling' = "polled"
    /\ fresh' = [phase |-> Phases, at |-> now]
    /\ complete' = (Unfinished(Phases) = {})
    /\ UNCHANGED <<now, pod, observed, polled, used, episode, given, unseen>>

Refreshes ==
    /\ settling = "polled"
    /\ settling' = "read"
    /\ Reads(fresh)
    /\ fresh' = NoList
    /\ UNCHANGED <<now, pod, last, samples, polled, used, episode, complete, given>>

\* close: the samples of the episode, and the reads under way.
Closes ==
    /\ settling = "read"
    /\ settling' = "closed"
    /\ given' = [samples |-> Restrict(samples, {i \in DOMAIN samples : samples[i].time > episode[1].time}),
                 reading |-> reading, used |-> <<>>, end |-> now]
    /\ unseen' = unseen + Changes(Phases) * (now - list.at)
    /\ UNCHANGED <<now, pod, observed, polled, used, episode, fresh, complete>>

\* Learns without the CPU that is still being read.
LearnsAtOnce ==
    /\ settling = "closed"
    /\ settling' = "learned"
    /\ given' = [given EXCEPT !.used = used]
    /\ UNCHANGED <<now, pod, observed, polled, used, episode, fresh, complete, unseen>>

\* learn_safely waits for the reads close found under way.
Learns ==
    /\ settling = "closed"
    /\ given.reading \cap reading = {}
    /\ settling' = "learned"
    /\ given' = [given EXCEPT !.used = used]
    /\ UNCHANGED <<now, pod, observed, polled, used, episode, fresh, complete, unseen>>

Next ==
    \/ Tick
    \/ \E p \in Pod : Arrives(p) \/ Decides(p) \/ Finishes(p) \/ ReadsLog(p)
    \/ Poll \/ ReadsPoll \/ PollFails
    \/ Settles \/ Refreshes \/ Closes \/ Learns

Spec == Init /\ [][Next]_vars

-----------------------------------------------------------------------------
(* The rewards.                                                            *)

Larger(a, b)  == IF a > b THEN a ELSE b
Smaller(a, b) == IF a < b THEN a ELSE b

\* The integral of what the samples count over [start, stop], discounted to start.
Discounted(sampled, start, stop) ==
    LET from(s) == Larger(s.time - s.dt, start)
        to(s)   == Smaller(s.time, stop)
    IN  SumFunction([i \in DOMAIN sampled |->
            LET s == sampled[i]
            IN  IF to(s) > from(s) THEN s.count * (Discount[from(s) - start] - Discount[to(s) - start]) ELSE 0])

\* Bonus that forgets to discount what follows.
Undiscounted(phi, following, discount) ==
    IF NoPhi \in {phi, following} THEN 0 ELSE Discount[0] * following - Discount[0] * phi

\* Without its Phi, or that of the next state, a transition goes without its bonus.
Bonus(phi, following, discount) ==
    IF NoPhi \in {phi, following} THEN 0 ELSE discount * following - Discount[0] * phi

\* Per decision: the cost until the next one, discounted to it, and the discount to the next. The last one
\* runs to the end, and nothing follows.
Transitions ==
    [k \in DOMAIN episode |->
        LET over     == k = Len(episode)
            start    == episode[k].time
            stop     == IF over THEN given.end ELSE episode[k + 1].time
            discount == IF over THEN 0 ELSE Discount[stop - start]
        IN  [delay |-> Discounted(given.samples, start, stop),
             cpu   |-> Discounted(given.used, start, stop),
             bonus |-> Bonus(episode[k].phi, IF over THEN 0 ELSE episode[k + 1].phi, discount)]]

-----------------------------------------------------------------------------
(* Properties.                                                             *)

Learned == settling = "learned"

\* What a complete run learns the CPU of is every pod that succeeded, once (finished, close, learn_safely,
\* kaptain.py:327-339 and 671-690): logs are read by other threads, in any order, while the run is closed.
CpuCharged ==
    Learned /\ complete =>
        \A p \in Pod :
            Cardinality({i \in DOMAIN given.used : given.used[i].pod = p})
                = IF pod[p].phase = "succeeded" THEN 1 ELSE 0

Began == episode[1].time

\* The sum of a field of the transitions, each discounted to the first decision.
Return(of) == SumFunction([k \in DOMAIN episode |-> Discount[episode[k].time - Began] * of[k]])

\* What the policy maximizes, the return of its rewards, is the run's own cost whatever the decisions' times
\* (transitions, kaptain.py:692-711): the pods' time and CPU from the first decision to the end, discounted
\* once, none of it twice; and the bonus adds what no decision can change, when the LLM failed for none.
ReturnIsCost ==
    Learned =>
        /\ Return([k \in DOMAIN episode |-> Transitions[k].delay])
               = Discount[0] * Discounted(given.samples, Began, given.end)
        /\ Return([k \in DOMAIN episode |-> Transitions[k].cpu])
               = Discount[0] * Discounted(given.used, Began, given.end)
        /\ (\A k \in DOMAIN episode : episode[k].phi # NoPhi) =>
               Return([k \in DOMAIN episode |-> Transitions[k].bonus])
                   = -(Discount[0] * Discount[0] * episode[1].phi)

Overlap(from, to) == Larger(0, Smaller(to, given.end) - Larger(from, Began))

Sampled == SumFunction([i \in DOMAIN given.samples |->
               LET s == given.samples[i] IN s.count * Overlap(s.time - s.dt, s.time)])

Lived == SumFunction([p \in {q \in Pod : pod[q].phase # "none"} |-> Overlap(pod[p].created, pod[p].finished)])

\* The time the samples count for a complete run is the time its pods spent in the cluster (loop, read,
\* kaptain.py:257-274): it is off by no more than pods had come or gone unseen, however many polls fail
\* in between, or are read late or after a newer one.
CostIsRuns == Learned /\ complete => Sampled - Lived \in -unseen .. unseen
================================================================================
