-------------------------------- MODULE Collectors --------------------------------
(***************************************************************************)
(* The measured part of a run of kexp (workloads/kexp.py: run_pods, the    *)
(* threads it starts, collect and report). The main thread opens a watch,  *)
(* submits the pods as they arrive and waits for them; one thread stamps   *)
(* every change the watch streams with the runner's clock, one per node    *)
(* samples its kubelet. Around them: the pods live in the cluster, the     *)
(* watch delays and loses events, kubectl fails, the job is cancelled.     *)
(*                                                                         *)
(* A sample's content is left out here (Report reads it), and so are the   *)
(* settle calls around the run (Training) and its namespace (Operations).  *)
(* A call of kubectl takes less than a step of the clock, or fails. The    *)
(* probe exists while the run waits for its watch; that it is deleted then *)
(* is left out, for the watcher drops every event of the probe.            *)
(***************************************************************************)
EXTENDS Report

CONSTANTS
    Probe,          \* WATCH_PROBE, not one of the pods
    Experiments,    \* the arrival sections of the experiments
    Nodes,          \* the nodes sampled
    Delay,          \* how long the open watch may hold back an event
    OpenWait,       \* how long a run waits for its watch to open
    Timeout,        \* timeout_s of the experiment
    MaxTime         \* bound: the clock stops there

ASSUME CollectorsAssumption ==
    /\ Delay \in Nat /\ OpenWait \in Nat /\ Timeout \in Nat /\ MaxTime \in Nat
    /\ Timeout <= MaxTime
    /\ Probe \notin Nat /\ Empty \notin Nat /\ Empty # Probe /\ Empty # "node"
    /\ \A a \in Experiments :
          /\ ArrivalTimes(a) \in Seq(Nat) /\ ArrivalTimes(a) # <<>>
          /\ \A i \in DOMAIN ArrivalTimes(a) : OpenWait + ArrivalTimes(a)[i] <= MaxTime

VARIABLES
    now,
    arrival,        \* the experiment's arrival times: the pods are 1 .. Len(arrival)
    pod,            \* pod[p]: its phase, and when it was created, bound and finished
    link,           \* the watch: opening, open or closed
    stream,         \* the events sent and not read yet
    rows,           \* watch.csv
    opened,         \* the event opened: the probe was seen
    watcher,        \* the thread of watch_pods: reading or done
    sampler,        \* sampler[n]: waiting, asking or done
    stage,          \* where the main thread is
    since,          \* when it came there
    waiting,        \* the pods not submitted yet
    status,         \* meta["status"], from when wait returns
    cancelled,      \* the job was cancelled at least once
    listed          \* what pods.json lists, if it was collected

watch    == <<link, stream>>
reader   == <<rows, opened, watcher>>
runner   == <<stage, since, waiting, status, cancelled>>
vars == <<now, arrival, pod, watch, reader, sampler, runner, listed>>

Pods == DOMAIN arrival

Unborn == [phase |-> "none", created |-> 0, bound |-> 0, finished |-> 0]

\* run_pods starts the threads, and the clock of its deadline.
Init ==
    /\ now = 0
    /\ arrival \in {ArrivalTimes(a) : a \in Experiments}
    /\ pod = [p \in Pods |-> Unborn]
    /\ link = "opening" /\ stream = <<>>
    /\ rows = <<>> /\ opened = FALSE /\ watcher = "reading"
    /\ sampler = [n \in Nodes |-> "waiting"]
    /\ stage = "probing" /\ since = 0 /\ waiting = Pods
    /\ status = "aborted" /\ cancelled = FALSE
    /\ listed = Missing

Phases == {"none", "pending", "bound", "succeeded", "failed"}

Created  == {p \in Pods : pod[p].phase # "none"}
Placed   == {p \in Pods : pod[p].phase \in {"bound", "succeeded", "failed"}}
Finished == {p \in Pods : pod[p].phase \in {"succeeded", "failed"}}

Running == {"probing", "confirming", "submitting", "waiting"}

\* Stopped if stop were set after the samplers are joined.
StopsLate == stage \notin Running \cup {"joining"}

\* finally: stop is set first, whatever ended the run.
Stopped == stage \notin Running

\* Due on the clock of the whole run, not of its submission.
DueSinceStart == {p \in waiting : arrival[p] <= now}

\* The pods that have arrived, of those that wait to be submitted.
Due == {p \in waiting : arrival[p] <= now - since}

\* The main thread has something to do before the clock goes on.
Busy ==
    \/ stage = "probing"
    \/ stage = "confirming" /\ (opened \/ now - since >= OpenWait)
    \/ stage = "submitting" /\ Due # {}

-----------------------------------------------------------------------------
(* The API server: pods and their watch.                                   *)

Event(type, p, node) == [event |-> type, pod |-> p, node |-> node, time |-> now]

Sends(events) == stream' = IF link = "open" THEN stream \o events ELSE stream

\* Time passes; the watch holds nothing back longer than Delay.
Tick ==
    /\ now < MaxTime
    /\ stage # "over" /\ ~Busy
    /\ \A i \in DOMAIN stream : now - stream[i].time < Delay
    /\ now' = now + 1
    /\ UNCHANGED <<arrival, pod, watch, reader, sampler, runner, listed>>

\* The watch starts with the pods there are, each as it is.
Opens ==
    /\ link = "opening"
    /\ link' = "open"
    /\ LET there == SetToSeq(Created)
           seen  == [i \in DOMAIN there |-> Event("ADDED", there[i], IF there[i] \in Placed THEN "node" ELSE Empty)]
       IN  stream' = (IF stage = "confirming" THEN <<Event("ADDED", Probe, Empty)>> ELSE <<>>) \o seen
    /\ UNCHANGED <<now, arrival, pod, reader, sampler, runner, listed>>

\* It never opened, the server ends it, or it breaks with what was on its way.
Breaks ==
    /\ link # "closed"
    /\ link' = "closed"
    /\ \E n \in 0 .. Len(stream) : stream' = SubSeq(stream, 1, n)
    /\ UNCHANGED <<now, arrival, pod, reader, sampler, runner, listed>>

Bind(p) ==
    /\ stage # "over"
    /\ pod[p].phase = "pending"
    /\ pod' = [pod EXCEPT ![p].phase = "bound", ![p].bound = now]
    /\ Sends(<<Event("MODIFIED", p, "node")>>)
    /\ UNCHANGED <<now, arrival, link, reader, sampler, runner, listed>>

Finish(p) ==
    /\ stage # "over"
    /\ pod[p].phase = "bound"
    /\ \E phase \in {"succeeded", "failed"} : pod' = [pod EXCEPT ![p].phase = phase, ![p].finished = now]
    /\ Sends(<<Event("MODIFIED", p, "node")>>)
    /\ UNCHANGED <<now, arrival, link, reader, sampler, runner, listed>>

-----------------------------------------------------------------------------
(* The watcher and the samplers.                                           *)

ReadsEvent ==
    /\ watcher = "reading" /\ stream # <<>>
    /\ stream' = Tail(stream)
    /\ IF Head(stream).pod = Probe
       THEN opened' = TRUE /\ rows' = rows
       ELSE rows' = Append(rows, [Head(stream) EXCEPT !.time = now]) /\ opened' = opened
    /\ UNCHANGED <<now, arrival, pod, link, watcher, sampler, runner, listed>>

\* The end of the stream is noted when the run had not ended.
ReaderEnds ==
    /\ watcher = "reading" /\ stream = <<>> /\ link = "closed"
    /\ watcher' = "done"
    /\ rows' = IF Stopped THEN rows ELSE Append(rows, Event("ENDED", Empty, Empty))
    /\ UNCHANGED <<now, arrival, pod, watch, opened, sampler, runner, listed>>

\* A sample is asked for every five seconds, and waited for; one missed writes no row.
Asks(n) ==
    /\ sampler[n] = "waiting"
    /\ ~Stopped
    /\ sampler' = [sampler EXCEPT ![n] = "asking"]
    /\ UNCHANGED <<now, arrival, pod, watch, reader, runner, listed>>

Answers(n) ==
    /\ sampler[n] = "asking"
    /\ sampler' = [sampler EXCEPT ![n] = "waiting"]
    /\ UNCHANGED <<now, arrival, pod, watch, reader, runner, listed>>

SamplerEnds(n) ==
    /\ sampler[n] = "waiting"
    /\ Stopped
    /\ sampler' = [sampler EXCEPT ![n] = "done"]
    /\ UNCHANGED <<now, arrival, pod, watch, reader, runner, listed>>

-----------------------------------------------------------------------------
(* The main thread.                                                        *)

\* since is when the wait for the watch began, then when the submission did.
GoesTo(next) ==
    /\ stage' = next
    /\ since' = IF next \in {"confirming", "submitting"} THEN now ELSE 0

\* Out of the run into its finally; what submit still had to create goes with it.
Leaves == GoesTo("joining") /\ waiting' = {}

CreatesProbe ==
    /\ stage = "probing"
    /\ Sends(<<Event("ADDED", Probe, Empty)>>)
    /\ GoesTo("confirming")
    /\ UNCHANGED <<now, arrival, pod, link, reader, sampler, waiting, status, cancelled, listed>>

\* Confirms that does not wait for the probe to be streamed.
ConfirmsUnseen ==
    /\ stage = "confirming"
    /\ GoesTo("submitting")
    /\ UNCHANGED <<now, arrival, pod, watch, reader, sampler, waiting, status, cancelled, listed>>

Confirms ==
    /\ stage = "confirming"
    /\ opened
    /\ GoesTo("submitting")
    /\ UNCHANGED <<now, arrival, pod, watch, reader, sampler, waiting, status, cancelled, listed>>

\* RuntimeError: the pod watch streamed nothing.
GivesUpWatch ==
    /\ stage = "confirming"
    /\ ~opened /\ now - since >= OpenWait
    /\ Leaves
    /\ UNCHANGED <<now, arrival, pod, watch, reader, sampler, status, cancelled, listed>>

Creates(new) ==
    LET order == SetToSeq(new)
    IN  /\ pod' = [p \in Pods |-> IF p \in new THEN [Unborn EXCEPT !.phase = "pending", !.created = now] ELSE pod[p]]
        /\ Sends([i \in DOMAIN order |-> Event("ADDED", order[i], Empty)])

\* Submits that forgets the first of those due.
SubmitsAgain ==
    /\ stage = "submitting"
    /\ Due # {}
    /\ Creates(Due)
    /\ waiting' = waiting \ {Min(Due)}
    /\ IF waiting' = {} THEN GoesTo("waiting") ELSE UNCHANGED <<stage, since>>
    /\ UNCHANGED <<now, arrival, link, reader, sampler, status, cancelled, listed>>

\* Pods due together go in one request.
Submits ==
    /\ stage = "submitting"
    /\ Due # {}
    /\ Creates(Due)
    /\ waiting' = waiting \ Due
    /\ IF waiting' = {} THEN GoesTo("waiting") ELSE UNCHANGED <<stage, since>>
    /\ UNCHANGED <<now, arrival, link, reader, sampler, status, cancelled, listed>>

Completes ==
    /\ stage = "waiting"
    /\ Finished = Pods
    /\ status' = "complete"
    /\ Leaves
    /\ UNCHANGED <<now, arrival, pod, watch, reader, sampler, cancelled, listed>>

\* The deadline is looked at only when a check found unfinished pods.
TimesOut ==
    /\ stage = "waiting"
    /\ Finished # Pods /\ now >= Timeout
    /\ status' = "timeout"
    /\ Leaves
    /\ UNCHANGED <<now, arrival, pod, watch, reader, sampler, cancelled, listed>>

\* A call of kubectl raises, with or without its effect; creating a list may stop at any of its pods.
CallRaises ==
    /\ \/ stage = "probing" /\ UNCHANGED <<pod, stream>>
       \/ stage = "confirming" /\ opened /\ UNCHANGED <<pod, stream>>
       \/ stage = "submitting" /\ Due # {} /\ \E new \in SUBSET Due : Creates(new)
       \/ stage = "waiting" /\ UNCHANGED <<pod, stream>>
    /\ Leaves
    /\ UNCHANGED <<now, arrival, link, reader, sampler, status, cancelled, listed>>

\* The samplers are joined before their files close; then the watch is terminated, with what was on its way.
JoinsSamplers ==
    /\ stage = "joining"
    /\ \A n \in Nodes : sampler[n] = "done"
    /\ link' = "closed"
    /\ \E n \in 0 .. Len(stream) : stream' = SubSeq(stream, 1, n)
    /\ GoesTo("closing")
    /\ UNCHANGED <<now, arrival, pod, reader, sampler, waiting, status, cancelled, listed>>

JoinsWatcher ==
    /\ stage = "closing"
    /\ watcher = "done"
    /\ GoesTo("collecting")
    /\ UNCHANGED <<now, arrival, pod, watch, reader, sampler, waiting, status, cancelled, listed>>

\* collect never raises: a file that cannot be collected is absent.
CollectsSome == listed' \in {Missing, [p \in Created |-> pod[p]]}

\* A cancelled run is collected, not reported.
Collects ==
    /\ stage = "collecting"
    /\ CollectsSome
    /\ GoesTo(IF cancelled THEN "over" ELSE "reporting")
    /\ UNCHANGED <<now, arrival, pod, watch, reader, sampler, waiting, status, cancelled>>

Reports ==
    /\ stage = "reporting"
    /\ GoesTo("over")
    /\ UNCHANGED <<now, arrival, pod, watch, reader, sampler, waiting, status, cancelled, listed>>

\* SIGTERM raises SystemExit in the main thread, wherever it is: out of the run into its finally, out of
\* the finally (and what wait returned is lost) into the collection, out of that to the end.
Cancelled ==
    /\ cancelled' = TRUE
    /\ \/ stage \in Running /\ Leaves /\ UNCHANGED <<status, listed>>
       \/ stage \in {"joining", "closing"} /\ GoesTo("collecting") /\ status' = "aborted" /\ UNCHANGED <<waiting, listed>>
       \/ stage = "collecting" /\ CollectsSome /\ GoesTo("over") /\ UNCHANGED <<waiting, status>>
       \/ stage = "reporting" /\ GoesTo("over") /\ UNCHANGED <<waiting, status, listed>>
    /\ UNCHANGED <<now, arrival, pod, watch, reader, sampler>>

Main ==
    \/ CreatesProbe \/ Confirms \/ GivesUpWatch \/ Submits \/ Completes \/ TimesOut
    \/ JoinsSamplers \/ JoinsWatcher \/ Collects \/ Reports

Next ==
    \/ Tick \/ Opens \/ Breaks
    \/ \E p \in Pods : Bind(p) \/ Finish(p)
    \/ ReadsEvent \/ ReaderEnds
    \/ \E n \in Nodes : Asks(n) \/ Answers(n) \/ SamplerEnds(n)
    \/ Main
    \/ CallRaises
    \/ Cancelled

Spec == Init /\ [][Next]_vars

\* The threads go on and every call ends. Nothing need ever be placed or finish, and the server is sure to
\* end the watch (timeoutSeconds) only for a process that is left with it.
Fairness ==
    /\ WF_vars(Tick)
    /\ WF_vars(ReadsEvent) /\ WF_vars(ReaderEnds)
    /\ \A n \in Nodes : WF_vars(Answers(n)) /\ WF_vars(SamplerEnds(n))
    /\ WF_vars(Main)
    /\ WF_vars(stage = "over" /\ Breaks)

FairSpec == Spec /\ Fairness

-----------------------------------------------------------------------------
(* Properties.                                                             *)

Stages == Running \cup {"joining", "closing", "collecting", "reporting", "over"}

InTime(t) == t \in 0 .. now

\* The state of the run: a pod is created once, after the others are (submit, kexp.py:252-264), and what
\* it goes through follows; a run that stopped submits nothing more.
TypeOK ==
    /\ now \in 0 .. MaxTime
    /\ arrival \in {ArrivalTimes(a) : a \in Experiments}
    /\ pod \in [Pods -> [phase : Phases, created : Nat, bound : Nat, finished : Nat]]
    /\ \A p \in Pods :
          /\ p \in Created => InTime(pod[p].created)
          /\ p \in Placed => pod[p].bound \in pod[p].created .. now
          /\ p \in Finished => pod[p].finished \in pod[p].bound .. now
    /\ link \in {"opening", "open", "closed"}
    /\ opened \in BOOLEAN /\ watcher \in {"reading", "done"}
    /\ sampler \in [Nodes -> {"waiting", "asking", "done"}]
    /\ stage \in Stages /\ InTime(since)
    /\ waiting = CASE stage \in {"probing", "confirming"} -> Pods
                   [] stage = "submitting" -> Pods \ Created
                   [] OTHER -> {}
    /\ status \in {"aborted", "complete", "timeout"} /\ cancelled \in BOOLEAN

FirstRows == {i \in DOMAIN rows : rows[i].pod \in Pods /\ \A j \in 1 .. i - 1 : rows[j].pod # rows[i].pod}

\* Once the probe was seen, every pod is seen as it happens (confirm_watch, kexp.py:300-303): the first
\* the watch says of a pod is that it was created, not placed yet, and no later than the stream's delay.
SeenAsItHappens ==
    \A i \in FirstRows :
        /\ rows[i].event = "ADDED" /\ rows[i].node = Empty
        /\ rows[i].time - pod[rows[i].pod].created \in 0 .. Delay

Reported == stage = "over" /\ ~cancelled

Printed == Figures(listed, rows, Pods)

Near(figure, truth) == figure - truth \in -Delay .. Delay

\* What the report prints is true of the run (report, placement_waits, makespan), whatever was lost on the
\* way: a wait is each pod's own, up to the delay of the stream; a makespan is of a run whose pods all
\* succeeded; a run that completed has no pod unfinished.
ReportHonest ==
    Reported =>
        /\ Printed.placement \notin {Missing, Incomplete} =>
               \A p \in Pods : p \in Placed /\ Near(Printed.placement[p], pod[p].bound - pod[p].created)
        /\ Printed.makespan \notin {Missing, Incomplete} =>
               /\ \A p \in Pods : pod[p].phase = "succeeded"
               /\ \A p, q \in Pods : pod[q].finished - pod[p].created <= Printed.makespan
               /\ \E p, q \in Pods : pod[q].finished - pod[p].created = Printed.makespan
        /\ status = "complete" /\ Printed.counts # Missing => Printed.counts.unfinished = 0

\* Pods are created as the experiment has them arrive (submit, kexp.py:252-264): as long after each other,
\* to a step of the clock, whenever the submission began; those of one burst together.
ArrivalsKept == \A p, q \in Created : pod[p].created - pod[q].created = arrival[p] - arrival[q]

\* The process ends, with its threads, whatever fails, hangs up or is cancelled (run_pods, kexp.py:338-347):
\* nothing waits for a thread that waits for it.
RunEnds == <>(stage = "over" /\ watcher = "done")
================================================================================
