# Kaptain: a TLA+ verification project

Kaptain places Kubernetes pods with policies, among them one that learns. A scheduler
plugin (Go, `plugin/`) asks a *decider* (Python, `bridge/`) for node scores over HTTP,
falls back on free CPU when the answer is unusable, and writes one line per decision and
one per binding. `kexp` (Python, `workloads/kexp.py`) runs experiments against one
deployment and settles the learning policy before and after each; `campaign.sh` chains
runs, and `deploy-policy.sh` changes the deployed policy.

The modules here model the parts whose correctness depends on the order in which things
happen: who reads what and when, what fails in between, what a log line then claims. All
paths are relative to `src/`. Every definition that models code, and the lines it models,
is in `PROJECT.json` under `map`; what can go wrong, at its line, is there under `hazards`.

## 1. The system

| Component (sources) | State | Operations | Talks to |
|---|---|---|---|
| Decision path (`plugin/scoring`, `plugin/snapshot`, `cmd/kaptain-scheduler`) | strategy declared at startup, nonce and counter, one decision in the CycleState of each scheduling cycle | `agreeOnStrategy`, `PreScore` (`decide`), `Score`, `PostBind` | kube-scheduler's callbacks, decider client, telemetry, stdout |
| Fallback (`plugin/scoring/fallback.go`) | none | rank by free CPU, one-hot scores | decision path |
| Decider client (`plugin/decider`) | none | `Decide`, `Health`, each with a timeout | decider application |
| Telemetry collector (`plugin/telemetry`) | last samples under a lock; per sample when it was measured, received, first seen | `Start`/`refresh` on a ticker, `Get` | API server's list, one kubelet after another, decision path |
| Decider application (`bridge/app.py`) | the strategy built at startup | `/healthz`, `/decide`, `/settle` | policy |
| Stateless baselines (`bridge/strategies`) | none (a random one draws) | scores of a snapshot | application |
| Pod observer and estimates (class `Cluster`, `Estimates`) | pods seen, runtimes by kind of pod, node loads, samples of the unfinished pods, CPU used | `poll`, `read`, `refresh`, `used_cpu` | API server; policy, under its lock |
| Kaptain policy (class `Kaptain`) | open episode, last update, failure flag, two networks, kept estimates | `scores`, `close`, `learn`, `settle` | observer, a pool of one learner thread |
| kexp, life of a run (`workloads/kexp.py`) | `meta.json`: status, settled counts | `settle`, `wait`, `check_learned`, cancel, delete the namespace | decider's `/settle` through kubectl, API server |
| kexp, collectors and report | the threads of a run and the files they write: `watch.csv`, `telemetry.csv`, `pods.json` | `confirm_watch`, `submit`, `wait`, the watcher, the samplers, `collect`, `report` | API server and kubelets through kubectl |
| Campaign (`workloads/campaign.sh`) | plan of training, validation and evaluation runs | start the next run | kexp, deploy |
| Deployment (`deploy-policy.sh`) | the two Deployments, the image cache | deploy, roll back, finish | API server, containerd |
| Manifests, machines, workloads, tables and plots, `parsecheck`, `cluster_analyze` | none at run time | | |

What is hard in it:

* **Overlap.** Leader election is off and the Deployments roll, so two schedulers may run;
  their binding cycles run beside the next scheduling cycle; a pod may be decided by both.
* **A decider that changes under the caller.** It may be redeployed between snapshot,
  answer and reading; answers may be late, partial, out of bounds, or about nobody asked for.
* **Threads of the policy.** Decisions, settle calls, the observer's poll-then-read and the
  learner meet under two locks, with data read before a lock and used under it.
* **Failure.** Bind replies get lost; a process dies with binds in flight; an update raises
  before or after the optimizer's steps; a decider restarts and forgets; kubectl gives up on
  a settle call which goes on.
* **Time.** A kubelet that hangs delays the samples of every other node; one that freezes
  keeps answering with the same measurement; a pod that never finishes meets a deadline.
* **A stream that is not resumed.** A run's watch opens late or never, breaks anywhere and loses what was
  on its way; the threads that read it must be stopped in an order in which nobody waits for who waits for them.
* **A cost measured by sampling.** Polls fail, or are read after a newer one, and CPU is read by threads of its
  own while the run is being closed; what the policy learns from must be the run's cost all the same.
* **What the records claim.** A decision is labelled with a policy, a binding with an id, a
  checkpoint with a number of training runs: experiments are read from these lines.

What makes each part correct:

* decision path: a decision labelled with a policy and not marked as fallback was scored by
  it; ids join binding lines to decision lines, one to one; binding lines are true of the
  API server; every pod is placed whatever the decider does;
* fallback: it decides alone, on a node no candidate has more free CPU than, or its line names the nodes it could
  not read;
* baselines: a value that cannot be read never passes for a zero in what they answer;
* telemetry: a frozen source is refused in time, a steady node is not refused for another's sake;
* observer and policy: each runtime enters the estimates once, frozen runs see one network,
  no run goes on from a network that has not learned from the runs before, validations leave
  the estimates as they found them;
* slowed estimates: each runtime is kept once, and a node's estimates are what its last
  slowdown makes of the runtimes kept there;
* samples and rewards: the pods' time and CPU count once, however late or often they are read, and
  the rewards add up to them whenever the decisions came;
* a run: pods are created as they arrive and seen as it happens, what the report prints is
  true of the run or not printed, and the process ends;
* kexp and campaign: a run reported complete was learned from as its phase says, and a
  campaign ends;
* deployment and jobs: no scheduler works beside a decider of another policy, what a
  deployment reports is so, a run measures alone and under the policy it records.

## 2. The modules

| Module | Models | Proofs |
|---|---|---|
| `Scores` | pure operators: an answer as raw scores, `validScores`, best, winners, framework scores, the fallback's ranking | `SchedulingProofs` |
| `ScoreLoops` | the same computed as Go does, one iteration of a map's range at a time, in any order | `BaselinesProofs` |
| `Baselines` | the snapshot with what cannot be read, the policies that only rank, one decision through the loops of `ScoreLoops` | `BaselinesProofs` |
| `Scheduling` | schedulers, decider, deployments, bindings, lines | `SchedulingProofs` |
| `Placement` | abstract: what scheduling promises | `SchedulingProofs` |
| `Telemetry` | collector, kubelets, clock | `TelemetryProofs` |
| `Learner` | the policy, its observer and learner, the settle call | `TrainingProofs` |
| `Training` | kexp and campaign, composed with `Learner` | `TrainingProofs` |
| `Episode` | one training run as the policy learns it: samples, CPU reads, the closing of the episode, the rewards | `EpisodeProofs` |
| `SlowedEstimates` | the load of each node, its learned slowdown, the estimates divided by it | `SlowedEstimatesProofs` |
| `Deploy` | `deploy-policy.sh` and the two Deployments | `OperationsProofs` |
| `Operations` | kexp's checks, namespaces and cleanup, composed with `Deploy` | `OperationsProofs` |
| `Report` | pure operators: the arrival of every pod, and the report's figures from the files of a run | `CollectorsProofs` |
| `Collectors` | the measured part of a run: main thread, watcher, samplers, cluster and watch | `CollectorsProofs` |
| `MCScheduling`, `MCBaselines`, `MCTelemetry`, `MCTraining`, `MCSlowedEstimates`, `MCOperations`, `MCCollectors`, `MCEpisode` | the instances TLC checks | |

### Scheduling

`declared` and `deployed` are the policies of the two Deployments. `replicas` are those of the decider's pods, and
`serving` of the ones that are ready: `k8s/decider.yaml` names no strategy, so its Deployment rolls. `EditDecider` only
starts a rollout; `ReplicaReady`, `ReplicaStops` and `ReplicaRetires` come whenever they come, the last for a pod that
answers only once one of the deployed policy does, so that for a while the old one answers, or both.
`status`, `config`, `agreedAt`, `agreedAmong`, `counter` are a process: a process is named by its nonce,
and a restart is another member of `Scheduler`. `cycle[i]` is the scheduling cycle between
`PreScore` and the assumption of the pod: the snapshot's candidates and requests, the
answer, the decision. `attempt[i][p]` is a pod assumed and being bound. `bound`,
`decisions`, `bindings` are the API server's pods and the two kinds of lines on stdout.
`agreedAt` and `agreedAmong`, the edits and the replicas when a process agreed, and the `scorer` of an answer or
a decision are history, read only by properties.

One action per step at which another actor can intervene: `Start`, `Agree`,
`RefuseToStart`, `Crash`; `PreScore` (snapshot and id, up to the HTTP call),
`DeciderAnswers` (a replica that serves at that instant scores with its policy), `Decide`
(the answer is read, checked, and the line written), `CallFails` (timeout, refused
connection, error status, at any moment of the call), `SelectHost` (`Score`, and the host
kube-scheduler draws among the highest), `Bind` with `PostBind`, `BindConflict`,
`BindFails` (with or without effect at the API server), `AssumeOnly` (one candidate:
kube-scheduler calls no scoring plugin). The two Deployments are edited at any time, to any
policy; `deploy-policy.sh` is one way to do so. A scheduler that starts in the middle of a rollout may agree with
the replica that is leaving, and get mismatches with no edit since: `MismatchMeansRollout` says that this is the only way.

Abstractions. Scores are integers where the code has floats: only their order and the bound
are used; an answer with NaN or Inf stands with those out of bounds, which
`validScores` refuses for the same reason. A scheduler sees a binding as soon as it is made,
as does `PreScore`'s guard: there is no informer lag. Every pod requests one unit of
CPU; `Capacity` is what a node has of it, and the filter of admissible nodes is
kube-scheduler's, modelled as: any subset of the nodes with room. Nonces are fresh; the case where
`crypto/rand` fails and every process calls itself `unset` is left out. Memory, durations
and metrics are data no property tells apart.

### Placement

The abstract specification: every pod has a set of nodes on offer by each process, at
some moment announced and then discharged by one placement on one of them, at most one per
pod. `Scheduling` implements it with `offer` the winners of the current decision (or
the only candidate) and `placed` the API server's bindings: `PlacementKept` is that
refinement, checked by TLC as a property of `scheduling_overlap`.

### Scores and ScoreLoops

`Scores` says what the functions return (a set of winners, a mapping of scores).
`ScoreLoops` runs `Best` and `scoreCandidates`, one iteration after another over a
Go map in any order, with the partial maxima as state, and `LoopsCompute` says they end with
what `Scores` says. So `Scheduling` may use the operators.

### Baselines

One decision, from `cluster` (the candidates as they are, and what can be read of each) to the
framework scores. `NodeSnapshot` puts a zero and a missing feature where nothing can be read, as
`buildSnapshot` does; a telemetry sample that `Get` refuses is one such case. `Raises` and
`PolicyScores` are the policies that only rank: four on the snapshot, and the three of `kaptain.py` that
rank on what its observer knows of each node (`known`), the pod's runtime there if its task ran there, the work left and the
slowdown (whole numbers; "slowed-estimate" is both its variants). The policy "kaptain" stands for those that learn
and answers anything, or nothing. `Accept` and `FallBack`
are `decide`: an answer that is refused, whatever the reason, ends in the fallback, and so may a call that
failed. The loops of `ScoreLoops` then run on the scores. Since the code only compares scores, a ratio is
`Scale` times it, exactly, and the mean of two is their sum: the rounding of floats is left out. The FNV
hash of a seed and a task is any member of `Digest`: that a draw is the same twice is all that is said of it.
`Ready`, the ages and the number of pods ride along unread.

### Telemetry

Time is a count of units; `Tick` passes only where the code waits: for a tick, for the
list call, for a kubelet that is not steady, at most `Interval` for one request (its
timeout is the ticker's period). `timer` and `due` are Go's ticker: one tick buffered, more
dropped, and none before the first refresh is over. `Begin`, `List`, `ListFails`,
`Answer`, `Fails`, `Publish` are `refresh`: the nodes asked one by one in any order, a failed
request keeping the previous sample, and all samples replaced at once at the end.
`Served` is `Get`. `first` is history: when each measurement of a node first reached the
collector since the node was last absent. The list call has no timeout of its own, so
`MaxMisses` bounds the units it takes and the times it fails.

### Learner and Training

`Learner` has the four kinds of threads of `kaptain.py`: each action is what a thread does
under one lock, or between two. A network is the sequence of runs it learned from; the
estimates are, for each pod, how many times its runtime entered; an update is a run and a
status, and the last one submitted is `self.update`. `Poll`/`ReadPolled` are the observer
with the list it holds between; `SettlePoll`, `SettleRead`, `SettleClose`, `SettleWait`,
`SettleKept` are one settle call, interleaved with the others; `Learn`, `HandOver`,
`UpdateFails` the learner; `Decide` is `scores`, with the closing of a stale episode;
`Restart` loses all of it. What the network that decides had learned from by then goes into `forgotten`, which is
history: nothing makes up for a restart between two runs, and no check of kexp's tells it, so `RunsOnLearnedModel` excepts
exactly those trainings (section 3 says what comes of it).

`Training` is kexp: settle, create the pods, wait for them or a deadline, settle, check the
count of updates against the phase, delete the namespace; and the campaign, which goes on
whatever the status. `GivesUp` is kubectl's 600 s running out while a settle call waits for an
update: kexp goes on and the call stays. `PlaceUnseen` is a pod the plugin's fallback placed.

Left out of them: the phase "online" (frozen and train only), failed pods, the network's arithmetic and the
prompt of the LLM. Samples, CPU reads and rewards are in `Episode`, occupancies in `SlowedEstimates`. The status
`timeout` stands for the deadline and for failed commands both, which the code tells apart as
`timeout` and `aborted`; no property does. A pod is decided again if its binding failed.

### Episode

`Episode` is the other half of `Kaptain`: not which runs a network learns from, but what of one run.
The observer polls (`Poll`), then reads and samples under the lock (`ReadsPoll`), or its poll fails and the last
count stands for that time too (`PollFails`); `ReadsLog` is a thread of the pool that reads the CPU of a pod
found succeeded, from its log or, failing that, from its limit. `Settles`, `Refreshes`, `Closes` are
`settle`, which polls and reads between two ticks of the observer, perhaps a newer list than the one the
observer holds; `Learns` waits for the reads that were under way when the episode was closed.
`given` is what `learn_safely` is called with. `Discounted`, `Bonus` and `Transitions` are the
rewards. The discount is a parameter, whole numbers of which one thing is assumed (`DiscountAssumption`), the law of
exp(-kappa t): `Discount[s]` times `Discount[t]` is `Discount[0]` times `Discount[s + t]`. TLC's has the half-life
as the unit of time and 2^-`MaxTime` as the unit of value, so that every reward is an integer and the sums of `ReturnIsCost` are exact. `unseen` is history: how long pods had come or gone
before a list said so, which is all `CostIsRuns` lets the samples be off by. A pod starts the moment it is decided;
its image and its binding take no time. The 20 000 samples of the deque and the weights of
the three costs are left out.

### SlowedEstimates

Two policies divide each runtime by the slowdown of its node, which one of them learns from
the same runtimes. The module keeps which runtimes an estimate was made of and what each was
divided by, and leaves the numbers out: `own` is the runtimes of the task on the node, in order,
`taken` those of the node it started from (`Estimates.get`), and `Fits` lets a fit come to any
slowdown once there are enough runtimes and the occupancy varies within a task. The policy with a fixed slowdown
is the behaviours where no fit succeeds. A pod requests one unit of CPU, so that `system`,
`load.system`, is a count: what the node's own snapshot showed when the last pod list had no pod
of ours there. `Snapshot` and `Decide` are apart because pods are bound, finish and are listed in
between; `Poll` and `BeginRead` are apart because the list is fetched before the lock. `Learn` is one
turn of the loop in `Cluster.read`, in any order; `Raises` one whose learning raises. These policies
inherit a `settle` that does nothing, so the observer's loop is the only reader of pods. Ties of timestamps
to the second, a snapshot without requests (the decision then fails before it sees anything) and the
`deque`'s 1000 points are left out.

### Deploy and Operations

`deployment` is the two Deployments with their pods; `PodCreated`, `PodStarts`, `PodRetires` and
`PodGone` are Kubernetes' rolling update, which goes on whatever the script does, and a scheduler pod
becomes ready only beside a decider of its policy (`agreeOnStrategy`). A template is the policy and
the image; the service account, the key of the `-llm` policies and the seed are data that ride along.
The script is at `script.next` of `Steps` or, after a failure, of `RollbackSteps`. `Command` runs one;
`CommandFails` is a command that reports a failure, with its effect or without, or a signal the script
traps; `Killed` is a kill, and any signal during the rollback, whose traps are reset
(`deploy-policy.sh:76`). A rollback goes back to a revision by number; the module keeps the template
instead. A command that was cut has had its effect or never will: `kexp.py:320` notes that a kubectl
may outlive the `docker exec` that started it, which is left out.

`Operations` adds runs, namespaces and cleanup. One deployment or run goes on at a time, as the
workflows' `kaptain-cluster` concurrency group and the campaign's loop have it; in which order, and of which
policy, is free. `Stops` is every way a run ends, refusals included; `Dies` a kill at any
stage. `cleanup` runs at any time, also beside a run. What it finds stale is decided between its
list and its deletion; the age of heartbeats is abstracted to "not while the process lives".
Settling is in `Training`.

### Report and Collectors

`Collectors` is `run_pods` with the threads it starts, then `collect` and `report`. `stage` is where the
main thread is: it creates the probe (`CreatesProbe`), waits for the watch to stream it (`Confirms`,
`GivesUpWatch`), submits the pods (`Submits`), waits (`Completes`, `TimesOut`), joins the samplers, ends the watch, joins
the watcher (`JoinsSamplers`, `JoinsWatcher`), collects and reports. `Leaves` is the way into the `finally`, whatever
raised; `CallRaises` is a kubectl that fails with or without its effect, a `List` created up to any of its
pods; `Cancelled` is SIGTERM at any point, the `finally` included. `link` and `stream` are the watch:
it opens with the pods there are, holds an event back `Delay` at most, breaks at any time and loses any end of what
was on its way. `ReadsEvent` and `ReaderEnds` are `watch_pods`, whose rows carry the time of their
reading; `Asks`, `Answers`, `SamplerEnds` a sampler.

`Report` has what is computed: `arrival_times` of each process, `placement_waits`, `makespan`, `pod_times`, the counts,
and the imbalance of the nodes' CPU, with `Missing` and `Incomplete` for what the report words so. A
figure is all its values, one per pod: medians and percentiles of them are left out, and so are images,
events, logs, the other columns of a sample and the layout. `ArrivalTimes` takes the gaps that
`normal` and `poisson` draw as given, none negative.

A call of kubectl takes less than a step of the clock or fails, and the steps of `submit` come as soon as they
are due: 0.1 s of polling is less than a step. `time.time` and `time.monotonic` are one clock. The
probe's deletion and the columns of `telemetry.csv` play no part in the state.

## 3. What TLC checks

Deadlock is not checked in any run (`CHECK_DEADLOCK FALSE`): each model may really stop, with every pod
bound, every bound used up, the loop done, the run or the campaign over. That nothing stops too early is what
`EveryPodPlaced`, `CampaignEnds` and `RunEnds` say.

| Run | Instance | Shows |
|---|---|---|
| `scheduling_answers` | 1 process, 2 nodes, 1 pod, 2 policies, 1 edit, replicas that become ready, stop and retire at any moment, scores -2, -1 and 5 with a limit of 2, 1 bind failure | `TypeOK`, `HonestLabel`, `MismatchMeansRollout`, `BindingsExplained`, `EveryPodPlaced`: under every answer, partial, out of bounds, about a stranger or unnamed, the lines are true and the pod is placed |
| `scheduling_overlap` | 2 processes, 2 nodes with room for one pod each, 2 pods, 1 lost or failed bind, crashes | `UniqueDecisionIds`, `BindingsTrue`, refinement `PlacementKept` |
| `answers_ranked` | up to 3 candidates, wide and nearly full or tall and idle, each with at most one feature unread; 7 policies, two sets of estimates of a fast busy node, a slow idle one and one never tried, and answers of -1, 0, 1 and 30 with a limit of 24 | `TypeOK`, `AnswersWhatIs`, `BlindFallbackSays`, `LoopsCompute` |
| `telemetry` | one steady and one arbitrary node, period 2, `MaxAge` 6, `MaxSourceStale` 2, 10 units | `TypeOK`, `FrozenSourceExpires`, `SteadyNodeServed` |
| `training` | runs train, valid, train of one pod each, 1 failed update | `TypeOK`, `EstimatesGoOn`, `AcceptedMeansLearned`, `CampaignEnds` |
| `slowed_estimates` | 3 nodes, 3 pods of 2 tasks, 2 of them timed, slowdowns learned from 2 runtimes, 1 pod whose learning raises once | `TypeOK`, `EstimatesFollowSlowdown`, `KeptOnce`, `SystemCoversOthers` |
| `operations` | 2 policies, 2 deployments, 2 runs, 2 commands that fail, any number of kills and cleanups | `TypeOK`, `SchedulerAgrees`, `OutcomeTrue`, `ImagesKept`, `AloneWhileMeasuring`, `MeasuresWhatItSays` |
| `training_restart` | the same, 1 failed update, with 1 restart and 1 abandoned settle call | `LearnedOnce`, `FrozenRunOneModel`, `RunsOnLearnedModel` |
| `collectors` | 1 pod, or 2 together in a burst or one after the other; 1 sampler, a clock of 2 steps, 1 step of patience for the watch, a time limit of 1; any break, failed call and cancellation | `TypeOK`, `SeenAsItHappens`, `ReportHonest`, `ArrivalsKept`, `RunEnds` |
| `episode` | 2 pods, 2 steps, an LLM that answers or fails, CPU read or taken from the limit | `CpuCharged`, `ReturnIsCost`, `CostIsRuns` |

Why these bounds are enough to be interesting. Two nodes give ties, a strict winner, and a
candidate that an answer leaves out; -2 and -1 are where a maximum that starts at zero goes wrong;
5 is past the limit of 2. One pod is decided again
after its failed bind. One edit starts a rollout for a process to agree in, with a decision
while replicas of both policies answer and another after its failed bind, or it makes an agreement stale; the theorems of section 4
take any number of edits. Two processes and
room for one pod each make them compete for pods and for room. Three runs are the
shortest plan in which a frozen run stands between two that learn. One pod per run is
decided more than once (a failed binding), so an episode may be reopened; interleaving comes from the
four threads, not from the number of pods. In `telemetry`, one hung kubelet delays a refresh by one
period and a second refresh is then already due; `MaxAge` 6 is the smallest that satisfies
`SteadyNodeServed`'s premise before any miss. The bound of that property is tight: with one unit less TLC
finds a violation. With the code's defaults (2 s, 30 s, 60 s) it says steady nodes are served
with up to seven hung kubelets.

In `answers_ranked` an unread amount would move each policy's first choice, and 30 is the one answer past
the limit; the loops meet complete score maps only, as they do behind `validScores`, and the theorem
`LoopsAreCorrect` covers the partial ones.

`slowed_estimates` needs three nodes for one to take over the estimate of another while a third is the candidate
that is seen, and two timed pods of a task on one node for its slowdown to move while a third pod is
being learned from. In `operations` two deployments are a previous one to roll back to and images to clean up; two
failures are one of the deployment and one of its rollback; two runs are a killed one and the
next.

In `collectors` a clock of two steps lets the watch open late and the second pod be due after the time limit; a
watch that holds nothing back (`Delay` 0) still breaks and loses events, and every event may be read
before or after anything else happens at its instant. The proofs take any delay. In `episode` two steps are
three polls, so that one fails between two, or is read after a settle's newer one, and two decisions are
an interval, a last one and a bonus that has to telescope.

Symmetry (of pods and of processes) is used where only safety is checked;
liveness runs use none.

**Fairness.** `scheduling_answers` assumes weak fairness of `TakePod`, `Scoring`, `SelectHost` and, per pod,
`FinishBinding`: kube-scheduler keeps popping its queue, a call to the decider ends by its
timeout, a bind call ends. Nothing is assumed of the decider, of restarts or of edits; the
property's premise is that one process stays up. `training` assumes weak fairness of kexp's own steps, of each
step of a settle call (requests have timeouts) and of the learner; nothing of the pods, of
decisions or of the observer. `collectors` assumes weak fairness of the clock, of the watcher, of a sampler's
answer and of its end, and of the main thread's steps: threads are scheduled and a kubectl ends, by its `--request-timeout` or
because kexp gives it up (`kexp.py:80-89`). Nothing need be placed or finish,
no failure or cancellation need come, and a sampler need not ask again. The
server is sure to end the watch only of a process that is left with nothing else, as
after a cancellation in the middle of the shutdown.

### Where the code and its docs disagree

Two runs look for a counterexample and find one; each quotes its line in `findings`.

* `unsettled_stops`: after a run whose *count* of updates was wrong, the next run starts.
  `workloads/README.md:117-119` says it refuses. Only a failed *update* is remembered by
  the decider, the count is compared in kexp alone (`kexp.py:455-462`).
* `old_slowdown`: `kaptain.py:168-169` says that a node whose slowdown changes has its estimates
  computed again so that no runtime divided by a slowdown since revised stays. It stays in the
  estimates of other nodes that were taken over from it (`kaptain.py:96-103`, `350-354`), and comes back
  from there.

Seen while modelling and not given a run: a validation's settle call that kexp gave up may end after the settle call of the next training, and sets the
estimates aside again, so that what this training teaches is dropped when they are restored (`kaptain.py:662-668`; the
premise `Calm` of section 4); a validation that precedes the decider's first decision
teaches the training its runtimes, since `settle` returns before it keeps the estimates
(`kaptain.py:650` against `647-649`), in a plan `campaign.sh` does not make; `kaptain.py:179-180` says a
node the pod list shows idle "has not lost a pod since", which fails when the list is newer than
the snapshot, and is harmless (`SystemCoversOthers`); a deployment killed after it stopped the
scheduler leaves every later deployment and run refusing, until the scheduler is
scaled up by hand; `workloads/README.md:77` describes settling as it was
before `settle_after`; pods of a timed-out run decided after its second settle make a second
episode of one run (`AcceptedMeansLearned` speaks only of complete runs); the online phase of a learning
policy always ends `unsettled` (`kexp.py:459` against `kexp.py:604`); a validation's checkpoint counts the training runs
started, one that failed included (`campaign.sh:46-56`), where `kexp.py:523` says "had learned from"; so it is when the decider
restarts between a training and the validation of its checkpoint: the new process has untrained weights and no failed update, and
counts its updates from zero (`kaptain.py:541-552`), so both settle calls of the validation agree and it is complete (this is the
case `RunsOnLearnedModel` excepts); a
`decider.jsonl` that was not collected reads as no decision of Kaptain's (`kexp.py:465-494` against its
docstring, "absent, and the report says missing"), and `kubectl logs` of a Deployment loses the lines
of a container that restarted; without `pods.json`, the CPU of the tasks is still printed over 0 succeeded pods; a watch that breaks
between its last event and the end of the run leaves no mark, only a lower coverage; an LLM call that fails
leaves the bonus of its neighbours unpaired, so that only complete episodes have the bonus the
shaping promises (`ReturnIsCost`'s premise); the CPU of a pod that failed is never charged (`kaptain.py:316`).

## 4. What is proved

All proofs are checked by TLAPS, for every value of the constants that meets the named
assumptions (`NodeAssumption`, `BaselinesAssumption` and the like, beside the constants they are about).

* **Scores** (in `SchedulingProofs`). `WinnersAreHighest`: the winners are the candidates no other exceeds, and
  there is one. `FallbackNodeIsFreest`: the sort of the fallback has a first element, and no
  candidate has more free CPU. Both come from a lemma on maxima of finite sets of integers.
* **Scheduling.** The invariant is built in layers, each inductive relative to those before.
  `TypeOK` with `Alive` (only a ready process has a cycle) comes first. `StepCases` then says which of four
  things a step does to the cycles and the lines, so that each later layer has one case for each: `Sound` (what a decision
  line is made of: its winners and intended node are what its scores say, a fallback's are the freest node alone),
  `Answered` (who computed an answer: nobody, or the policy it names), `Numbered` (ids stay below the
  counter of their process), `Logged` (what is being bound is on the decision lines). Theorems: `TypeCorrect`, `FallbackDecides`, `LabelsAreHonest`,
  `IdsAreUnique`, `BindingsAreExplained`, `BindingsAreTrue`, `MismatchesMeanRollouts` (`Agreement`: as long as no Deployment
  was edited since a process agreed, the decider's replicas, and the one that answered, are among those there were then). `PlacementIsKept` is the refinement
  of `Placement`, step by step: each step of `Scheduling` is an announcement, the one placement that
  discharges it, or a stutter.
* **ScoreLoops** (in `BaselinesProofs`). The usual loop invariant: the partial result is the operator's on the names visited.
  `LoopsAreCorrect`, of the loops on any score map; `DecisionsAreLooped`, of the loops on what a decision hands them.
* **Baselines.** A policy that does not raise had read, of every candidate, all it ranks on, since a
  missing capacity reads as zero and a zero capacity raises, if only by a division: `AnswersAreWhatIs`, `BlindFallbacksSay`. `DecisionsAreComplete` is the type of a decision.
* **Telemetry.** `Traced` (each sample held carries the instant its own measurement first
  arrived) and `Latest` (no measurement has arrived that is newer than the last sample). The second is needed because a
  repeated measurement is recognised only by comparison with the last sample, and it holds because
  a kubelet's measurements move only forward. `TelemetryTypeCorrect`, `FrozenSourcesExpire`. `SteadyNodesServed`
  counts time: a steady node's sample is no older than the list and the nodes asked since it was received, plus the
  next refresh up to its turn, so its age and what that refresh has still to wait for stay within `MaxAge`
  together (`AgeInv`, checked by TLC before it was proved).

* **SlowedEstimates.** A snapshot under way counts at least what its nodes run outside the experiment,
  and `Load.see` keeps only values that a snapshot showed: with these two conjuncts
  `SystemCoversOthers` is inductive (`SystemCovers`). `EstimatesFollow` is about recomputation, which folds the runtimes of a
  node. The prover cannot use an induction theorem that takes a predicate, so `MemberInduction` states induction of a
  *set* that has zero and is closed under successor (the naturals are well founded), and from it come `FoldExists` (the
  fold is a function that takes one element at a time) and the two halves of the invariant: a
  runtime appended to the history is one more step of the fold (`KeepsAppend`), and computing a node again
  updates each task with its runtimes in order (`AgainFollows`). `RuntimesKeptOnce` counts places in the
  histories, whose only change is an append for a pod not yet seen.

* **Deploy and Operations.** Four conjuncts about the deployments are inductive together. `Reached`: what
  the commands behind the script's next one have made of the Deployments (from "wait" to "scale" the scheduler has
  no pod and asks for none; from "ready decider" on, the decider is rolled out), which both plans keep command by command.
  `Guarded`: a scheduler has a pod, or asks for one, only beside a decider that is rolled out; this survives a failure
  or a kill at any command, so that the next script can rely on it. `Reported` and `Restorable` say what an ended script left
  and which images remain. `Alone` and `Faithful` add the runs: no script is under way beside a run, the
  namespace of a run is nobody else's and no cleanup has found it stale. `TypeCorrect`,
  `SchedulerNeverAlone`, `OutcomeReported`, `ImagesStay`, `MeasuresAlone`, `MeasuresNamed`: every invariant the run checks,
  for any number of deployments, failures, kills and runs.

* **Learner and Training.** Six layers, proved in this order. `TypeCorrect`. `Once`: a pod whose runtime is in the
  estimates, or in those kept aside, is in `seen`, which only a restart empties, with everything else; hence
  `EachLearnedOnce`. `Core`: kexp keeps runs apart, so only the run under way has pods to decide and settle calls
  that still poll (`Turns`), and at each stage it is known which updates are over, and that the network is the learner's own
  (`Quiet`, `Learned`). `Window`: as long as the decider's count of episodes is the
  one kexp was told before a frozen run, the network is the one the run began with, and a restart shows in the count kexp checks; hence `FrozenRunsOneModel`. `Hearing`: an update counted between the two settle
  calls of a training is that training's, since all others were over before its pods came, and a restart only lowers the
  count; so a count that is one higher means that the network has learned from the run, then or before a restart; hence
  `RunsOnLearned`, whatever fails, restarts and is given up. `Undisturbed` and `Numbered`, under the
  hypothesis `Calm`: kept estimates are the ones of the last training, and the network has one update per accepted
  training; hence `EstimatesFollow` and `AcceptedLearned`.

  `Calm` says that the decider has not restarted and kexp has given up no settle call. The conclusions are false without
  it, and TLC shows it when the bounds of `training` are raised: a restart forgets the estimates while kexp goes
  on, and a validation's call that kexp gave up keeps waiting for its update, may end after the settle call of the
  next training, and sets the estimates aside again, so that what this training teaches is dropped when they
  are restored. The other four theorems have no such hypothesis.

* **Episode.** All three properties, for any number of pods, any CPU, any discount.

  `EachPodChargedOnce`: the invariant follows a pod from the list that shows it succeeded to the read under way and
  from there to `used`: those charged are the ones seen and no longer being read (`Lists`), and once a run is settled complete nothing
  new can be seen, so that waiting for the reads `close` found is waiting for all (`Over`).

  The other two compare sums, and `SumFunction` picks its elements in an order nobody knows. `SubsetInduction`
  (a set of subsets that has the empty one, and any other as soon as it has those one smaller, has them all) shows
  that the sum exists, and that any element can be taken first; from that come the laws the proofs use: sums add, scale, keep
  order, and count (`TotalPlus`, `TotalTimes`, `TotalLess`, `TotalCount`).

  `SamplesCountTheTimeLived` sorts out what each sample counts by pod. `Ledger` says that there are books
  (`Books`): of each pod, how much the samples count from when it came, how much less from when it
  left, and for how long each of the two was unseen, at most, such that the totals are the samples' and `unseen`. The
  books are witnesses, not variables, since which poll missed which pod cannot be told from the
  counts. `FollowsOn` is the step of all four actions that read a list or sample one; it needs that a list shows what was there
  when it was polled (`Told`), and that the observer's list is not newer than its last sample, but for the one settle read
  (`Ahead`): without that, a pod might come, be counted and be unseen again. Closing brings the last list up to what is there
  (`ClosingBalances`), and a list read later only adds to `unseen` (`BalancedNext`).

  `TheReturnIsTheCost` telescopes: what is counted from the first decision to the k-th, and from there to the next, discounted to
  the k-th and then on, is what is counted from the first to the next (`PartSplits` of one sample, `DiscountedSplits` of
  all), and so is what the states are said to be worth. It needs only that the decisions are in order (`Ordered`) and that
  the episode ends after the last (`Ending`).

* **Collectors.** A row and an event on its way are the same thing at two moments, so the invariant speaks of
  both: `Honest` says that the first of a kind, among the rows and then the events, is the one sent when the pod
  was created, or bound; `Follows` adds that it is there as long as the watch has not closed. Reading moves an event
  from one to the other, sending appends, a break drops an end: a lemma each, whatever the kind, so that
  `NextFollowed` has one case per action. With `Opening` (no pod before the probe was seen) this is inductive, and
  `PodsSeenAsTheyHappen` is its first case. `Listed` says what `pods.json` holds of a run that completed, and `ReportIsHonest`
  follows from both through the least row that binds a pod. `Timely` (every pod was created at its arrival
  after one and the same instant, and none that waits is overdue) gives `SubmissionKeepsArrivals`. All for any number of pods and
  samplers, any delay, any break. `ReadingInForce` is about `Report` alone: at the instants where the
  imbalance is taken, every node has a reading, so that `bisect_right - 1` is never -1.

Only model-checked: liveness (`EveryPodPlaced`, `CampaignEnds`, `RunEnds`), which is out of the prover's reach. Every
other property of the passing runs is a theorem.

## 5. What is not modelled

Metrics, logs' wording, configuration parsing; the rounding of the baselines' ratios; networks, PPO and
prompts, which are floating-point arithmetic or text; what kexp's files hold besides the figures of `Report`; the age of its heartbeats; several jobs at once on one cluster; manifests, provisioning, tables, plots and the offline trace study.
`PROJECT.json` gives the reason for each.

## 6. Plan

Done: `Scores`, `ScoreLoops`, `Baselines`, `Scheduling` with `Placement`, `Telemetry`, `Learner` with `Training`,
`Episode`, `SlowedEstimates`, `Deploy` with `Operations`, `Collectors` with `Report`; the proof of every safety
property the runs check. Next, in order:

1. The age of heartbeats in `Operations`: what protects a live run whose heartbeats fail from another's cleanup
   (`kexp.py:409-423`).
