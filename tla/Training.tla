--------------------------------- MODULE Training ---------------------------------
(***************************************************************************)
(* A campaign over one deployment of a learning policy: kexp run after     *)
(* kexp run (workloads/kexp.py, workloads/campaign.sh), each settling the  *)
(* decider before and after its pods, with the decider of module Learner.  *)
(***************************************************************************)
EXTENDS Learner

CONSTANT MaxGivenUp   \* bound: how often kexp stops waiting for a settle call

ASSUME TrainingAssumption == MaxGivenUp \in Nat

VARIABLES
    run,        \* the run of the campaign's plan under way
    stage,      \* where its kexp is: idle, settling, running, learning, leaving or over
    before,     \* meta["settled"]: the episodes the settle before reported
    status,     \* status[r]: meta["status"], none until it is known
    givenUp     \* how many settle calls kexp stopped waiting for

kexp == <<run, stage, before, status, givenUp>>
vars == <<pod, decider, kexp>>

LastRun == CHOOSE r \in Run : \A q \in Run : q <= r

Init ==
    /\ LearnerInit
    /\ run = CHOOSE r \in Run : \A q \in Run : r <= q
    /\ stage = "idle"
    /\ before = 0
    /\ status = [r \in Run |-> "none"]
    /\ givenUp = 0

PodsOf(r) == {p \in Pod : p[1] = r}

\* run: settle before any output.
StartRun ==
    /\ stage = "idle"
    /\ SettleStart(<<run, "before">>)
    /\ stage' = "settling"
    /\ UNCHANGED <<pod, observer, learner, policy, restarts, forgotten, run, before, status, givenUp>>

\* The namespace is created, and the pods in it.
CreatePods ==
    /\ stage = "settling"
    /\ At(<<run, "before">>, "returned")
    /\ before' = call[<<run, "before">>].episodes
    /\ pod' = [p \in Pod |-> IF p \in PodsOf(run) THEN "pending" ELSE pod[p]]
    /\ stage' = "running"
    /\ UNCHANGED <<decider, run, status, givenUp>>

\* kubectl's 600 s are over while the settle call waits for an update; the call itself goes on.
GivesUp(c) ==
    /\ givenUp < MaxGivenUp
    /\ At(c, "waiting")
    /\ call[c].update # 0
    /\ updates[call[c].update].status \in {"queued", "learned"}
    /\ givenUp' = givenUp + 1

\* settle failed, or did not answer, or the namespace could not be created: the run does not start.
Refuse ==
    /\ stage = "settling"
    /\ \/ \E end \in {"failed", "returned"} : At(<<run, "before">>, end) /\ UNCHANGED givenUp
       \/ GivesUp(<<run, "before">>)
    /\ status' = [status EXCEPT ![run] = "aborted"]
    /\ stage' = "leaving"
    /\ UNCHANGED <<pod, decider, run, before>>

\* wait: every pod has finished, or the deadline has passed or a command failed; then settle again.
EndPods ==
    /\ stage = "running"
    /\ status' = [status EXCEPT ![run] =
          IF \A p \in PodsOf(run) : pod[p] = "succeeded" THEN "complete" ELSE "timeout"]
    /\ SettleStart(<<run, "after">>)
    /\ stage' = "learning"
    /\ UNCHANGED <<pod, observer, learner, policy, restarts, forgotten, run, before, givenUp>>

\* SIGTERM while the pods run: no settle.
Cancel ==
    /\ stage = "running"
    /\ status' = [status EXCEPT ![run] = "aborted"]
    /\ stage' = "leaving"
    /\ UNCHANGED <<pod, decider, run, before, givenUp>>

\* check_learned: one more update after a training run, none after another.
Expected == before + (IF run \in Frozen THEN 0 ELSE 1)

\* A run that accepts whatever the second settle reports.
ChecksNothing ==
    /\ stage = "learning"
    /\ At(<<run, "after">>, "returned")
    /\ stage' = "leaving"
    /\ UNCHANGED <<pod, decider, run, before, status, givenUp>>

CheckLearned ==
    /\ stage = "learning"
    /\ At(<<run, "after">>, "returned")
    /\ status' = IF call[<<run, "after">>].episodes = Expected THEN status
                 ELSE [status EXCEPT ![run] = "unsettled"]
    /\ stage' = "leaving"
    /\ UNCHANGED <<pod, decider, run, before, givenUp>>

Unsettled ==
    /\ stage = "learning"
    /\ \/ At(<<run, "after">>, "failed") /\ UNCHANGED givenUp
       \/ GivesUp(<<run, "after">>)
    /\ status' = [status EXCEPT ![run] = "unsettled"]
    /\ stage' = "leaving"
    /\ UNCHANGED <<pod, decider, run, before>>

\* delete_own_namespace waits until the pods are gone; the campaign goes on whatever the status.
Leave ==
    /\ stage = "leaving"
    /\ pod' = [p \in Pod |-> IF p \in PodsOf(run) THEN "gone" ELSE pod[p]]
    /\ run' = IF run = LastRun THEN run ELSE run + 1
    /\ stage' = IF run = LastRun THEN "over" ELSE "idle"
    /\ before' = 0
    /\ UNCHANGED <<decider, status, givenUp>>

Kexp == StartRun \/ CreatePods \/ Refuse \/ EndPods \/ Cancel \/ CheckLearned \/ Unsettled \/ Leave

Pods == \E p \in Pod : Decide(p) \/ PlaceUnseen(p) \/ Finish(p)

Decider ==
    \/ Poll \/ ReadPolled
    \/ \E k \in DOMAIN updates : Learn(k) \/ HandOver(k) \/ UpdateFails(k)
    \/ \E c \in Call : SettleStep(c)
    \/ Restart

Next == \/ Kexp
        \/ (Pods \/ Decider) /\ UNCHANGED kexp

Spec == Init /\ [][Next]_vars

\* Every request has a timeout, an update ends, and kexp goes on; nothing is asked of the pods.
Fairness ==
    /\ WF_vars(StartRun \/ CreatePods \/ Refuse \/ EndPods \/ CheckLearned \/ Unsettled \/ Leave)
    /\ \A c \in Call : WF_vars(SettleStep(c) /\ UNCHANGED kexp)
    /\ WF_vars(LearnerStep /\ UNCHANGED kexp)

FairSpec == Spec /\ Fairness

-----------------------------------------------------------------------------
(* Properties.                                                             *)

\* The shape of the state; an episode holds the decisions of one run, and no frozen one.
TypeOK ==
    /\ pod \in [Pod -> {"none", "pending", "running", "succeeded", "gone"}]
    /\ started \in BOOLEAN /\ failure \in BOOLEAN
    /\ episode # {} => \E r \in Run \ Frozen : episode \subseteq PodsOf(r)
    /\ updates \in Seq([run : Run \ Frozen, status : {"queued", "learned", "done", "failed"}])
    /\ trained \in Seq(Run \ Frozen) /\ net \in Seq(Run \ Frozen)
    /\ known \in [Pod -> Nat] /\ kept \in [Pod -> Nat] \cup {NoKept}
    /\ seen \in SUBSET Pod /\ polled \in {NoPoll} \cup SUBSET Pod
    /\ call \in [Call -> CallState \cup {NoCall}]
    /\ \A c \in Call : At(c, "waiting") => call[c].update <= Len(updates)
    /\ models \in [Run -> SUBSET Seq(Run \ Frozen)]
    /\ forgotten \in SUBSET (Run \ Frozen)
    /\ {episodes, before, failures, restarts, givenUp} \subseteq Nat
    /\ run \in Run
    /\ stage \in {"idle", "settling", "running", "learning", "leaving", "over"}
    /\ status \in [Run -> {"none", "aborted", "complete", "timeout", "unsettled"}]

\* kaptain.py:316-325: a pod's runtime goes into the estimates at most once, whoever reads the list
\* that shows it finished, and however old that list is.
LearnedOnce ==
    \A p \in Pod : known[p] <= 1 /\ (kept # NoKept => kept[p] <= 1)

\* The runs whose outcome kexp reports as a result.
Accepted(r) == status[r] = "complete" /\ (r < run \/ stage \in {"leaving", "over"})

\* kaptain.py:645-648: every decision of a frozen run was made by one network; when the decider restarts,
\* at least every decision of a frozen run that counts.
FrozenRunOneModel ==
    \A r \in Frozen : restarts = 0 \/ Accepted(r) => Cardinality(models[r]) <= 1

\* The trainings kexp has taken for learned: the settle after them succeeded, and the count was right.
Taken(r) == r \notin Frozen /\ status[r] \in {"complete", "timeout"}
            /\ (r < run \/ stage \in {"leaving", "over"})

\* kaptain.py:658-660, kexp.py:561-565: while the pods of a run are placed, no update has failed since the decider
\* started, none is under way, and the network has learned from every training kexp settled before it,
\* but for those it had learned from when a restart lost it: these nothing between two runs makes up for.
RunsOnLearnedModel ==
    stage = "running" =>
        /\ ~failure
        /\ \A k \in DOMAIN updates : updates[k].status = "done"
        /\ net = trained
        /\ \A r \in Run : Taken(r) => r \in LearnedFrom \cup forgotten

\* The estimates go on with the pods of a training, and of an evaluation in which the decider decided.
Teaches(r) == r \notin Valid /\ (r \in Frozen => models[r] # {})

\* kaptain.py:648-650: while a run that is not a validation places its pods, the estimates hold every pod
\* of the complete trainings and evaluations before it, and none of a complete validation whose settle
\* kept the training's estimates (it does not when the decider has not decided yet).
EstimatesGoOn ==
    stage = "running" /\ run \notin Valid =>
        \A p \in Pod : status[p[1]] = "complete" =>
            /\ Teaches(p[1]) => known[p] = 1
            /\ p[1] \in Valid /\ call[<<p[1], "before">>].kept => known[p] = 0

Updates(r) == Cardinality({k \in DOMAIN net : net[k] = r})

\* kexp.py:455-462: when kexp accepts a run, the network has learned once from a training run, never
\* from a frozen one, and the estimates have every one of its pods.
AcceptedMeansLearned ==
    [][stage = "learning" /\ stage' = "leaving" /\ status'[run] = "complete" =>
          /\ Updates(run) = IF run \in Frozen THEN 0 ELSE 1
          /\ run \in Frozen \/ \A p \in PodsOf(run) : known[p] = 1]_vars

\* kaptain.py:657-660, kexp.py:536-563: no campaign waits forever for the decider, whichever updates
\* fail and whichever pods never finish.
CampaignEnds == <>(stage = "over")

\* workloads/README.md:117-119, of a run whose count of updates does not match its phase: "every later
\* run of that deployment refuses to start".
UnsettledStops ==
    stage = "running" =>
        ~ \E r \in Run : r < run /\ status[r] = "unsettled" /\ At(<<r, "after">>, "returned")
=============================================================================
