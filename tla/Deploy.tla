--------------------------------- MODULE Deploy ---------------------------------
(***************************************************************************)
(* deploy-policy.sh, and the two Deployments it changes.                   *)
(*                                                                         *)
(* The script is a list of commands. A command may fail, with or without   *)
(* its effect; a signal the script traps is a command that fails; a kill   *)
(* leaves no trap to run. "rollout undo" goes back to a template:          *)
(* Kubernetes keeps the last ten by number, and a deployment makes at most *)
(* five.                                                                   *)
(***************************************************************************)
EXTENDS Integers, FiniteSets, Sequences

CONSTANTS
    Policy, FirstPolicy,
    NoScript, NoOutcome,
    MaxDeploys,          \* bound: deployments begun
    MaxFailures          \* bound: commands that fail

ASSUME DeployAssumption ==
    /\ FirstPolicy \in Policy
    /\ MaxDeploys \in Nat /\ MaxFailures \in Nat

VARIABLES
    deployment,   \* the template, replicas and pods of kaptain-decider and kaptain-scheduler
    images,       \* the decider images the node has, named for their deployments
    script,       \* the script under way
    outcome,      \* how the last script to end did
    deploys, failures

deployVars == <<deployment, images, script, outcome, deploys, failures>>

\* A template is the policy it names and its image; the scheduler's image is built by hand.
FirstTemplate == [strategy |-> FirstPolicy, image |-> 0]

Ready(template) == [template |-> template, phase |-> "ready"]

DeployInit ==
    /\ deployment = [d \in {"decider", "scheduler"} |->
                        [template |-> FirstTemplate, replicas |-> 1, pods |-> {Ready(FirstTemplate)}]]
    /\ images = {0}
    /\ script = NoScript /\ outcome = NoOutcome
    /\ deploys = 0 /\ failures = 0

-----------------------------------------------------------------------------
(* Kubernetes.                                                             *)

Pods(d)     == {pod \in deployment[d].pods : pod.phase # "terminating"}
ReadyOf(d)  == {pod \in deployment[d].pods : pod.phase = "ready"}
Wanted(d)   == {pod \in Pods(d) : deployment[d].replicas = 1 /\ pod.template = deployment[d].template}

\* A decider pod starts if the node has its image; a scheduler pod, once a decider names its policy.
CanStart(d, pod) ==
    CASE d = "decider"   -> pod.template.image \in images
      [] d = "scheduler" -> \E q \in ReadyOf("decider") : q.template.strategy = pod.template.strategy

\* A rolling update keeps the ready pod of another template until there is one of the new.
Retires(d, pod) ==
    /\ pod \in Pods(d) \ Wanted(d)
    /\ \/ deployment[d].replicas = 0 \/ pod.phase = "starting"
       \/ Wanted(d) \cap ReadyOf(d) # {}

PodCreated(d) ==
    /\ deployment[d].replicas = 1 /\ Wanted(d) = {}
    /\ deployment' = [deployment EXCEPT
           ![d].pods = @ \cup {[template |-> deployment[d].template, phase |-> "starting"]}]

PodTurns(d, pod, phase) ==
    deployment' = [deployment EXCEPT ![d].pods = (@ \ {pod}) \cup {[pod EXCEPT !.phase = phase]}]

PodStarts(d) == \E pod \in Pods(d) :
    pod.phase = "starting" /\ CanStart(d, pod) /\ PodTurns(d, pod, "ready")

PodRetires(d) == \E pod \in Pods(d) : Retires(d, pod) /\ PodTurns(d, pod, "terminating")

PodGone(d) == \E pod \in deployment[d].pods \ Pods(d) :
    deployment' = [deployment EXCEPT ![d].pods = @ \ {pod}]

\* The two Deployments are rolled out while scripts and runs go on.
Rollout ==
    /\ \E d \in DOMAIN deployment : PodCreated(d) \/ PodStarts(d) \/ PodRetires(d) \/ PodGone(d)
    /\ UNCHANGED <<images, script, outcome, deploys, failures>>

-----------------------------------------------------------------------------
(* The script.                                                             *)

\* kubectl rollout status: the pods are those of the template, and ready.
RolledOut(d) == Pods(d) = Wanted(d) /\ Wanted(d) \subseteq ReadyOf(d)
                /\ Cardinality(Wanted(d)) = deployment[d].replicas

\* Steps that changes the decider while the scheduler runs.
StepsNoPause == <<"image", "strategy", "ready decider", "declare", "ready scheduler", "clean up">>

Steps == <<"stop", "wait", "image", "strategy", "ready decider",
           "declare", "scale", "ready scheduler", "clean up">>

\* RollbackSteps that leaves the scheduler paused.
RollbackPaused == <<"stop", "wait", "undo decider", "ready decider", "undo scheduler", "ready scheduler">>

RollbackSteps == <<"stop", "wait", "undo decider", "ready decider",
                   "undo scheduler", "scale", "ready scheduler">>

Plan == IF script.rollback THEN RollbackSteps ELSE Steps

Step == Plan[script.next]

Underway == script # NoScript /\ script.next <= Len(Plan)

\* Begin with one image tag for all.
BeginSameTag(policy, active) ==
    /\ script = NoScript
    /\ deploys < MaxDeploys
    /\ ~active
    /\ \A d \in DOMAIN deployment : RolledOut(d) /\ deployment[d].replicas = 1
    /\ deploys' = deploys + 1
    /\ script' = [policy |-> policy, image |-> 0, rollback |-> FALSE, next |-> 1,
                  previous |-> [d \in DOMAIN deployment |-> deployment[d].template]]
    /\ outcome' = NoOutcome
    /\ UNCHANGED <<deployment, images, failures>>

\* The checks, the previous templates read, and the image built and imported. A script that fails
\* before its first change ends as a killed one does.
Begin(policy, active) ==
    /\ script = NoScript
    /\ deploys < MaxDeploys
    /\ ~active
    /\ \A d \in DOMAIN deployment : RolledOut(d) /\ deployment[d].replicas = 1
    /\ deploys' = deploys + 1
    /\ images' = images \cup {deploys'}
    /\ script' = [policy |-> policy, image |-> deploys', rollback |-> FALSE, next |-> 1,
                  previous |-> [d \in DOMAIN deployment |-> deployment[d].template]]
    /\ outcome' = NoOutcome
    /\ UNCHANGED <<deployment, failures>>

\* What a command waits for; one whose wait runs out is a command that fails.
Waits ==
    CASE Step = "wait"            -> deployment["scheduler"].pods = {}
      [] Step = "ready decider"   -> RolledOut("decider")
      [] Step = "ready scheduler" -> RolledOut("scheduler")
      [] OTHER                    -> TRUE

\* What a command makes of the Deployments.
Effect ==
    CASE Step = "stop"           -> [deployment EXCEPT !["scheduler"].replicas = 0]
      [] Step = "image"          -> [deployment EXCEPT !["decider"].template.image = script.image]
      [] Step = "strategy"       -> [deployment EXCEPT !["decider"].template.strategy = script.policy]
      [] Step = "declare"        -> [deployment EXCEPT !["scheduler"].template.strategy = script.policy]
      [] Step = "scale"          -> [deployment EXCEPT !["scheduler"].replicas = 1]
      [] Step = "undo decider"   -> [deployment EXCEPT !["decider"].template = script.previous["decider"]]
      [] Step = "undo scheduler" -> [deployment EXCEPT !["scheduler"].template = script.previous["scheduler"]]
      [] OTHER                   -> deployment

\* Kept that forgets the predecessor.
KeptNew == {script.image}

Kept == {script.image, script.previous["decider"].image}

\* cleanup_images removes what it may, or stops at the first it cannot remove.
CleanUp ==
    IF Step = "clean up"
    THEN \E removed \in SUBSET (images \ Kept) : images' = images \ removed
    ELSE images' = images

Command ==
    /\ Underway
    /\ Waits
    /\ deployment' = Effect
    /\ CleanUp
    /\ script' = [script EXCEPT !.next = @ + 1]
    /\ UNCHANGED <<outcome, deploys, failures>>

Ends(how) == script' = NoScript /\ outcome' = [of |-> script, how |-> how]

\* The exit trap: a command of the deployment that fails, or a signal during it, begins the rollback; one
\* of the rollback ends it. The check of where the pods are, before the clean up, may fail as it may.
CommandFails ==
    /\ Underway
    /\ failures < MaxFailures
    /\ failures' = failures + 1
    /\ deployment' \in {deployment, Effect}
    /\ CleanUp
    /\ IF script.rollback
       THEN Ends("failed")
       ELSE script' = [script EXCEPT !.rollback = TRUE, !.next = 1] /\ outcome' = outcome
    /\ UNCHANGED deploys

End ==
    /\ script # NoScript /\ script.next = Len(Plan) + 1
    /\ Ends(IF script.rollback THEN "restored" ELSE "success")
    /\ UNCHANGED <<deployment, images, deploys, failures>>

Killed ==
    /\ script # NoScript
    /\ script' = NoScript
    /\ UNCHANGED <<deployment, images, outcome, deploys, failures>>

ScriptStep == Command \/ CommandFails \/ End \/ Killed

-----------------------------------------------------------------------------
(* Properties.                                                             *)

Template == [strategy : Policy, image : 0 .. MaxDeploys]

\* The shape of the Deployments and of the script.
DeployTypeOK ==
    /\ \A d \in DOMAIN deployment :
          /\ deployment[d].template \in Template /\ deployment[d].replicas \in {0, 1}
          /\ deployment[d].pods \subseteq
                [template : Template, phase : {"starting", "ready", "terminating"}]
    /\ images \subseteq 0 .. deploys
    /\ script # NoScript => script.previous["decider"].image < script.image /\ script.policy \in Policy
    /\ deploys \in 0 .. MaxDeploys /\ failures \in 0 .. MaxFailures

\* deploy-policy.sh:127, 136: whatever commands failed, and wherever a script was killed, no scheduler is at
\* work beside a decider of another policy.
SchedulerAgrees ==
    \A s \in ReadyOf("scheduler"), q \in ReadyOf("decider") : s.template.strategy = q.template.strategy

\* deploy-policy.sh:74-100: a deployment reported as a success left its policy on both sides, and one reported
\* as restored left both as it found them, running.
OutcomeTrue ==
    outcome # NoOutcome =>
        \A d \in DOMAIN deployment :
            /\ outcome.how # "failed" => deployment[d].replicas = 1 /\ RolledOut(d)
            /\ outcome.how = "success" => deployment[d].template.strategy = outcome.of.policy
            /\ outcome.how = "success" => deployment["decider"].template.image = outcome.of.image
            /\ outcome.how = "restored" => deployment[d].template = outcome.of.previous[d]

\* deploy-policy.sh:167: "Keep the deployed image and its predecessor for rollback", in every state a rollback
\* may start from.
ImagesKept ==
    /\ deployment["decider"].template.image \in images
    /\ script # NoScript => script.previous["decider"].image \in images
    /\ outcome # NoOutcome => outcome.of.previous["decider"].image \in images
=============================================================================
