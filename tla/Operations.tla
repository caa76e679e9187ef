------------------------------- MODULE Operations -------------------------------
(***************************************************************************)
(* The jobs of the cluster: deployments (Deploy), runs of kexp, and        *)
(* `kexp.py cleanup`. The workflows and the campaign let one deployment or *)
(* run go on at a time (the kaptain-cluster concurrency group, one loop),  *)
(* in any order here; cleanup may also come from a console. Any job may be *)
(* killed, and what it left behind is met by the next ones.                *)
(*                                                                         *)
(* A heartbeat's age is left out: a run's namespace may be found stale     *)
(* once its process has ended, and not before.                             *)
(***************************************************************************)
EXTENDS Deploy

CONSTANTS RunId, NoRun, NoCleanup

VARIABLES
    namespace,   \* namespace[r]: none, active or terminating
    busy,        \* the runs with pods that have not finished
    run,         \* the run under way: its stage, and what its meta.json records
    begun,       \* the runs begun: an id is used once
    cleanup      \* the cleanup under way: the namespaces it found stale

vars == <<deployVars, namespace, busy, run, begun, cleanup>>

Init ==
    /\ DeployInit
    /\ namespace = [r \in RunId |-> "none"]
    /\ busy = {} /\ begun = {}
    /\ run = NoRun /\ cleanup = NoCleanup

Idle == script = NoScript /\ run = NoRun

Labelled == {r \in RunId : namespace[r] # "none"}

Deploying ==
    /\ \/ \E policy \in Policy : Idle /\ Begin(policy, busy # {})
       \/ ScriptStep
       \/ Rollout
    /\ UNCHANGED <<namespace, busy, run, begun, cleanup>>

-----------------------------------------------------------------------------
(* A run.                                                                  *)

\* A run reads the policy it will be known by from the scheduler's Deployment.
ReadEnv(r) ==
    /\ Idle
    /\ r \notin begun
    /\ begun' = begun \cup {r}
    /\ run' = [id |-> r, stage |-> "images", strategy |-> deployment["scheduler"].template.strategy,
               image |-> 0]
    /\ UNCHANGED <<deployVars, namespace, busy, cleanup>>

At(stage) == run # NoRun /\ run.stage = stage

Versions(d) == {pod.template.image : pod \in ReadyOf(d)}

\* ReadImages that believes the Deployments.
ReadSpec ==
    /\ At("images")
    /\ run' = [run EXCEPT !.stage = "alone", !.image = deployment["decider"].template.image]
    /\ UNCHANGED <<deployVars, namespace, busy, begun, cleanup>>

\* running_images: the images that run, not those the Deployments name.
ReadImages ==
    /\ At("images")
    /\ \A d \in DOMAIN deployment : Cardinality(Versions(d)) = 1
    /\ run' = [run EXCEPT !.stage = "alone", !.image = CHOOSE image \in Versions("decider") : TRUE]
    /\ UNCHANGED <<deployVars, namespace, busy, begun, cleanup>>

\* CheckNoOtherRun that takes a namespace being deleted for one that is gone.
IgnoresTerminating ==
    /\ At("alone")
    /\ \A r \in RunId : namespace[r] # "active"
    /\ run' = [run EXCEPT !.stage = "idle"]
    /\ UNCHANGED <<deployVars, namespace, busy, begun, cleanup>>

CheckNoOtherRun ==
    /\ At("alone")
    /\ Labelled = {}
    /\ run' = [run EXCEPT !.stage = "idle"]
    /\ UNCHANGED <<deployVars, namespace, busy, begun, cleanup>>

CheckIdle ==
    /\ At("idle")
    /\ busy = {}
    /\ run' = [run EXCEPT !.stage = "create"]
    /\ UNCHANGED <<deployVars, namespace, busy, begun, cleanup>>

CreateNamespace ==
    /\ At("create")
    /\ namespace' = [namespace EXCEPT ![run.id] = "active"]
    /\ run' = [run EXCEPT !.stage = "measure"]
    /\ UNCHANGED <<deployVars, busy, begun, cleanup>>

Submit ==
    /\ At("measure")
    /\ namespace[run.id] = "active"
    /\ busy' = busy \cup {run.id}
    /\ UNCHANGED <<deployVars, namespace, run, begun, cleanup>>

PodsFinish ==
    /\ \E r \in busy : busy' = busy \ {r}
    /\ UNCHANGED <<deployVars, namespace, run, begun, cleanup>>

\* The pods have finished or run out of time, or the run is refused, fails or is cancelled: its namespace
\* may have been created all the same.
Stops ==
    /\ run # NoRun /\ run.stage \notin {"delete", "wait"}
    /\ run' = [run EXCEPT !.stage = "delete"]
    /\ namespace' \in {namespace} \cup
          (IF run.stage = "create" THEN {[namespace EXCEPT ![run.id] = "active"]} ELSE {})
    /\ UNCHANGED <<deployVars, busy, begun, cleanup>>

\* delete_own_namespace, by the owner's label.
DeleteOwn ==
    /\ At("delete")
    /\ namespace' = [namespace EXCEPT ![run.id] = IF @ = "active" THEN "terminating" ELSE @]
    /\ run' = [run EXCEPT !.stage = "wait"]
    /\ UNCHANGED <<deployVars, busy, begun, cleanup>>

Leave ==
    /\ At("wait")
    /\ namespace[run.id] = "none"
    /\ run' = NoRun
    /\ UNCHANGED <<deployVars, namespace, busy, begun, cleanup>>

\* The process is killed, or its deletion fails or does not end in time.
Dies ==
    /\ run # NoRun
    /\ run' = NoRun
    /\ UNCHANGED <<deployVars, namespace, busy, begun, cleanup>>

\* Kubernetes ends the deletion of a namespace, its pods first.
NamespaceGone(r) ==
    /\ namespace[r] = "terminating"
    /\ namespace' = [namespace EXCEPT ![r] = "none"]
    /\ busy' = busy \ {r}
    /\ UNCHANGED <<deployVars, run, begun, cleanup>>

-----------------------------------------------------------------------------
(* kexp.py cleanup.                                                        *)

Beating(r) == run # NoRun /\ run.id = r /\ run.stage \notin {"delete", "wait"}

\* A namespace being deleted is listed whatever its heartbeat; a dead run's, once it is old enough.
FindStale ==
    /\ cleanup = NoCleanup
    /\ \E stale \in SUBSET Labelled :
          /\ stale # {}
          /\ \A r \in Labelled : namespace[r] = "terminating" => r \in stale
          /\ \A r \in stale : namespace[r] = "terminating" \/ ~Beating(r)
          /\ cleanup' = stale
    /\ UNCHANGED <<deployVars, namespace, busy, run, begun>>

DeleteStale ==
    /\ cleanup # NoCleanup
    /\ namespace' = [r \in RunId |-> IF r \in cleanup /\ namespace[r] = "active" THEN "terminating"
                                     ELSE namespace[r]]
    /\ cleanup' = NoCleanup
    /\ UNCHANGED <<deployVars, busy, run, begun>>

RunStep ==
    \/ ReadImages \/ CheckNoOtherRun \/ CheckIdle \/ CreateNamespace \/ Submit
    \/ Stops \/ DeleteOwn \/ Leave \/ Dies

Next ==
    \/ Deploying \/ RunStep \/ PodsFinish \/ FindStale \/ DeleteStale
    \/ \E r \in RunId : ReadEnv(r) \/ NamespaceGone(r)

Spec == Init /\ [][Next]_vars

-----------------------------------------------------------------------------
(* Properties.                                                             *)

\* The shape of the state; every script has an image of its own, so that the decider restarts and forgets
\* what it learned (deploy-policy.sh:28-29), and a run's namespace and pods are those of a run that began.
TypeOK ==
    /\ DeployTypeOK
    /\ namespace \in [RunId -> {"none", "active", "terminating"}]
    /\ busy \cup Labelled \subseteq begun /\ busy \subseteq Labelled
    /\ run # NoRun => run.id \in begun /\ run.strategy \in Policy /\ run.image \in 0 .. deploys
    /\ cleanup # NoCleanup => cleanup \subseteq begun

\* workloads/README.md:160-166: a run that measures is alone, whatever jobs were killed before it and whoever
\* cleans up meanwhile, and its own namespace is not deleted under it.
AloneWhileMeasuring ==
    At("measure") => Labelled = {run.id} /\ namespace[run.id] = "active" /\ busy \subseteq {run.id}

\* kexp.py:355-356, 502-503: while a run measures, the scheduler and the decider that answer are of the policy
\* its meta.json names, which it read from a Deployment, and the decider is the image it names.
MeasuresWhatItSays ==
    At("measure") =>
        /\ \A d \in DOMAIN deployment : \A pod \in ReadyOf(d) : pod.template.strategy = run.strategy
        /\ \A pod \in ReadyOf("decider") : pod.template.image = run.image
=============================================================================
