---------------------------- MODULE OperationsProofs ----------------------------
(***************************************************************************)
(* The safety properties of Deploy and Operations, for any policies,       *)
(* number of deployments, runs, failures and kills.                        *)
(*                                                                         *)
(* Reached says what the commands behind a script have made of the         *)
(* Deployments; Guarded, that a scheduler is there only beside a decider   *)
(* that is rolled out. Both are kept by every command, its failure and a   *)
(* kill, and SchedulerAgrees follows.                                      *)
(***************************************************************************)
EXTENDS Operations, FiniteSetTheorems, TLAPS

Name == {"decider", "scheduler"}

AnyPod == [template : Template, phase : {"starting", "ready", "terminating"}]

AnyDeployment == [template : Template, replicas : {0, 1}, pods : SUBSET AnyPod]

AnyScript == [policy : Policy, image : 0 .. MaxDeploys, rollback : BOOLEAN, next : 1 .. 10,
              previous : [Name -> Template]]

\* The shape of what Deploy changes.
Shape ==
    /\ deployment \in [Name -> AnyDeployment]
    /\ deploys \in 0 .. MaxDeploys /\ failures \in 0 .. MaxFailures
    /\ images \subseteq 0 .. deploys
    /\ script # NoScript => script \in AnyScript
    /\ outcome # NoOutcome => outcome \in [of : AnyScript, how : {"success", "restored", "failed"}]

D == deployment["decider"]
S == deployment["scheduler"]

\* The scheduler is paused, its last pod gone.
Quiet == S.replicas = 0 /\ S.pods = {}

\* What the commands of a deployment, up to the k-th, have reached.
ForwardReached(k) ==
    /\ k \in 1 .. 10
    /\ k = 2 => S.replicas = 0
    /\ k \in 3 .. 7 => Quiet
    /\ k >= 4 => D.template.image = script.image
    /\ k >= 5 => D.template.strategy = script.policy
    /\ k >= 6 => RolledOut("decider")
    /\ k >= 7 => S.template.strategy = script.policy
    /\ k >= 8 => S.replicas = 1
    /\ k >= 9 => RolledOut("scheduler")

\* What those of a rollback have.
BackReached(k) ==
    /\ k \in 1 .. 8
    /\ k = 2 => S.replicas = 0
    /\ k \in 3 .. 6 => Quiet
    /\ k >= 4 => D.template = script.previous["decider"]
    /\ k >= 5 => RolledOut("decider")
    /\ k >= 6 => S.template = script.previous["scheduler"]
    /\ k >= 7 => S.replicas = 1
    /\ k >= 8 => RolledOut("scheduler")

Reached ==
    script # NoScript =>
        IF script.rollback THEN BackReached(script.next) ELSE ForwardReached(script.next)

\* A scheduler is there, or may come, only beside one decider, whose policy it names once it is ready.
Guarded ==
    /\ D.replicas = 1
    /\ S.pods # {} \/ S.replicas = 1 => RolledOut("decider")
    /\ \A pod \in S.pods : pod.template = S.template
    /\ \A pod \in ReadyOf("scheduler") : pod.template.strategy = D.template.strategy

\* What a deployment that has ended left.
Reported == outcome # NoOutcome => script = NoScript /\ OutcomeTrue

\* The images a decider may be asked to go back to are on the node.
Restorable ==
    /\ D.template.image \in images
    /\ script # NoScript =>
          /\ {script.image, script.previous["decider"].image} \subseteq images
          /\ script.previous["decider"].image < script.image
    /\ outcome # NoOutcome => outcome.of.previous["decider"].image \in images

DeployInv == Shape /\ Reached /\ Guarded /\ Reported /\ Restorable

-----------------------------------------------------------------------------
(* The plans.                                                              *)

LEMMA StepsPlan ==
    /\ Len(Steps) = 9
    /\ Steps[1] = "stop" /\ Steps[2] = "wait" /\ Steps[3] = "image" /\ Steps[4] = "strategy"
    /\ Steps[5] = "ready decider" /\ Steps[6] = "declare" /\ Steps[7] = "scale"
    /\ Steps[8] = "ready scheduler" /\ Steps[9] = "clean up"
    /\ \A k \in 1 .. 9 : Steps[k] = "clean up" => k = 9
BY DEF Steps

LEMMA RollbackPlan ==
    /\ Len(RollbackSteps) = 7
    /\ RollbackSteps[1] = "stop" /\ RollbackSteps[2] = "wait" /\ RollbackSteps[3] = "undo decider"
    /\ RollbackSteps[4] = "ready decider" /\ RollbackSteps[5] = "undo scheduler"
    /\ RollbackSteps[6] = "scale" /\ RollbackSteps[7] = "ready scheduler"
    /\ \A k \in 1 .. 7 : RollbackSteps[k] # "clean up"
BY DEF RollbackSteps

\* Which command is next.
LEMMA UnderwayStep ==
    ASSUME Shape, Underway
    PROVE  /\ script \in AnyScript
           /\ script.rollback => script.next \in 1 .. 7 /\ Step = RollbackSteps[script.next]
           /\ ~script.rollback => script.next \in 1 .. 9 /\ Step = Steps[script.next]
<1>1. script \in AnyScript /\ script.next \in 1 .. 10
  BY DEF Underway, Shape, AnyScript
<1>2. ASSUME script.rollback
      PROVE  script.next \in 1 .. 7 /\ Step = RollbackSteps[script.next]
  <2>1. Plan = RollbackSteps
    BY <1>2 DEF Plan
  <2>2. Len(RollbackSteps) = 7
    BY RollbackPlan
  <2>3. script.next <= 7
    BY <2>1, <2>2 DEF Underway
  <2>4. script.next \in 1 .. 7
    BY <1>1, <2>3
  <2> QED BY <2>1, <2>4 DEF Step
<1>3. ASSUME ~script.rollback
      PROVE  script.next \in 1 .. 9 /\ Step = Steps[script.next]
  <2>1. Plan = Steps
    BY <1>3 DEF Plan
  <2>2. Len(Steps) = 9
    BY StepsPlan
  <2>3. script.next <= 9
    BY <2>1, <2>2 DEF Underway
  <2>4. script.next \in 1 .. 9
    BY <1>1, <2>3
  <2> QED BY <2>1, <2>4 DEF Step
<1> QED BY <1>1, <1>2, <1>3

-----------------------------------------------------------------------------
(* The rolling updates.                                                    *)

\* One Deployment takes a step by itself.
Rolls(d) == PodCreated(d) \/ PodStarts(d) \/ PodRetires(d) \/ PodGone(d)

\* Only its pods change.
LEMMA RollsChangesPods ==
    ASSUME Shape, NEW d \in Name, Rolls(d)
    PROVE  /\ deployment' \in [Name -> AnyDeployment]
           /\ \A e \in Name : deployment'[e].template = deployment[e].template
           /\ \A e \in Name : deployment'[e].replicas = deployment[e].replicas
           /\ \A e \in Name \ {d} : deployment'[e] = deployment[e]
<1>1. deployment[d] \in AnyDeployment /\ deployment[d].pods \subseteq AnyPod
  BY DEF Shape, AnyDeployment
<1>2. \E new \in SUBSET AnyPod : deployment' = [deployment EXCEPT ![d].pods = new]
  <2>1. CASE PodCreated(d)
    <3>1. [template |-> deployment[d].template, phase |-> "starting"] \in AnyPod
      BY <1>1 DEF AnyDeployment, AnyPod
    <3> DEFINE new == deployment[d].pods
                        \cup {[template |-> deployment[d].template, phase |-> "starting"]}
    <3>2. new \in SUBSET AnyPod
      BY <1>1, <3>1
    <3>3. deployment' = [deployment EXCEPT ![d].pods = new]
      BY <2>1 DEF PodCreated
    <3> QED BY <3>2, <3>3
  <2>2. ASSUME NEW pod \in Pods(d), NEW phase \in {"ready", "terminating"}, PodTurns(d, pod, phase)
        PROVE  \E new \in SUBSET AnyPod : deployment' = [deployment EXCEPT ![d].pods = new]
    <3> DEFINE turned == [pod EXCEPT !.phase = phase]
    <3>1. pod \in AnyPod
      BY <1>1 DEF Pods
    <3>2. turned \in AnyPod
      BY <3>1 DEF AnyPod
    <3> DEFINE new == (deployment[d].pods \ {pod}) \cup {turned}
    <3>3. new \in SUBSET AnyPod
      BY <1>1, <3>2
    <3>4. deployment' = [deployment EXCEPT ![d].pods = new]
      BY <2>2 DEF PodTurns
    <3> QED BY <3>3, <3>4
  <2>3. CASE PodGone(d)
    <3>1. PICK pod \in deployment[d].pods :
              deployment' = [deployment EXCEPT ![d].pods = deployment[d].pods \ {pod}]
      BY <2>3 DEF PodGone
    <3> QED BY <1>1, <3>1
  <2> QED BY <2>1, <2>2, <2>3 DEF Rolls, PodStarts, PodRetires
<1>3. PICK new \in SUBSET AnyPod : deployment' = [deployment EXCEPT ![d].pods = new]
  BY <1>2
<1> QED BY <1>3 DEF Shape, AnyDeployment

\* A Deployment that is rolled out stays so.
LEMMA RolledOutStays ==
    ASSUME Shape, NEW d \in Name, Rolls(d), NEW e \in Name, RolledOut(e)
    PROVE  RolledOut(e)' /\ Pods(e)' = Pods(e) /\ ReadyOf(e)' = ReadyOf(e)
<1>1. CASE e # d
  BY <1>1, RollsChangesPods DEF RolledOut, Pods, Wanted, ReadyOf
<1>2. CASE e = d
  <2>1. ~PodCreated(d)
    BY <1>2, FS_EmptySet DEF PodCreated, RolledOut
  <2>2. ~PodStarts(d)
    BY <1>2 DEF PodStarts, RolledOut, ReadyOf
  <2>3. ~PodRetires(d)
    BY <1>2 DEF PodRetires, Retires, RolledOut
  <2>4. PICK pod \in deployment[d].pods \ Pods(d) :
            deployment' = [deployment EXCEPT ![d].pods = @ \ {pod}]
    BY <2>1, <2>2, <2>3 DEF Rolls, PodGone
  <2>5. /\ deployment'[d].pods = deployment[d].pods \ {pod}
        /\ deployment'[d].template = deployment[d].template
        /\ deployment'[d].replicas = deployment[d].replicas
    BY <2>4 DEF Shape, AnyDeployment
  <2>6. pod.phase = "terminating"
    BY <2>4 DEF Pods
  <2>7. Pods(d)' = Pods(d) /\ ReadyOf(d)' = ReadyOf(d)
    BY <2>5, <2>6 DEF Pods, ReadyOf
  <2>8. Wanted(d)' = Wanted(d)
    BY <2>5, <2>7 DEF Wanted
  <2> QED BY <1>2, <2>5, <2>7, <2>8 DEF RolledOut
<1> QED BY <1>1, <1>2

\* What Deployments that do not change are said to be.
LEMMA SameDeployment ==
    ASSUME NEW d, deployment'[d] = deployment[d]
    PROVE  RolledOut(d)' = RolledOut(d) /\ Pods(d)' = Pods(d) /\ ReadyOf(d)' = ReadyOf(d)
BY DEF RolledOut, Pods, Wanted, ReadyOf

\* What the pods of a Deployment may become.
LEMMA RollsPods ==
    ASSUME Shape, NEW d \in Name, Rolls(d)
    PROVE  /\ (deployment[d].replicas = 0 /\ deployment[d].pods = {}) => deployment'[d].pods = {}
           /\ deployment'[d].pods # {} => deployment[d].pods # {} \/ deployment[d].replicas = 1
           /\ \A pod \in deployment'[d].pods :
                 \/ pod \in deployment[d].pods
                 \/ /\ pod.template = deployment[d].template
                    /\ pod.phase = "starting"
                 \/ \E old \in Pods(d) :
                       /\ pod.template = old.template
                       /\ pod.phase = "ready" => CanStart(d, old)
<1>1. deployment[d] \in AnyDeployment /\ deployment[d].pods \subseteq AnyPod
  BY DEF Shape, AnyDeployment
<1>2. CASE PodCreated(d)
  <2>1. deployment'[d].pods = deployment[d].pods
                        \cup {[template |-> deployment[d].template, phase |-> "starting"]}
    BY <1>1, <1>2 DEF PodCreated, Shape
  <2>2. deployment[d].replicas = 1
    BY <1>2 DEF PodCreated
  <2> QED BY <2>1, <2>2
<1>3. ASSUME NEW old \in Pods(d), NEW phase \in {"ready", "terminating"}, PodTurns(d, old, phase),
             phase = "ready" => CanStart(d, old)
      PROVE  /\ deployment[d].pods # {}
             /\ \A pod \in deployment'[d].pods :
                   \/ pod \in deployment[d].pods
                   \/ pod.template = old.template /\ (pod.phase = "ready" => CanStart(d, old))
  <2>1. old \in deployment[d].pods /\ old \in AnyPod
    BY <1>1 DEF Pods
  <2>2. deployment'[d].pods = (deployment[d].pods \ {old}) \cup {[old EXCEPT !.phase = phase]}
    BY <1>1, <1>3 DEF PodTurns, Shape
  <2>3. [old EXCEPT !.phase = phase].template = old.template /\ [old EXCEPT !.phase = phase].phase = phase
    BY <2>1 DEF AnyPod
  <2> QED BY <1>3, <2>1, <2>2, <2>3
<1>4. CASE PodStarts(d)
  BY <1>3, <1>4 DEF PodStarts
<1>5. CASE PodRetires(d)
  BY <1>3, <1>5 DEF PodRetires
<1>6. CASE PodGone(d)
  <2>1. PICK pod \in deployment[d].pods : deployment'[d].pods = deployment[d].pods \ {pod}
    BY <1>1, <1>6 DEF PodGone, Shape
  <2> QED BY <2>1
<1> QED BY <1>2, <1>4, <1>5, <1>6 DEF Rolls

\* Kubernetes keeps what the deployments rely on.
LEMMA RolloutKeeps == DeployInv /\ Rollout => DeployInv'
<1> SUFFICES ASSUME DeployInv, Rollout PROVE DeployInv'
  OBVIOUS
<1>1. PICK d \in Name : Rolls(d)
  BY DEF Rollout, Rolls, DeployInv, Shape
<1>2. UNCHANGED <<images, script, outcome, deploys, failures>>
  BY DEF Rollout
<1>3. /\ deployment' \in [Name -> AnyDeployment]
      /\ \A e \in Name : deployment'[e].template = deployment[e].template
      /\ \A e \in Name : deployment'[e].replicas = deployment[e].replicas
      /\ \A e \in Name \ {d} : deployment'[e] = deployment[e]
  BY <1>1, RollsChangesPods DEF DeployInv
<1>4. \A e \in Name : RolledOut(e) => RolledOut(e)' /\ Pods(e)' = Pods(e) /\ ReadyOf(e)' = ReadyOf(e)
  BY <1>1, RolledOutStays DEF DeployInv
<1>5. Quiet => Quiet'
  BY <1>1, <1>3, RollsPods DEF Quiet, S, Name, DeployInv
<1>6. Shape'
  BY <1>2, <1>3 DEF DeployInv, Shape, AnyScript
<1>7. Reached'
  <2>1. ASSUME NEW k, ForwardReached(k) PROVE ForwardReached(k)'
    BY <1>2, <1>3, <1>4, <1>5, <2>1 DEF ForwardReached, D, S, Name
  <2>2. ASSUME NEW k, BackReached(k) PROVE BackReached(k)'
    BY <1>2, <1>3, <1>4, <1>5, <2>2 DEF BackReached, D, S, Name
  <2> QED BY <1>2, <2>1, <2>2 DEF DeployInv, Reached
<1>8. Guarded'
  <2>1. (D.replicas = 1)'
    BY <1>3 DEF DeployInv, Guarded, D, Name
  <2>2. S.pods' # {} => S.pods # {} \/ S.replicas = 1
    BY <1>1, <1>3, RollsPods DEF S, Name, DeployInv
  <2>3. (S.pods # {} \/ S.replicas = 1 => RolledOut("decider"))'
    BY <1>3, <1>4, <2>2 DEF DeployInv, Guarded, S, Name
  <2>4. CASE d = "decider"
    <3>1. deployment'["scheduler"] = deployment["scheduler"]
      BY <1>3, <2>4 DEF Name
    <3>2. ReadyOf("scheduler")' = ReadyOf("scheduler")
      BY <3>1, SameDeployment
    <3> QED BY <1>3, <2>1, <2>3, <3>1, <3>2 DEF DeployInv, Guarded, S, D, Name
  <2>5. CASE d = "scheduler"
    <3>1. ASSUME NEW pod \in S.pods'
          PROVE  /\ pod.template = S.template
                 /\ pod.phase = "ready" => pod.template.strategy = D.template.strategy
      <4>1. CASE pod \in S.pods
        BY <4>1 DEF DeployInv, Guarded, ReadyOf, S
      <4>2. CASE pod.template = S.template /\ pod.phase = "starting"
        BY <4>2
      <4>3. ASSUME NEW old \in Pods("scheduler"), pod.template = old.template,
                   pod.phase = "ready" => CanStart("scheduler", old)
            PROVE  /\ pod.template = S.template
                   /\ pod.phase = "ready" => pod.template.strategy = D.template.strategy
        <5>1. old \in S.pods
          BY DEF Pods, S
        <5>2. pod.template = S.template
          BY <4>3, <5>1 DEF DeployInv, Guarded
        <5>3. RolledOut("decider")
          BY <5>1 DEF DeployInv, Guarded
        <5>4. ASSUME pod.phase = "ready" PROVE pod.template.strategy = D.template.strategy
          <6>1. PICK q \in ReadyOf("decider") : q.template.strategy = old.template.strategy
            BY <4>3, <5>4 DEF CanStart
          <6>2. q.template = D.template
            BY <5>3 DEF RolledOut, Wanted, Pods, ReadyOf, D
          <6> QED BY <4>3, <6>1, <6>2
        <5> QED BY <5>2, <5>4
      <4> QED BY <1>1, <2>5, <4>1, <4>2, <4>3, RollsPods DEF DeployInv, S
    <3> QED BY <1>3, <2>1, <2>3, <3>1 DEF Guarded, ReadyOf, S, D, Name
  <2> QED BY <2>4, <2>5 DEF Name
<1>9. Reported'
  <2>1. DOMAIN deployment = Name /\ DOMAIN deployment' = Name
    BY <1>3 DEF DeployInv, Shape
  <2> QED BY <1>2, <1>3, <1>4, <2>1 DEF DeployInv, Reported, OutcomeTrue, Name
<1>10. Restorable'
  BY <1>2, <1>3 DEF DeployInv, Restorable, D, Name
<1> QED BY <1>6, <1>7, <1>8, <1>9, <1>10 DEF DeployInv

-----------------------------------------------------------------------------
(* The commands.                                                           *)

\* What a command may make of the Deployments, and what is known when it does.
Change(new) ==
    \/ new = deployment
    \/ new = [deployment EXCEPT !["scheduler"].replicas = 0]
    \/ Quiet /\ \E template \in Template : new = [deployment EXCEPT !["decider"].template = template]
    \/ Quiet /\ \E template \in Template : new = [deployment EXCEPT !["scheduler"].template = template]
    \/ RolledOut("decider") /\ new = [deployment EXCEPT !["scheduler"].replicas = 1]

LEMMA EffectChanges ==
    ASSUME Shape, Reached, Underway
    PROVE  Change(Effect)
<1>1. script \in AnyScript /\ script # NoScript
  BY UnderwayStep DEF Underway
<1>2. D \in AnyDeployment /\ S \in AnyDeployment
  BY DEF Shape, D, S, Name
<1>3. CASE script.rollback
  <2>1. script.next \in 1 .. 7 /\ Step = RollbackSteps[script.next] /\ BackReached(script.next)
    BY <1>1, <1>3, UnderwayStep DEF Reached
  <2>2. CASE script.next = 1
    BY <2>1, <2>2, RollbackPlan DEF Effect, Change
  <2>3. CASE script.next \in {2, 4, 7}
    <3>1. Step \in {"wait", "ready decider", "ready scheduler"}
      BY <2>1, <2>3, RollbackPlan
    <3>2. Effect = deployment
      BY <3>1 DEF Effect
    <3> QED BY <3>2 DEF Change
  <2>4. CASE script.next = 3
    <3>1. Quiet
      BY <2>1, <2>4 DEF BackReached
    <3>2. Step = "undo decider"
      BY <2>1, <2>4, RollbackPlan
    <3>3. script.previous["decider"] \in Template
      BY <1>1 DEF AnyScript, Name
    <3>4. Effect = [deployment EXCEPT !["decider"].template = script.previous["decider"]]
      BY <3>2 DEF Effect
    <3> QED BY <3>1, <3>2, <3>3, <3>4 DEF Change
  <2>5. CASE script.next = 5
    <3>1. Quiet
      BY <2>1, <2>5 DEF BackReached
    <3>2. Step = "undo scheduler"
      BY <2>1, <2>5, RollbackPlan
    <3>3. script.previous["scheduler"] \in Template
      BY <1>1 DEF AnyScript, Name
    <3>4. Effect = [deployment EXCEPT !["scheduler"].template = script.previous["scheduler"]]
      BY <3>2 DEF Effect
    <3> QED BY <3>1, <3>2, <3>3, <3>4 DEF Change
  <2>6. CASE script.next = 6
    <3>1. RolledOut("decider")
      BY <2>1, <2>6 DEF BackReached
    <3>2. Step = "scale"
      BY <2>1, <2>6, RollbackPlan
    <3>3. Effect = [deployment EXCEPT !["scheduler"].replicas = 1]
      BY <3>2 DEF Effect
    <3> QED BY <3>1, <3>2, <3>3 DEF Change
  <2> QED BY <2>1, <2>2, <2>3, <2>4, <2>5, <2>6
<1>4. CASE ~script.rollback
  <2>1. script.next \in 1 .. 9 /\ Step = Steps[script.next] /\ ForwardReached(script.next)
    BY <1>1, <1>4, UnderwayStep DEF Reached
  <2>2. CASE script.next = 1
    BY <2>1, <2>2, StepsPlan DEF Effect, Change
  <2>3. CASE script.next \in {2, 5, 8, 9}
    <3>1. Step \in {"wait", "ready decider", "ready scheduler", "clean up"}
      BY <2>1, <2>3, StepsPlan
    <3>2. Effect = deployment
      BY <3>1 DEF Effect
    <3> QED BY <3>2 DEF Change
  <2>4. CASE script.next = 3
    <3>1. Quiet
      BY <2>1, <2>4 DEF ForwardReached
    <3>2. Step = "image"
      BY <2>1, <2>4, StepsPlan
    <3>3. [D.template EXCEPT !.image = script.image] \in Template
      BY <1>1, <1>2 DEF AnyScript, AnyDeployment, Template
    <3>4. Effect = [deployment EXCEPT !["decider"].template = [D.template EXCEPT !.image = script.image]]
      BY <3>2 DEF Effect, D, Shape, AnyDeployment, Name
    <3> QED BY <3>1, <3>2, <3>3, <3>4 DEF Change
  <2>5. CASE script.next = 4
    <3>1. Quiet
      BY <2>1, <2>5 DEF ForwardReached
    <3>2. Step = "strategy"
      BY <2>1, <2>5, StepsPlan
    <3>3. [D.template EXCEPT !.strategy = script.policy] \in Template
      BY <1>1, <1>2 DEF AnyScript, AnyDeployment, Template
    <3>4. Effect = [deployment EXCEPT !["decider"].template = [D.template EXCEPT !.strategy = script.policy]]
      BY <3>2 DEF Effect, D, Shape, AnyDeployment, Name
    <3> QED BY <3>1, <3>2, <3>3, <3>4 DEF Change
  <2>6. CASE script.next = 6
    <3>1. Quiet
      BY <2>1, <2>6 DEF ForwardReached
    <3>2. Step = "declare"
      BY <2>1, <2>6, StepsPlan
    <3>3. [S.template EXCEPT !.strategy = script.policy] \in Template
      BY <1>1, <1>2 DEF AnyScript, AnyDeployment, Template
    <3>4. Effect = [deployment EXCEPT !["scheduler"].template = [S.template EXCEPT !.strategy = script.policy]]
      BY <3>2 DEF Effect, S, Shape, AnyDeployment, Name
    <3> QED BY <3>1, <3>2, <3>3, <3>4 DEF Change
  <2>7. CASE script.next = 7
    <3>1. RolledOut("decider")
      BY <2>1, <2>7 DEF ForwardReached
    <3>2. Step = "scale"
      BY <2>1, <2>7, StepsPlan
    <3>3. Effect = [deployment EXCEPT !["scheduler"].replicas = 1]
      BY <3>2 DEF Effect
    <3> QED BY <3>1, <3>2, <3>3 DEF Change
  <2> QED BY <2>1, <2>2, <2>3, <2>4, <2>5, <2>6, <2>7
<1> QED BY <1>1, <1>3, <1>4 DEF AnyScript

\* A change keeps the shape of the Deployments, and no scheduler beside a decider that is not rolled out.
LEMMA ChangeKeeps ==
    ASSUME Shape, Guarded, Change(deployment')
    PROVE  deployment' \in [Name -> AnyDeployment] /\ Guarded'
<1>1. /\ deployment \in [Name -> AnyDeployment]
      /\ D \in AnyDeployment /\ S \in AnyDeployment
  BY DEF Shape, D, S, Name
<1>2. CASE deployment' = deployment
  BY <1>1, <1>2 DEF Guarded, D, S, RolledOut, Pods, Wanted, ReadyOf
<1>3. ASSUME NEW k \in {0, 1}, k = 1 => RolledOut("decider"),
             deployment' = [deployment EXCEPT !["scheduler"].replicas = k]
      PROVE  deployment' \in [Name -> AnyDeployment] /\ Guarded'
  <2>1. /\ deployment' \in [Name -> AnyDeployment]
        /\ deployment'["decider"] = deployment["decider"]
        /\ deployment'["scheduler"] = [deployment["scheduler"] EXCEPT !.replicas = k]
    BY <1>1, <1>3 DEF AnyDeployment, Name
  <2>2. S.pods' = S.pods /\ S.template' = S.template /\ S.replicas' = k /\ D' = D
    BY <1>1, <2>1 DEF S, D, AnyDeployment
  <2>3. ReadyOf("scheduler")' = ReadyOf("scheduler")
    BY <2>2 DEF ReadyOf, S
  <2>4. RolledOut("decider")' = RolledOut("decider")
    BY <2>1, SameDeployment
  <2> QED BY <1>3, <2>1, <2>2, <2>3, <2>4 DEF Guarded
<1>4. ASSUME Quiet, NEW d \in Name, NEW template \in Template,
             deployment' = [deployment EXCEPT ![d].template = template]
      PROVE  deployment' \in [Name -> AnyDeployment] /\ Guarded'
  <2>1. /\ deployment' \in [Name -> AnyDeployment]
        /\ \A e \in Name : deployment'[e].pods = deployment[e].pods
        /\ \A e \in Name : deployment'[e].replicas = deployment[e].replicas
    BY <1>1, <1>4 DEF AnyDeployment
  <2>2. S.pods' = {} /\ S.replicas' = 0 /\ D.replicas' = 1
    BY <1>4, <2>1 DEF Quiet, S, D, Name, Guarded
  <2> QED BY <2>1, <2>2 DEF Guarded, ReadyOf, S, D
<1> QED BY <1>2, <1>3, <1>4 DEF Change, Name

\* A command leaves the images a rollback needs, whether it is said to have failed or not.
LEMMA CommandLeaves ==
    ASSUME DeployInv, Underway, deployment' \in {deployment, Effect}, CleanUp
    PROVE  /\ deployment' \in [Name -> AnyDeployment] /\ Guarded'
           /\ images' \subseteq images
           /\ {script.image, script.previous["decider"].image} \subseteq images'
           /\ D.template.image' \in images'
<1>1. script \in AnyScript /\ script # NoScript
  BY UnderwayStep DEF Underway, DeployInv
<1>2. deployment' \in [Name -> AnyDeployment] /\ Guarded'
  <2>1. Change(deployment')
    BY EffectChanges DEF Change, DeployInv
  <2> QED BY <2>1, ChangeKeeps DEF DeployInv
<1>3. images' \subseteq images /\ {script.image, script.previous["decider"].image} \subseteq images'
  BY <1>1 DEF CleanUp, Kept, DeployInv, Restorable
<1>4. D.template.image' \in images'
  <2>1. D \in AnyDeployment /\ deployment \in [Name -> AnyDeployment]
    BY DEF DeployInv, Shape, D, Name
  <2>2. CASE Step = "clean up"
    <3>1. ~script.rollback
      BY <2>2, UnderwayStep, RollbackPlan DEF DeployInv
    <3>2. script.next \in 1 .. 9 /\ Steps[script.next] = "clean up"
      BY <2>2, <3>1, UnderwayStep DEF DeployInv
    <3>3. script.next = 9
      BY <3>2, StepsPlan
    <3>4. ForwardReached(9)
      BY <1>1, <3>1, <3>3 DEF DeployInv, Reached
    <3>5. D.template.image = script.image
      BY <3>4 DEF ForwardReached
    <3>6. Effect = deployment
      BY <2>2 DEF Effect
    <3> QED BY <1>3, <3>5, <3>6 DEF D
  <2>3. CASE Step # "clean up"
    <3>1. images' = images
      BY <2>3 DEF CleanUp
    <3>2. D.template.image' \in {D.template.image, script.image, script.previous["decider"].image}
      <4>1. CASE deployment' = deployment
        BY <4>1 DEF D
      <4>2. CASE deployment' = Effect /\ Step = "image"
        BY <2>1, <4>2 DEF Effect, D, AnyDeployment, Template, Name
      <4>3. CASE deployment' = Effect /\ Step = "undo decider"
        BY <2>1, <4>3 DEF Effect, D, AnyDeployment, Template, Name
      <4>4. CASE deployment' = Effect /\ Step = "strategy"
        BY <2>1, <4>4 DEF Effect, D, AnyDeployment, Template, Name
      <4>5. CASE deployment' = Effect /\ Step \in {"stop", "declare", "scale", "undo scheduler"}
        BY <2>1, <4>5 DEF Effect, D, Name
      <4>6. CASE deployment' = Effect /\ Step \notin {"image", "undo decider", "strategy", "stop",
                                                     "declare", "scale", "undo scheduler"}
        BY <4>6 DEF Effect, D
      <4> QED BY <4>1, <4>2, <4>3, <4>4, <4>5, <4>6
    <3> QED BY <1>3, <3>1, <3>2 DEF DeployInv, Restorable
  <2> QED BY <2>2, <2>3
<1> QED BY <1>2, <1>3, <1>4

LEMMA CommandFailsKeeps == DeployInv /\ CommandFails => DeployInv'
<1> SUFFICES ASSUME DeployInv, CommandFails PROVE DeployInv'
  OBVIOUS
<1>1. script \in AnyScript /\ script # NoScript /\ outcome = NoOutcome
  BY UnderwayStep DEF CommandFails, Underway, DeployInv, Reported
<1>2. /\ deployment' \in [Name -> AnyDeployment] /\ Guarded'
      /\ images' \subseteq images
      /\ {script.image, script.previous["decider"].image} \subseteq images'
      /\ D.template.image' \in images'
  BY CommandLeaves DEF CommandFails
<1>3. failures' \in 0 .. MaxFailures /\ deploys' = deploys
  BY DeployAssumption DEF CommandFails, DeployInv, Shape
<1>4. CASE script.rollback
  <2>1. script' = NoScript /\ outcome' = [of |-> script, how |-> "failed"]
    BY <1>4 DEF CommandFails, Ends
  <2>2. Shape'
    BY <1>1, <1>2, <1>3, <2>1 DEF DeployInv, Shape
  <2>3. Reported'
    BY <2>1 DEF Reported, OutcomeTrue
  <2>4. Reached' /\ Restorable'
    BY <1>2, <2>1 DEF Reached, Restorable
  <2> QED BY <1>2, <2>2, <2>3, <2>4 DEF DeployInv
<1>5. CASE ~script.rollback
  <2>1. script' = [script EXCEPT !.rollback = TRUE, !.next = 1] /\ outcome' = NoOutcome
    BY <1>1, <1>5 DEF CommandFails
  <2>2. /\ script'.rollback /\ script'.next = 1 /\ script'.policy = script.policy
        /\ script'.image = script.image /\ script'.previous = script.previous
    BY <1>1, <2>1 DEF AnyScript
  <2>8. script' \in AnyScript
    <3>1. ASSUME NEW any \in AnyScript, NEW rollback \in BOOLEAN
          PROVE  [any EXCEPT !.rollback = rollback] \in AnyScript
      BY DEF AnyScript
    <3>2. [script EXCEPT !.rollback = TRUE] \in AnyScript
      BY <1>1, <3>1
    <3>3. ASSUME NEW any \in AnyScript PROVE [any EXCEPT !.next = 1] \in AnyScript
      BY DEF AnyScript
    <3> QED BY <2>1, <3>2, <3>3
  <2>3. Shape'
    BY <1>1, <1>2, <1>3, <2>1, <2>8 DEF DeployInv, Shape
  <2>4. Reported'
    BY <2>1 DEF Reported
  <2>5. Restorable'
    BY <1>1, <1>2, <2>1, <2>2 DEF DeployInv, Restorable
  <2>6. BackReached(1)'
    BY DEF BackReached
  <2>7. Reached'
    BY <2>2, <2>6 DEF Reached
  <2> QED BY <1>2, <2>3, <2>4, <2>5, <2>7 DEF DeployInv
<1> QED BY <1>1, <1>4, <1>5 DEF AnyScript

LEMMA CommandKeeps == DeployInv /\ Command => DeployInv'
<1> SUFFICES ASSUME DeployInv, Command PROVE DeployInv'
  OBVIOUS
<1>1. script \in AnyScript /\ script # NoScript /\ outcome = NoOutcome /\ deployment' = Effect
  BY UnderwayStep DEF Command, Underway, DeployInv, Reported
<1>2. /\ deployment' \in [Name -> AnyDeployment] /\ Guarded'
      /\ images' \subseteq images
      /\ {script.image, script.previous["decider"].image} \subseteq images'
      /\ D.template.image' \in images'
  BY CommandLeaves DEF Command
<1>3. outcome' = NoOutcome /\ deploys' = deploys /\ failures' = failures /\ Waits /\ Underway
  BY <1>1 DEF Command
<1>4. script' = [script EXCEPT !.next = @ + 1]
  BY DEF Command
<1>5. /\ script.rollback => script.next \in 1 .. 7
      /\ ~script.rollback => script.next \in 1 .. 9
  BY <1>3, UnderwayStep DEF DeployInv
<1>6. /\ script' \in AnyScript /\ script'.next = script.next + 1 /\ script'.rollback = script.rollback
      /\ script'.policy = script.policy /\ script'.image = script.image
      /\ script'.previous = script.previous
  BY <1>1, <1>4, <1>5 DEF AnyScript
<1>7. Shape' /\ Reported' /\ Restorable'
  BY <1>1, <1>2, <1>3, <1>6 DEF DeployInv, Shape, Reported, Restorable
<1>8. /\ D \in AnyDeployment /\ S \in AnyDeployment /\ deployment \in [Name -> AnyDeployment]
      /\ D.replicas = 1
  BY DEF DeployInv, Shape, Guarded, D, S, Name
<1>9. deployment' = deployment =>
         /\ D' = D /\ S' = S /\ Quiet' = Quiet
         /\ RolledOut("decider")' = RolledOut("decider")
         /\ RolledOut("scheduler")' = RolledOut("scheduler")
  BY SameDeployment DEF D, S, Quiet
<1>10. ASSUME script.rollback, NEW k \in 1 .. 7, script.next = k
      PROVE  BackReached(k + 1)'
  <2>1. Step = RollbackSteps[k] /\ BackReached(k)
    BY <1>1, <1>3, <1>10, UnderwayStep DEF Reached, DeployInv
  <2>2. CASE k = 1
    <3>1. Step = "stop"
      BY <2>1, <2>2, RollbackPlan
    <3>2. S.replicas' = 0
      BY <1>1, <1>8, <3>1 DEF Effect, S, AnyDeployment, Name
    <3> QED BY <1>6, <2>2, <3>2 DEF BackReached
  <2>3. CASE k = 2
    <3>1. Step = "wait"
      BY <2>1, <2>3, RollbackPlan
    <3>2. S.pods = {} /\ S.replicas = 0 /\ deployment' = deployment
      BY <1>1, <1>3, <2>1, <2>3, <3>1 DEF Effect, Waits, S, BackReached
    <3>3. Quiet'
      BY <1>9, <3>2 DEF Quiet
    <3> QED BY <1>6, <2>3, <3>3 DEF BackReached
  <2>4. CASE k = 3
    <3>1. Step = "undo decider"
      BY <2>1, <2>4, RollbackPlan
    <3>2. Quiet
      BY <2>1, <2>4 DEF BackReached
    <3>3. D.template' = script.previous["decider"] /\ S' = S
      BY <1>1, <1>8, <3>1 DEF Effect, D, S, AnyDeployment, Name
    <3>4. Quiet'
      BY <3>2, <3>3 DEF Quiet
    <3> QED BY <1>6, <2>4, <3>3, <3>4 DEF BackReached
  <2>5. CASE k = 4
    <3>1. Step = "ready decider"
      BY <2>1, <2>5, RollbackPlan
    <3>2. RolledOut("decider") /\ deployment' = deployment
      BY <1>1, <1>3, <3>1 DEF Effect, Waits
    <3>3. Quiet /\ D.template = script.previous["decider"]
      BY <2>1, <2>5 DEF BackReached
    <3> QED BY <1>6, <2>5, <1>9, <3>2, <3>3 DEF BackReached
  <2>6. CASE k = 5
    <3>1. Step = "undo scheduler"
      BY <2>1, <2>6, RollbackPlan
    <3>2. Quiet /\ D.template = script.previous["decider"] /\ RolledOut("decider")
      BY <2>1, <2>6 DEF BackReached
    <3>3. /\ S.template' = script.previous["scheduler"] /\ S.replicas' = S.replicas /\ S.pods' = S.pods
          /\ D' = D
      BY <1>1, <1>8, <3>1 DEF Effect, D, S, AnyDeployment, Name
    <3>4. Quiet' /\ RolledOut("decider")'
      BY <3>2, <3>3, SameDeployment DEF Quiet, D
    <3> QED BY <1>6, <2>6, <3>2, <3>3, <3>4 DEF BackReached
  <2>7. CASE k = 6
    <3>1. Step = "scale"
      BY <2>1, <2>7, RollbackPlan
    <3>2. /\ D.template = script.previous["decider"] /\ RolledOut("decider")
          /\ S.template = script.previous["scheduler"]
      BY <2>1, <2>7 DEF BackReached
    <3>3. S.template' = S.template /\ S.replicas' = 1 /\ D' = D
      BY <1>1, <1>8, <3>1 DEF Effect, D, S, AnyDeployment, Name
    <3>4. RolledOut("decider")'
      BY <3>2, <3>3, SameDeployment DEF D
    <3> QED BY <1>6, <2>7, <3>2, <3>3, <3>4 DEF BackReached
  <2>8. CASE k = 7
    <3>1. Step = "ready scheduler"
      BY <2>1, <2>8, RollbackPlan
    <3>2. RolledOut("scheduler") /\ deployment' = deployment
      BY <1>1, <1>3, <3>1 DEF Effect, Waits
    <3>3. /\ D.template = script.previous["decider"] /\ RolledOut("decider")
          /\ S.template = script.previous["scheduler"] /\ S.replicas = 1
      BY <2>1, <2>8 DEF BackReached
    <3> QED BY <1>6, <2>8, <1>9, <3>2, <3>3 DEF BackReached
  <2> QED BY <2>1, <2>2, <2>3, <2>4, <2>5, <2>6, <2>7, <2>8
<1>11. ASSUME ~script.rollback, NEW k \in 1 .. 9, script.next = k
      PROVE  ForwardReached(k + 1)'
  <2>1. Step = Steps[k] /\ ForwardReached(k)
    BY <1>1, <1>3, <1>11, UnderwayStep DEF Reached, DeployInv
  <2>2. CASE k = 1
    <3>1. Step = "stop"
      BY <2>1, <2>2, StepsPlan
    <3>2. S.replicas' = 0
      BY <1>1, <1>8, <3>1 DEF Effect, S, AnyDeployment, Name
    <3> QED BY <1>6, <2>2, <3>2 DEF ForwardReached
  <2>3. CASE k = 2
    <3>1. Step = "wait"
      BY <2>1, <2>3, StepsPlan
    <3>2. S.pods = {} /\ S.replicas = 0 /\ deployment' = deployment
      BY <1>1, <1>3, <2>1, <2>3, <3>1 DEF Effect, Waits, S, ForwardReached
    <3>3. Quiet'
      BY <1>9, <3>2 DEF Quiet
    <3> QED BY <1>6, <2>3, <3>3 DEF ForwardReached
  <2>4. CASE k = 3
    <3>1. Step = "image"
      BY <2>1, <2>4, StepsPlan
    <3>2. Quiet
      BY <2>1, <2>4 DEF ForwardReached
    <3>3. D.template.image' = script.image /\ S' = S
      BY <1>1, <1>8, <3>1 DEF Effect, D, S, AnyDeployment, Template, Name
    <3>4. Quiet'
      BY <3>2, <3>3 DEF Quiet
    <3> QED BY <1>6, <2>4, <3>3, <3>4 DEF ForwardReached
  <2>5. CASE k = 4
    <3>1. Step = "strategy"
      BY <2>1, <2>5, StepsPlan
    <3>2. Quiet /\ D.template.image = script.image
      BY <2>1, <2>5 DEF ForwardReached
    <3>3. D.template.strategy' = script.policy /\ D.template.image' = D.template.image /\ S' = S
      BY <1>1, <1>8, <3>1 DEF Effect, D, S, AnyDeployment, Template, Name
    <3>4. Quiet'
      BY <3>2, <3>3 DEF Quiet
    <3> QED BY <1>6, <2>5, <3>2, <3>3, <3>4 DEF ForwardReached
  <2>6. CASE k = 5
    <3>1. Step = "ready decider"
      BY <2>1, <2>6, StepsPlan
    <3>2. RolledOut("decider") /\ deployment' = deployment
      BY <1>1, <1>3, <3>1 DEF Effect, Waits
    <3>3. Quiet /\ D.template.image = script.image /\ D.template.strategy = script.policy
      BY <2>1, <2>6 DEF ForwardReached
    <3> QED BY <1>6, <2>6, <1>9, <3>2, <3>3 DEF ForwardReached
  <2>7. CASE k = 6
    <3>1. Step = "declare"
      BY <2>1, <2>7, StepsPlan
    <3>2. /\ Quiet /\ D.template.image = script.image /\ D.template.strategy = script.policy
          /\ RolledOut("decider")
      BY <2>1, <2>7 DEF ForwardReached
    <3>3. /\ S.template.strategy' = script.policy /\ S.replicas' = S.replicas /\ S.pods' = S.pods
          /\ D' = D
      BY <1>1, <1>8, <3>1 DEF Effect, D, S, AnyDeployment, Template, Name
    <3>4. Quiet' /\ RolledOut("decider")'
      BY <3>2, <3>3, SameDeployment DEF Quiet, D
    <3> QED BY <1>6, <2>7, <3>2, <3>3, <3>4 DEF ForwardReached
  <2>8. CASE k = 7
    <3>1. Step = "scale"
      BY <2>1, <2>8, StepsPlan
    <3>2. /\ D.template.image = script.image /\ D.template.strategy = script.policy
          /\ RolledOut("decider") /\ S.template.strategy = script.policy
      BY <2>1, <2>8 DEF ForwardReached
    <3>3. S.template' = S.template /\ S.replicas' = 1 /\ D' = D
      BY <1>1, <1>8, <3>1 DEF Effect, D, S, AnyDeployment, Name
    <3>4. RolledOut("decider")'
      BY <3>2, <3>3, SameDeployment DEF D
    <3> QED BY <1>6, <2>8, <3>2, <3>3, <3>4 DEF ForwardReached
  <2>9. CASE k \in {8, 9}
    <3>1. Step \in {"ready scheduler", "clean up"}
      BY <2>1, <2>9, StepsPlan
    <3>2. k = 8 => Step = "ready scheduler"
      BY <2>1, <2>9, StepsPlan
    <3>3. deployment' = deployment /\ (k = 8 => RolledOut("scheduler"))
      BY <1>1, <1>3, <3>1, <3>2 DEF Effect, Waits
    <3>4. /\ D.template.image = script.image /\ D.template.strategy = script.policy
          /\ RolledOut("decider") /\ S.template.strategy = script.policy /\ S.replicas = 1
          /\ k = 9 => RolledOut("scheduler")
      BY <2>1, <2>9 DEF ForwardReached
    <3>5. RolledOut("scheduler")
      BY <2>9, <3>3, <3>4
    <3> QED BY <1>6, <2>9, <1>9, <3>3, <3>4, <3>5 DEF ForwardReached
  <2> QED BY <2>1, <2>2, <2>3, <2>4, <2>5, <2>6, <2>7, <2>8, <2>9
<1>12. Reached'
  <2>1. CASE script.rollback
    <3>1. PICK k \in 1 .. 7 : script.next = k
      BY <1>5, <2>1
    <3>2. BackReached(k + 1)'
      BY <1>10, <2>1, <3>1
    <3>3. script'.next = k + 1 /\ script'.rollback
      BY <1>6, <2>1, <3>1
    <3> QED BY <3>2, <3>3 DEF Reached, BackReached
  <2>2. CASE ~script.rollback
    <3>1. PICK k \in 1 .. 9 : script.next = k
      BY <1>5, <2>2
    <3>2. ForwardReached(k + 1)'
      BY <1>11, <2>2, <3>1
    <3>3. script'.next = k + 1 /\ ~script'.rollback
      BY <1>6, <2>2, <3>1
    <3> QED BY <3>2, <3>3 DEF Reached, ForwardReached
  <2> QED BY <2>1, <2>2
<1> QED BY <1>2, <1>7, <1>12 DEF DeployInv

\* A deployment begins with its image on the node, and the one it may go back to.
LEMMA BeginKeeps ==
    ASSUME DeployInv, NEW policy \in Policy, Begin(policy, busy # {})
    PROVE  DeployInv'
<1>1. /\ script = NoScript /\ deploys' = deploys + 1 /\ images' = images \cup {deploys + 1}
      /\ deployment' = deployment /\ outcome' = NoOutcome /\ failures' = failures
      /\ deploys \in 0 .. MaxDeploys /\ deploys < MaxDeploys /\ images \subseteq 0 .. deploys
      /\ script' = [policy |-> policy, image |-> deploys + 1, rollback |-> FALSE, next |-> 1,
                    previous |-> [d \in DOMAIN deployment |-> deployment[d].template]]
  BY DEF Begin, DeployInv, Shape
<1>2. /\ D \in AnyDeployment /\ deployment \in [Name -> AnyDeployment]
      /\ \A d \in Name : deployment[d].template \in Template
  BY DEF DeployInv, Shape, D, Name, AnyDeployment
<1>3. deploys' \in 0 .. MaxDeploys /\ images' \subseteq 0 .. deploys'
  BY <1>1, DeployAssumption
<1>4. script' \in AnyScript
  BY <1>1, <1>2, <1>3 DEF AnyScript
<1>5. /\ script'.image = deploys + 1 /\ script'.previous["decider"] = D.template
      /\ script'.next = 1 /\ ~script'.rollback
  BY <1>1, <1>2 DEF D, Name
<1>6. Shape'
  BY <1>1, <1>2, <1>3, <1>4 DEF DeployInv, Shape
<1>7. Reached'
  BY <1>5 DEF Reached, ForwardReached
<1>8. Guarded'
  BY <1>1 DEF DeployInv, Guarded, D, S, RolledOut, Pods, Wanted, ReadyOf
<1>9. Reported'
  BY <1>1 DEF Reported
<1>10. Restorable'
  <2>1. D.template.image \in images /\ D' = D
    BY <1>1 DEF DeployInv, Restorable, D
  <2>2. D.template.image \in 0 .. deploys
    BY <1>1, <2>1
  <2>3. D.template.image < deploys + 1
    BY <1>1, <2>2
  <2> QED BY <1>1, <1>5, <2>1, <2>3 DEF Restorable
<1> QED BY <1>6, <1>7, <1>8, <1>9, <1>10 DEF DeployInv

\* What a deployment reports when its last command is done.
LEMMA EndKeeps == DeployInv /\ End => DeployInv'
<1> SUFFICES ASSUME DeployInv, End PROVE DeployInv'
  OBVIOUS
<1>1. /\ script \in AnyScript /\ script # NoScript /\ script' = NoScript
      /\ UNCHANGED <<deployment, images, deploys, failures>>
  BY DEF End, Ends, DeployInv, Shape
<1>2. outcome' = [of |-> script, how |-> IF script.rollback THEN "restored" ELSE "success"]
  BY DEF End, Ends
<1>3. Shape' /\ Reached'
  BY <1>1, <1>2 DEF DeployInv, Shape, Reached
<1>4. Guarded'
  BY <1>1 DEF DeployInv, Guarded, D, S, RolledOut, Pods, Wanted, ReadyOf
<1>5. Restorable'
  BY <1>1, <1>2 DEF DeployInv, Restorable, D
<1>6. OutcomeTrue'
  <2>1. DOMAIN deployment' = Name /\ D' = D /\ S' = S /\ D.replicas = 1
    BY <1>1 DEF DeployInv, Shape, Guarded, D, S
  <2>2. \A d \in Name : RolledOut(d)' = RolledOut(d)
    BY <1>1, SameDeployment
  <2>3. CASE script.rollback
    <3>1. Len(Plan) = 7
      BY <2>3, RollbackPlan DEF Plan
    <3>2. script.next = 8
      BY <1>1, <3>1 DEF End, AnyScript
    <3>3. BackReached(8)
      BY <1>1, <2>3, <3>2 DEF DeployInv, Reached
    <3>4. /\ D.template = script.previous["decider"] /\ S.template = script.previous["scheduler"]
          /\ S.replicas = 1 /\ RolledOut("decider") /\ RolledOut("scheduler")
      BY <3>3 DEF BackReached
    <3>5. outcome'.of = script /\ outcome'.how = "restored"
      BY <1>2, <2>3
    <3> QED BY <1>1, <2>1, <2>2, <3>4, <3>5 DEF OutcomeTrue, D, S, Name
  <2>4. CASE ~script.rollback
    <3>1. Len(Plan) = 9
      BY <2>4, StepsPlan DEF Plan
    <3>2. script.next = 10
      BY <1>1, <3>1 DEF End, AnyScript
    <3>3. ForwardReached(10)
      BY <1>1, <2>4, <3>2 DEF DeployInv, Reached
    <3>4. /\ D.template.image = script.image /\ D.template.strategy = script.policy
          /\ S.template.strategy = script.policy
          /\ S.replicas = 1 /\ RolledOut("decider") /\ RolledOut("scheduler")
      BY <3>3 DEF ForwardReached
    <3>5. outcome'.of = script /\ outcome'.how = "success"
      BY <1>2, <2>4
    <3> QED BY <1>1, <2>1, <2>2, <3>4, <3>5 DEF OutcomeTrue, D, S, Name
  <2> QED BY <2>3, <2>4
<1> QED BY <1>1, <1>3, <1>4, <1>5, <1>6 DEF DeployInv, Reported

LEMMA KilledKeeps == DeployInv /\ Killed => DeployInv'
<1> SUFFICES ASSUME DeployInv, Killed PROVE DeployInv'
  OBVIOUS
<1>1. /\ script # NoScript /\ script' = NoScript
      /\ UNCHANGED <<deployment, images, outcome, deploys, failures>>
  BY DEF Killed
<1>2. outcome = NoOutcome
  BY <1>1 DEF DeployInv, Reported
<1>3. Shape' /\ Reached' /\ Reported' /\ Restorable'
  BY <1>1, <1>2 DEF DeployInv, Shape, Reached, Reported, Restorable, D
<1>4. Guarded'
  BY <1>1 DEF DeployInv, Guarded, D, S, RolledOut, Pods, Wanted, ReadyOf
<1> QED BY <1>3, <1>4 DEF DeployInv

\* What leaves the Deployments and the script alone leaves DeployInv.
LEMMA DeployUnchanged == DeployInv /\ UNCHANGED deployVars => DeployInv'
<1> SUFFICES ASSUME DeployInv, UNCHANGED deployVars PROVE DeployInv'
  OBVIOUS
<1>1. UNCHANGED <<deployment, images, script, outcome, deploys, failures>>
  BY DEF deployVars
<1>2. \A d \in Name : RolledOut(d)' = RolledOut(d) /\ ReadyOf(d)' = ReadyOf(d)
  BY <1>1, SameDeployment
<1>3. D' = D /\ S' = S /\ Quiet' = Quiet
  BY <1>1 DEF D, S, Quiet
<1>4. Shape' /\ Restorable'
  BY <1>1, <1>3 DEF DeployInv, Shape, Restorable
<1>5. Guarded'
  BY <1>1, <1>2, <1>3 DEF DeployInv, Guarded, Name
<1>6. Reached'
  <2>1. ASSUME NEW k, ForwardReached(k) PROVE ForwardReached(k)'
    BY <1>1, <1>2, <1>3, <2>1 DEF ForwardReached, Name
  <2>2. ASSUME NEW k, BackReached(k) PROVE BackReached(k)'
    BY <1>1, <1>2, <1>3, <2>2 DEF BackReached, Name
  <2> QED BY <1>1, <2>1, <2>2 DEF DeployInv, Reached
<1>7. Reported'
  BY <1>1, <1>2 DEF DeployInv, Reported, OutcomeTrue, Shape
<1> QED BY <1>4, <1>5, <1>6, <1>7 DEF DeployInv

LEMMA DeployInvInit == Init => DeployInv
<1> SUFFICES ASSUME Init PROVE DeployInv
  OBVIOUS
<1> DEFINE first == [template |-> FirstTemplate, replicas |-> 1, pods |-> {Ready(FirstTemplate)}]
<1>1. /\ deployment = [d \in Name |-> first]
      /\ images = {0} /\ script = NoScript /\ outcome = NoOutcome /\ deploys = 0 /\ failures = 0
  BY DEF Init, DeployInit, Name
<1>2. FirstTemplate \in Template /\ FirstTemplate.strategy = FirstPolicy /\ FirstTemplate.image = 0
  BY DeployAssumption DEF FirstTemplate, Template
<1>3. Ready(FirstTemplate) \in AnyPod /\ Ready(FirstTemplate).template = FirstTemplate
      /\ Ready(FirstTemplate).phase = "ready"
  BY <1>2 DEF Ready, AnyPod
<1>4. first \in AnyDeployment
  BY <1>2, <1>3 DEF AnyDeployment
<1>5. Shape
  BY <1>1, <1>4, DeployAssumption DEF Shape
<1>6. D = first /\ S = first
  BY <1>1 DEF D, S, Name
<1>7. RolledOut("decider")
  <2>1. Wanted("decider") = {Ready(FirstTemplate)} /\ Pods("decider") = {Ready(FirstTemplate)}
        /\ ReadyOf("decider") = {Ready(FirstTemplate)}
    BY <1>1, <1>3 DEF Wanted, Pods, ReadyOf, Name
  <2>2. Cardinality({Ready(FirstTemplate)}) = 1
    BY FS_Singleton
  <2>3. deployment["decider"].replicas = 1
    BY <1>1 DEF Name
  <2> QED BY <2>1, <2>2, <2>3 DEF RolledOut
<1>8. Guarded
  BY <1>3, <1>6, <1>7 DEF Guarded, ReadyOf, S
<1> QED BY <1>1, <1>2, <1>5, <1>6, <1>8 DEF DeployInv, Reached, Reported, Restorable

-----------------------------------------------------------------------------
(* The runs.                                                               *)

Stages == {"images", "alone", "idle", "create", "measure", "delete", "wait"}

\* The shape of what Operations adds.
RunShape ==
    /\ namespace \in [RunId -> {"none", "active", "terminating"}]
    /\ begun \subseteq RunId
    /\ busy \cup Labelled \subseteq begun /\ busy \subseteq Labelled
    /\ run # NoRun => run \in [id : RunId, stage : Stages, strategy : Policy, image : 0 .. deploys]
    /\ run # NoRun => run.id \in begun
    /\ cleanup # NoCleanup => cleanup \subseteq begun

Working == run # NoRun /\ run.stage \notin {"delete", "wait"}

\* A run found no namespace before it made its own, and no cleanup has found its own stale.
Alone ==
    Working =>
        /\ cleanup # NoCleanup => run.id \notin cleanup
        /\ run.stage # "measure" => namespace[run.id] = "none"
        /\ run.stage \in {"idle", "create"} => Labelled = {}
        /\ run.stage = "measure" => Labelled = {run.id} /\ namespace[run.id] = "active"

\* No script changes the Deployments under a run; past the reading of the images, the decider is rolled out.
Faithful ==
    /\ run # NoRun => script = NoScript
    /\ Working => run.strategy = S.template.strategy
    /\ Working /\ run.stage # "images" =>
          RolledOut("decider") /\ D.template.strategy = run.strategy /\ D.template.image = run.image

RunInv == RunShape /\ Alone /\ Faithful

\* The inductive invariant of Operations.
Inv == DeployInv /\ RunInv

\* A deployment and a run are never under way together.
LEMMA DeployingKeeps == Inv /\ Deploying => Inv'
<1> SUFFICES ASSUME Inv, Deploying PROVE Inv'
  OBVIOUS
<1>1. UNCHANGED <<namespace, busy, run, begun, cleanup>> /\ Labelled' = Labelled
  BY DEF Deploying, Labelled
<1>2. ASSUME NEW policy \in Policy, Idle, Begin(policy, busy # {})
      PROVE  Inv'
  <2>1. DeployInv'
    BY <1>2, BeginKeeps DEF Inv
  <2>2. run' = NoRun
    BY <1>1, <1>2 DEF Idle
  <2> QED BY <1>1, <2>1, <2>2 DEF Inv, RunInv, RunShape, Alone, Faithful, Working
<1>3. CASE ScriptStep
  <2>1. DeployInv'
    BY <1>3, CommandKeeps, CommandFailsKeeps, EndKeeps, KilledKeeps DEF ScriptStep, Inv
  <2>2. script # NoScript
    BY <1>3 DEF ScriptStep, Command, CommandFails, End, Killed, Underway
  <2>3. run' = NoRun
    BY <1>1, <2>2 DEF Inv, RunInv, Faithful
  <2> QED BY <1>1, <2>1, <2>3 DEF Inv, RunInv, RunShape, Alone, Faithful, Working
<1>4. CASE Rollout
  <2>1. DeployInv'
    BY <1>4, RolloutKeeps DEF Inv
  <2>2. PICK d \in Name : Rolls(d)
    BY <1>4 DEF Rollout, Rolls, Inv, DeployInv, Shape
  <2>3. D.template' = D.template /\ S.template' = S.template
    BY <2>2, RollsChangesPods DEF Inv, DeployInv, D, S, Name
  <2>4. RolledOut("decider") => RolledOut("decider")'
    BY <2>2, RolledOutStays DEF Inv, DeployInv, Name
  <2>5. script' = script /\ deploys' = deploys
    BY <1>4 DEF Rollout
  <2>6. RunShape' /\ Alone'
    BY <1>1, <2>5 DEF Inv, RunInv, RunShape, Alone, Working
  <2>7. Faithful'
    BY <1>1, <2>3, <2>4, <2>5 DEF Inv, RunInv, Faithful, Working
  <2> QED BY <2>1, <2>6, <2>7 DEF Inv, RunInv
<1> QED BY <1>2, <1>3, <1>4 DEF Deploying

\* A step that leaves the Deployments and the script alone.
LEMMA AsDeployed ==
    ASSUME Inv, UNCHANGED deployVars
    PROVE  /\ DeployInv' /\ script' = script /\ deploys' = deploys /\ D' = D /\ S' = S
           /\ RolledOut("decider")' = RolledOut("decider")
<1>1. DeployInv'
  BY DeployUnchanged DEF Inv
<1>2. script' = script /\ deploys' = deploys /\ deployment' = deployment
  BY DEF deployVars
<1> QED BY <1>1, <1>2, SameDeployment DEF D, S

LEMMA ReadEnvKeeps == ASSUME Inv, NEW r \in RunId, ReadEnv(r) PROVE Inv'
<1>1. /\ run' = [id |-> r, stage |-> "images", strategy |-> S.template.strategy, image |-> 0]
      /\ begun' = begun \cup {r} /\ r \notin begun /\ Labelled' = Labelled
      /\ UNCHANGED <<deployVars, namespace, busy, cleanup>>
      /\ script = NoScript
  BY DEF ReadEnv, S, Labelled, Idle
<1>2. /\ DeployInv' /\ script' = script /\ deploys' = deploys /\ D' = D /\ S' = S
      /\ RolledOut("decider")' = RolledOut("decider")
  BY <1>1, AsDeployed
<1>3. S.template.strategy \in Policy /\ 0 \in 0 .. deploys
  BY DEF Inv, DeployInv, Shape, AnyDeployment, Template, S, Name
<1>4. run' \in [id : RunId, stage : Stages, strategy : Policy, image : 0 .. deploys] /\ run'.id \in begun'
      /\ run'.stage = "images" /\ run'.id = r /\ run'.strategy = S.template.strategy
  BY <1>1, <1>3 DEF Stages
<1>5. RunShape'
  BY <1>1, <1>2, <1>4 DEF Inv, RunInv, RunShape
<1>6. namespace[r] = "none"
  BY <1>1 DEF Inv, RunInv, RunShape, Labelled
<1>7. cleanup # NoCleanup => r \notin cleanup
  BY <1>1 DEF Inv, RunInv, RunShape
<1>8. Alone'
  BY <1>1, <1>4, <1>6, <1>7 DEF Alone
<1>9. Faithful'
  BY <1>1, <1>2, <1>4 DEF Faithful
<1> QED BY <1>2, <1>5, <1>8, <1>9 DEF Inv, RunInv

\* A step that takes a run to its next stage, and nothing else.
LEMMA StageKeeps ==
    ASSUME Inv, run # NoRun, NEW stage \in Stages, run' = [run EXCEPT !.stage = stage],
           UNCHANGED <<deployVars, namespace, busy, begun, cleanup>>
    PROVE  /\ DeployInv' /\ RunShape' /\ script' = NoScript
           /\ run'.id = run.id /\ run'.stage = stage
           /\ run'.strategy = run.strategy /\ run'.image = run.image
           /\ Labelled' = Labelled /\ D' = D /\ S' = S
           /\ RolledOut("decider")' = RolledOut("decider")
<1>1. run \in [id : RunId, stage : Stages, strategy : Policy, image : 0 .. deploys]
  BY DEF Inv, RunInv, RunShape
<1>2. /\ DeployInv' /\ script' = script /\ deploys' = deploys /\ D' = D /\ S' = S
      /\ RolledOut("decider")' = RolledOut("decider")
  BY AsDeployed
<1>3. /\ run' \in [id : RunId, stage : Stages, strategy : Policy, image : 0 .. deploys]
      /\ run'.id = run.id /\ run'.stage = stage
      /\ run'.strategy = run.strategy /\ run'.image = run.image
  BY <1>1
<1>4. Labelled' = Labelled /\ script = NoScript
  BY DEF Labelled, Inv, RunInv, Faithful
<1>5. RunShape'
  BY <1>2, <1>3, <1>4 DEF Inv, RunInv, RunShape
<1> QED BY <1>2, <1>3, <1>4, <1>5

\* The images that run are those of a decider that is rolled out, which agrees with the scheduler.
LEMMA ReadImagesKeeps == Inv /\ ReadImages => Inv'
<1> SUFFICES ASSUME Inv, ReadImages PROVE Inv'
  OBVIOUS
<1>1. /\ run # NoRun /\ run.stage = "images" /\ \A d \in Name : Cardinality(Versions(d)) = 1
      /\ UNCHANGED <<deployVars, namespace, busy, begun, cleanup>>
      /\ run' = [run EXCEPT !.stage = "alone", !.image = CHOOSE image \in Versions("decider") : TRUE]
  BY DEF ReadImages, At, Inv, DeployInv, Shape
<1>2. \A d \in Name : Versions(d) # {}
  BY <1>1, FS_EmptySet
<1>3. PICK pod \in ReadyOf("scheduler") : TRUE
  BY <1>2 DEF Versions, Name
<1>4. pod \in S.pods /\ pod.template = S.template /\ pod.template.strategy = D.template.strategy
  BY <1>3 DEF Inv, DeployInv, Guarded, ReadyOf, S
<1>5. RolledOut("decider")
  BY <1>4 DEF Inv, DeployInv, Guarded
<1>6. \A q \in ReadyOf("decider") : q.template = D.template
  BY <1>5 DEF RolledOut, Wanted, Pods, ReadyOf, D
<1>7. (CHOOSE image \in Versions("decider") : TRUE) = D.template.image
  BY <1>2, <1>6 DEF Versions, Name
<1>8. D.template.image \in 0 .. deploys
  BY DEF Inv, DeployInv, Restorable, Shape
<1>9. run \in [id : RunId, stage : Stages, strategy : Policy, image : 0 .. deploys]
  BY <1>1 DEF Inv, RunInv, RunShape
<1>10. /\ run' \in [id : RunId, stage : Stages, strategy : Policy, image : 0 .. deploys]
       /\ run'.id = run.id /\ run'.stage = "alone" /\ run'.strategy = run.strategy
       /\ run'.image = D.template.image
  BY <1>1, <1>7, <1>8, <1>9 DEF Stages
<1>11. /\ DeployInv' /\ script' = script /\ deploys' = deploys /\ D' = D /\ S' = S
       /\ RolledOut("decider")' = RolledOut("decider") /\ Labelled' = Labelled
  BY <1>1, AsDeployed DEF Labelled
<1>12. RunShape'
  BY <1>1, <1>10, <1>11 DEF Inv, RunInv, RunShape
<1>13. Working /\ script = NoScript
  BY <1>1 DEF Working, Inv, RunInv, Faithful
<1>14. Alone'
  BY <1>1, <1>10, <1>11, <1>13 DEF Inv, RunInv, Alone
<1>15. Faithful'
  BY <1>1, <1>4, <1>5, <1>10, <1>11, <1>13 DEF Inv, RunInv, Faithful
<1> QED BY <1>11, <1>12, <1>14, <1>15 DEF Inv, RunInv

LEMMA CheckNoOtherRunKeeps == Inv /\ CheckNoOtherRun => Inv'
<1> SUFFICES ASSUME Inv, CheckNoOtherRun PROVE Inv'
  OBVIOUS
<1>1. /\ run # NoRun /\ run.stage = "alone" /\ Labelled = {} /\ run' = [run EXCEPT !.stage = "idle"]
      /\ UNCHANGED <<deployVars, namespace, busy, begun, cleanup>>
  BY DEF CheckNoOtherRun, At
<1>2. /\ DeployInv' /\ RunShape' /\ script' = NoScript
      /\ run'.id = run.id /\ run'.stage = "idle"
      /\ run'.strategy = run.strategy /\ run'.image = run.image
      /\ Labelled' = Labelled /\ D' = D /\ S' = S
      /\ RolledOut("decider")' = RolledOut("decider")
  BY <1>1, StageKeeps DEF Stages
<1>3. Working
  BY <1>1 DEF Working
<1>4. Alone'
  BY <1>1, <1>2, <1>3 DEF Inv, RunInv, Alone
<1>5. Faithful'
  BY <1>1, <1>2, <1>3 DEF Inv, RunInv, Faithful
<1> QED BY <1>2, <1>4, <1>5 DEF Inv, RunInv

LEMMA CheckIdleKeeps == Inv /\ CheckIdle => Inv'
<1> SUFFICES ASSUME Inv, CheckIdle PROVE Inv'
  OBVIOUS
<1>1. /\ run # NoRun /\ run.stage = "idle" /\ run' = [run EXCEPT !.stage = "create"]
      /\ UNCHANGED <<deployVars, namespace, busy, begun, cleanup>>
  BY DEF CheckIdle, At
<1>2. /\ DeployInv' /\ RunShape' /\ script' = NoScript
      /\ run'.id = run.id /\ run'.stage = "create"
      /\ run'.strategy = run.strategy /\ run'.image = run.image
      /\ Labelled' = Labelled /\ D' = D /\ S' = S
      /\ RolledOut("decider")' = RolledOut("decider")
  BY <1>1, StageKeeps DEF Stages
<1>3. Working
  BY <1>1 DEF Working
<1>4. Alone'
  BY <1>1, <1>2, <1>3 DEF Inv, RunInv, Alone
<1>5. Faithful'
  BY <1>1, <1>2, <1>3 DEF Inv, RunInv, Faithful
<1> QED BY <1>2, <1>4, <1>5 DEF Inv, RunInv

\* A run's namespace is made, by itself or in the step that ends the run.
LEMMA MadeNamespace ==
    ASSUME Inv, Working, run.stage = "create",
           namespace' = [namespace EXCEPT ![run.id] = "active"], UNCHANGED begun
    PROVE  /\ namespace' \in [RunId -> {"none", "active", "terminating"}]
           /\ namespace'[run.id] = "active" /\ Labelled' = {run.id} /\ busy = {}
           /\ Labelled' \subseteq begun'
<1>1. /\ run.id \in RunId /\ run.id \in begun /\ Labelled = {} /\ busy \subseteq Labelled
      /\ namespace \in [RunId -> {"none", "active", "terminating"}]
  BY DEF Inv, RunInv, RunShape, Alone, Working
<1>2. namespace' \in [RunId -> {"none", "active", "terminating"}] /\ namespace'[run.id] = "active"
  BY <1>1
<1>3. \A r \in RunId : namespace'[r] # "none" <=> r = run.id
  BY <1>1 DEF Labelled
<1>4. Labelled' = {run.id}
  BY <1>1, <1>3 DEF Labelled
<1> QED BY <1>1, <1>2, <1>4

LEMMA CreateNamespaceKeeps == Inv /\ CreateNamespace => Inv'
<1> SUFFICES ASSUME Inv, CreateNamespace PROVE Inv'
  OBVIOUS
<1>1. /\ run # NoRun /\ run.stage = "create" /\ run' = [run EXCEPT !.stage = "measure"]
      /\ namespace' = [namespace EXCEPT ![run.id] = "active"]
      /\ UNCHANGED <<deployVars, busy, begun, cleanup>>
  BY DEF CreateNamespace, At
<1>2. Working
  BY <1>1 DEF Working
<1>3. /\ namespace' \in [RunId -> {"none", "active", "terminating"}]
      /\ namespace'[run.id] = "active" /\ Labelled' = {run.id} /\ busy = {}
      /\ Labelled' \subseteq begun'
  BY <1>1, <1>2, MadeNamespace
<1>4. /\ DeployInv' /\ script' = script /\ deploys' = deploys /\ D' = D /\ S' = S
      /\ RolledOut("decider")' = RolledOut("decider")
  BY <1>1, AsDeployed
<1>5. run \in [id : RunId, stage : Stages, strategy : Policy, image : 0 .. deploys]
  BY <1>1 DEF Inv, RunInv, RunShape
<1>6. /\ run' \in [id : RunId, stage : Stages, strategy : Policy, image : 0 .. deploys]
      /\ run'.id = run.id /\ run'.stage = "measure" /\ run'.strategy = run.strategy
      /\ run'.image = run.image
  BY <1>1, <1>5 DEF Stages
<1>7. RunShape'
  BY <1>1, <1>3, <1>4, <1>6 DEF Inv, RunInv, RunShape
<1>8. Alone'
  BY <1>1, <1>2, <1>3, <1>6 DEF Inv, RunInv, Alone
<1>9. Faithful'
  BY <1>1, <1>2, <1>4, <1>6 DEF Inv, RunInv, Faithful
<1> QED BY <1>4, <1>7, <1>8, <1>9 DEF Inv, RunInv

LEMMA SubmitKeeps == Inv /\ Submit => Inv'
<1> SUFFICES ASSUME Inv, Submit PROVE Inv'
  OBVIOUS
<1>1. /\ run # NoRun /\ run.stage = "measure" /\ namespace[run.id] = "active"
      /\ busy' = busy \cup {run.id}
      /\ UNCHANGED <<deployVars, namespace, run, begun, cleanup>>
  BY DEF Submit, At
<1>2. /\ DeployInv' /\ script' = script /\ deploys' = deploys /\ D' = D /\ S' = S
      /\ RolledOut("decider")' = RolledOut("decider") /\ Labelled' = Labelled
  BY <1>1, AsDeployed DEF Labelled
<1>3. run.id \in Labelled
  BY <1>1 DEF Inv, RunInv, Alone, Working
<1>4. RunShape'
  BY <1>1, <1>2, <1>3 DEF Inv, RunInv, RunShape
<1> QED BY <1>1, <1>2, <1>4 DEF Inv, RunInv, Alone, Faithful, Working

LEMMA StopsKeeps == Inv /\ Stops => Inv'
<1> SUFFICES ASSUME Inv, Stops PROVE Inv'
  OBVIOUS
<1>1. /\ run # NoRun /\ run' = [run EXCEPT !.stage = "delete"] /\ Working
      /\ UNCHANGED <<deployVars, busy, begun, cleanup>>
  BY DEF Stops, Working
<1>2. \/ namespace' = namespace
      \/ run.stage = "create" /\ namespace' = [namespace EXCEPT ![run.id] = "active"]
  BY DEF Stops
<1>3. /\ namespace' \in [RunId -> {"none", "active", "terminating"}]
      /\ busy \subseteq Labelled' /\ Labelled' \subseteq begun'
  <2>1. CASE namespace' = namespace
    BY <1>1, <2>1 DEF Inv, RunInv, RunShape, Labelled
  <2>2. CASE run.stage = "create" /\ namespace' = [namespace EXCEPT ![run.id] = "active"]
    BY <1>1, <2>2, MadeNamespace
  <2> QED BY <1>2, <2>1, <2>2
<1>4. /\ DeployInv' /\ script' = script /\ deploys' = deploys
  BY <1>1, AsDeployed
<1>5. run \in [id : RunId, stage : Stages, strategy : Policy, image : 0 .. deploys]
  BY <1>1 DEF Inv, RunInv, RunShape
<1>6. /\ run' \in [id : RunId, stage : Stages, strategy : Policy, image : 0 .. deploys]
      /\ run'.id = run.id /\ run'.stage = "delete"
  BY <1>1, <1>5 DEF Stages
<1>7. RunShape'
  BY <1>1, <1>3, <1>4, <1>6 DEF Inv, RunInv, RunShape
<1>8. Alone' /\ Faithful'
  BY <1>1, <1>4, <1>6 DEF Inv, RunInv, Alone, Faithful, Working
<1> QED BY <1>4, <1>7, <1>8 DEF Inv, RunInv

LEMMA DeleteOwnKeeps == Inv /\ DeleteOwn => Inv'
<1> SUFFICES ASSUME Inv, DeleteOwn PROVE Inv'
  OBVIOUS
<1>1. /\ run # NoRun /\ run' = [run EXCEPT !.stage = "wait"]
      /\ namespace' = [namespace EXCEPT ![run.id] = IF @ = "active" THEN "terminating" ELSE @]
      /\ UNCHANGED <<deployVars, busy, begun, cleanup>>
  BY DEF DeleteOwn, At
<1>2. /\ run \in [id : RunId, stage : Stages, strategy : Policy, image : 0 .. deploys]
      /\ namespace \in [RunId -> {"none", "active", "terminating"}]
  BY <1>1 DEF Inv, RunInv, RunShape
<1>3. /\ namespace' \in [RunId -> {"none", "active", "terminating"}]
      /\ \A r \in RunId : namespace'[r] = "none" <=> namespace[r] = "none"
  BY <1>1, <1>2
<1>4. Labelled' = Labelled
  BY <1>3 DEF Labelled
<1>5. /\ DeployInv' /\ script' = script /\ deploys' = deploys
  BY <1>1, AsDeployed
<1>6. /\ run' \in [id : RunId, stage : Stages, strategy : Policy, image : 0 .. deploys]
      /\ run'.id = run.id /\ run'.stage = "wait"
  BY <1>1, <1>2 DEF Stages
<1>7. RunShape'
  BY <1>1, <1>3, <1>4, <1>5, <1>6 DEF Inv, RunInv, RunShape
<1>8. Alone' /\ Faithful'
  BY <1>1, <1>5, <1>6 DEF Inv, RunInv, Alone, Faithful, Working
<1> QED BY <1>5, <1>7, <1>8 DEF Inv, RunInv

\* A run that leaves, or dies, leaves its namespace and pods as they are.
LEMMA LeaveKeeps == Inv /\ (Leave \/ Dies) => Inv'
<1> SUFFICES ASSUME Inv, Leave \/ Dies PROVE Inv'
  OBVIOUS
<1>1. run' = NoRun /\ UNCHANGED <<deployVars, namespace, busy, begun, cleanup>>
  BY DEF Leave, Dies
<1>2. DeployInv' /\ Labelled' = Labelled
  BY <1>1, AsDeployed DEF Labelled
<1> QED BY <1>1, <1>2 DEF Inv, RunInv, RunShape, Alone, Faithful, Working

LEMMA PodsFinishKeeps == Inv /\ PodsFinish => Inv'
<1> SUFFICES ASSUME Inv, PodsFinish PROVE Inv'
  OBVIOUS
<1>1. busy' \subseteq busy /\ UNCHANGED <<deployVars, namespace, run, begun, cleanup>>
  BY DEF PodsFinish
<1>2. /\ DeployInv' /\ script' = script /\ deploys' = deploys /\ D' = D /\ S' = S
      /\ RolledOut("decider")' = RolledOut("decider") /\ Labelled' = Labelled
  BY <1>1, AsDeployed DEF Labelled
<1> QED BY <1>1, <1>2 DEF Inv, RunInv, RunShape, Alone, Faithful, Working

\* The namespace of a run at work is not one of those being deleted.
LEMMA NamespaceGoneKeeps == ASSUME Inv, NEW r \in RunId, NamespaceGone(r) PROVE Inv'
<1>1. /\ namespace[r] = "terminating" /\ namespace' = [namespace EXCEPT ![r] = "none"]
      /\ busy' = busy \ {r} /\ UNCHANGED <<deployVars, run, begun, cleanup>>
  BY DEF NamespaceGone
<1>2. namespace \in [RunId -> {"none", "active", "terminating"}]
  BY DEF Inv, RunInv, RunShape
<1>3. namespace' \in [RunId -> {"none", "active", "terminating"}] /\ Labelled' = Labelled \ {r}
  BY <1>1, <1>2 DEF Labelled
<1>4. /\ DeployInv' /\ script' = script /\ deploys' = deploys /\ D' = D /\ S' = S
      /\ RolledOut("decider")' = RolledOut("decider")
  BY <1>1, AsDeployed
<1>5. RunShape'
  BY <1>1, <1>3, <1>4 DEF Inv, RunInv, RunShape
<1>6. Alone'
  <2>1. SUFFICES ASSUME Working PROVE Alone'
    BY <1>1 DEF Alone, Working
  <2>2. run.id \in RunId /\ run.id # r
    BY <1>1, <2>1 DEF Inv, RunInv, RunShape, Alone, Working
  <2>3. namespace'[run.id] = namespace[run.id]
    BY <1>1, <1>2, <2>2
  <2> QED BY <1>1, <1>3, <2>1, <2>2, <2>3 DEF Inv, RunInv, Alone
<1>7. Faithful'
  BY <1>1, <1>4 DEF Inv, RunInv, Faithful, Working
<1> QED BY <1>4, <1>5, <1>6, <1>7 DEF Inv, RunInv

\* What cleanup finds stale is not the namespace of a run at work.
LEMMA FindStaleKeeps == Inv /\ FindStale => Inv'
<1> SUFFICES ASSUME Inv, FindStale PROVE Inv'
  OBVIOUS
<1>1. /\ cleanup' \subseteq Labelled /\ \A r \in cleanup' : namespace[r] = "terminating" \/ ~Beating(r)
      /\ UNCHANGED <<deployVars, namespace, busy, run, begun>>
  BY DEF FindStale
<1>2. /\ DeployInv' /\ script' = script /\ deploys' = deploys /\ D' = D /\ S' = S
      /\ RolledOut("decider")' = RolledOut("decider") /\ Labelled' = Labelled
  BY <1>1, AsDeployed DEF Labelled
<1>3. RunShape'
  BY <1>1, <1>2 DEF Inv, RunInv, RunShape
<1>4. Alone'
  <2>1. Working => run.id \notin cleanup'
    BY <1>1 DEF Working, Beating, Labelled, Inv, RunInv, Alone
  <2> QED BY <1>1, <1>2, <2>1 DEF Inv, RunInv, Alone, Working
<1>5. Faithful'
  BY <1>1, <1>2 DEF Inv, RunInv, Faithful, Working
<1> QED BY <1>2, <1>3, <1>4, <1>5 DEF Inv, RunInv

LEMMA DeleteStaleKeeps == Inv /\ DeleteStale => Inv'
<1> SUFFICES ASSUME Inv, DeleteStale PROVE Inv'
  OBVIOUS
<1>1. /\ cleanup # NoCleanup /\ cleanup' = NoCleanup /\ UNCHANGED <<deployVars, busy, run, begun>>
      /\ namespace' = [r \in RunId |-> IF r \in cleanup /\ namespace[r] = "active" THEN "terminating"
                                       ELSE namespace[r]]
  BY DEF DeleteStale
<1>2. namespace \in [RunId -> {"none", "active", "terminating"}]
  BY DEF Inv, RunInv, RunShape
<1>3. /\ namespace' \in [RunId -> {"none", "active", "terminating"}]
      /\ \A r \in RunId : namespace'[r] = "none" <=> namespace[r] = "none"
      /\ \A r \in RunId \ cleanup : namespace'[r] = namespace[r]
  BY <1>1, <1>2
<1>4. Labelled' = Labelled
  BY <1>3 DEF Labelled
<1>5. /\ DeployInv' /\ script' = script /\ deploys' = deploys /\ D' = D /\ S' = S
      /\ RolledOut("decider")' = RolledOut("decider")
  BY <1>1, AsDeployed
<1>6. RunShape'
  BY <1>1, <1>3, <1>4, <1>5 DEF Inv, RunInv, RunShape
<1>7. Alone'
  <2>1. Working => run.id \in RunId \ cleanup
    BY <1>1 DEF Working, Inv, RunInv, RunShape, Alone
  <2> QED BY <1>1, <1>3, <1>4, <2>1 DEF Inv, RunInv, Alone, Working
<1>8. Faithful'
  BY <1>1, <1>5 DEF Inv, RunInv, Faithful, Working
<1> QED BY <1>5, <1>6, <1>7, <1>8 DEF Inv, RunInv

-----------------------------------------------------------------------------
(* The theorems.                                                           *)

LEMMA InvInit == Init => Inv
<1> SUFFICES ASSUME Init PROVE Inv
  OBVIOUS
<1>1. DeployInv
  BY DeployInvInit
<1>2. /\ namespace = [r \in RunId |-> "none"] /\ busy = {} /\ begun = {} /\ run = NoRun
      /\ cleanup = NoCleanup /\ Labelled = {}
  BY DEF Init, Labelled
<1> QED BY <1>1, <1>2 DEF Inv, RunInv, RunShape, Alone, Faithful, Working

LEMMA InvNext == Inv /\ [Next]_vars => Inv'
<1> SUFFICES ASSUME Inv, [Next]_vars PROVE Inv'
  OBVIOUS
<1>1. CASE Deploying
  BY <1>1, DeployingKeeps
<1>2. CASE RunStep
  BY <1>2, ReadImagesKeeps, CheckNoOtherRunKeeps, CheckIdleKeeps, CreateNamespaceKeeps, SubmitKeeps,
     StopsKeeps, DeleteOwnKeeps, LeaveKeeps DEF RunStep
<1>3. CASE PodsFinish \/ FindStale \/ DeleteStale
  BY <1>3, PodsFinishKeeps, FindStaleKeeps, DeleteStaleKeeps
<1>4. CASE \E r \in RunId : ReadEnv(r) \/ NamespaceGone(r)
  BY <1>4, ReadEnvKeeps, NamespaceGoneKeeps
<1>5. CASE UNCHANGED vars
  <2>1. UNCHANGED <<deployVars, namespace, busy, run, begun, cleanup>>
    BY <1>5 DEF vars
  <2>2. /\ DeployInv' /\ script' = script /\ deploys' = deploys /\ D' = D /\ S' = S
        /\ RolledOut("decider")' = RolledOut("decider") /\ Labelled' = Labelled
    BY <2>1, AsDeployed DEF Labelled
  <2> QED BY <2>1, <2>2 DEF Inv, RunInv, RunShape, Alone, Faithful, Working
<1> QED BY <1>1, <1>2, <1>3, <1>4, <1>5 DEF Next

LEMMA Invariance == Spec => []Inv
BY InvInit, InvNext, PTL DEF Spec

\* The shape of the Deployments, the images, the namespaces and the runs (deploy-policy.sh:28-29; kexp.py:355-356).
THEOREM TypeCorrect == Spec => []TypeOK
<1>1. ASSUME Inv PROVE TypeOK
  <2>1. DeployTypeOK
    <3>1. ASSUME NEW d \in Name
          PROVE  /\ deployment[d].template \in Template /\ deployment[d].replicas \in {0, 1}
                 /\ deployment[d].pods \subseteq AnyPod
      BY <1>1 DEF Inv, DeployInv, Shape, AnyDeployment
    <3>2. script # NoScript =>
             script.previous["decider"].image < script.image /\ script.policy \in Policy
      BY <1>1 DEF Inv, DeployInv, Shape, Restorable, AnyScript
    <3> QED BY <1>1, <3>1, <3>2 DEF Inv, DeployInv, Shape, DeployTypeOK, AnyPod
  <2>2. run # NoRun => run.id \in begun /\ run.strategy \in Policy /\ run.image \in 0 .. deploys
    BY <1>1 DEF Inv, RunInv, RunShape
  <2> QED BY <1>1, <2>1, <2>2 DEF Inv, RunInv, RunShape, TypeOK
<1> QED BY <1>1, Invariance, PTL

\* deploy-policy.sh:127, 136: whatever commands failed, and wherever a script was killed, no scheduler is at
\* work beside a decider of another policy.
THEOREM SchedulerNeverAlone == Spec => []SchedulerAgrees
<1>1. ASSUME Inv PROVE SchedulerAgrees
  <2>1. SUFFICES ASSUME NEW s \in ReadyOf("scheduler"), NEW q \in ReadyOf("decider")
                 PROVE  s.template.strategy = q.template.strategy
    BY DEF SchedulerAgrees
  <2>2. s \in S.pods /\ s.template.strategy = D.template.strategy /\ RolledOut("decider")
    BY <1>1 DEF Inv, DeployInv, Guarded, ReadyOf, S
  <2>3. q.template = D.template
    BY <2>2 DEF RolledOut, Wanted, Pods, ReadyOf, D
  <2> QED BY <2>2, <2>3
<1> QED BY <1>1, Invariance, PTL

\* deploy-policy.sh:74-100: what a deployment reports is what it left, until the next begins.
THEOREM OutcomeReported == Spec => []OutcomeTrue
<1>1. ASSUME Inv PROVE OutcomeTrue
  BY <1>1 DEF Inv, DeployInv, Reported, OutcomeTrue
<1> QED BY <1>1, Invariance, PTL

\* deploy-policy.sh:167: a rollback finds the image it goes back to, whatever images were removed.
THEOREM ImagesStay == Spec => []ImagesKept
<1>1. ASSUME Inv PROVE ImagesKept
  BY <1>1 DEF Inv, DeployInv, Restorable, ImagesKept, D
<1> QED BY <1>1, Invariance, PTL

\* workloads/README.md:160-166: a run that measures is alone, and keeps its namespace.
THEOREM MeasuresAlone == Spec => []AloneWhileMeasuring
<1>1. ASSUME Inv PROVE AloneWhileMeasuring
  BY <1>1 DEF Inv, RunInv, RunShape, Alone, Working, AloneWhileMeasuring, At
<1> QED BY <1>1, Invariance, PTL

\* kexp.py:355-356, 502-503: meta.json names the policy and the decider that answer while the run measures.
THEOREM MeasuresNamed == Spec => []MeasuresWhatItSays
<1>1. ASSUME Inv PROVE MeasuresWhatItSays
  <2>1. SUFFICES ASSUME At("measure") PROVE MeasuresWhatItSays
    BY DEF MeasuresWhatItSays
  <2>2. /\ RolledOut("decider") /\ D.template.strategy = run.strategy /\ D.template.image = run.image
        /\ S.template.strategy = run.strategy
    BY <1>1, <2>1 DEF At, Inv, RunInv, Faithful, Working
  <2>3. \A q \in ReadyOf("decider") : q.template = D.template
    BY <2>2 DEF RolledOut, Wanted, Pods, ReadyOf, D
  <2>4. \A pod \in ReadyOf("scheduler") : pod.template = S.template
    BY <1>1 DEF Inv, DeployInv, Guarded, ReadyOf, S
  <2>5. DOMAIN deployment = Name
    BY <1>1 DEF Inv, DeployInv, Shape
  <2> QED BY <2>2, <2>3, <2>4, <2>5 DEF MeasuresWhatItSays, Name
<1> QED BY <1>1, Invariance, PTL
=============================================================================
