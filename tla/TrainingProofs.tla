----------------------------- MODULE TrainingProofs -----------------------------
(***************************************************************************)
(* The safety properties of Learner and Training, for any campaign: any    *)
(* runs and pods, updates that fail, restarts of the decider and settle    *)
(* calls that kexp gives up.                                               *)
(*                                                                         *)
(* Typing comes first, then what each runtime is counted (Once), then      *)
(* whose turn it is: kexp keeps runs apart, so that only the run under way *)
(* has pods to decide and settle calls that still poll (Turns). From it    *)
(* follow which updates are over at each stage (Quiet), which networks     *)
(* decided (Window), from which runs the network has learned, or had when  *)
(* a restart lost it (Hearing), and, where no restart and no abandoned     *)
(* call disturbs the campaign, what estimates and networks hold (Calm).    *)
(***************************************************************************)
EXTENDS Training, FiniteSetTheorems, SequenceTheorems, TLAPS

Update == [run : Run \ Frozen, status : {"queued", "learned", "done", "failed"}]

-----------------------------------------------------------------------------
(* The runs are numbered from one on.                                      *)

LEMMA RunsInOrder ==
    /\ Run \subseteq Nat \ {0}
    /\ LastRun \in Run /\ \A r \in Run : r <= LastRun
    /\ \A r \in Run : r # LastRun => r + 1 \in Run
    /\ (CHOOSE r \in Run : \A q \in Run : r <= q) = 1 /\ 1 \in Run
<1>. PICK n \in Nat : Run = 1 .. n /\ n # 0
  BY LearnerAssumption, FS_CardinalityType
<1>1. n \in Run /\ \A q \in Run : q <= n
  OBVIOUS
<1>2. LastRun \in Run /\ \A q \in Run : q <= LastRun
  BY <1>1 DEF LastRun
<1>3. LastRun = n
  BY <1>1, <1>2
<1>4. 1 \in Run /\ \A q \in Run : 1 <= q
  OBVIOUS
<1>5. \A r \in Run : (\A q \in Run : r <= q) => r = 1
  BY <1>4
<1> QED BY <1>2, <1>3, <1>4, <1>5

LEMMA PodIsPair ==
    /\ \A p \in Pod : p[1] \in Run
    /\ \A r \in Run : \A p \in PodsOf(r) : p \in Pod /\ p[1] = r
    /\ \A r \in Run, m \in Moment : <<r, m>> \in Call
    /\ \A c \in Call : c = <<c[1], c[2]>> /\ c[1] \in Run /\ c[2] \in Moment
BY DEF Pod, PodsOf, Call

\* The run of an episode is that of its pods.
LEMMA EpisodeRun ==
    ASSUME TypeOK, NEW r \in Run, episode # {}, episode \subseteq PodsOf(r)
    PROVE  RunOf(episode) = r /\ r \in Run \ Frozen
<1>1. PICK p \in episode : p \in Pod /\ p[1] = r
  BY DEF PodsOf
<1>2. PICK q \in Run \ Frozen : episode \subseteq PodsOf(q)
  BY DEF TypeOK
<1>3. q = r
  BY <1>1, <1>2 DEF PodsOf
<1>4. \A s \in Run : (\E x \in episode : x[1] = s) => s = r
  BY DEF PodsOf
<1>5. \E x \in episode : x[1] = r
  BY <1>1
<1>6. RunOf(episode) \in Run /\ \E x \in episode : x[1] = RunOf(episode)
  BY <1>5 DEF RunOf
<1> QED BY <1>2, <1>3, <1>4, <1>6

LEMMA ClosedUpdates ==
    ASSUME TypeOK, episode # {}
    PROVE  /\ Closed \in Seq(Update)
           /\ Len(Closed) = Len(updates) + 1
           /\ \A k \in DOMAIN updates : Closed[k] = updates[k]
           /\ Closed[Len(Closed)] = [run |-> RunOf(episode), status |-> "queued"]
<1>1. PICK r \in Run \ Frozen : episode \subseteq PodsOf(r)
  BY DEF TypeOK
<1>2. RunOf(episode) \in Run \ Frozen
  BY <1>1, EpisodeRun
<1>3. [run |-> RunOf(episode), status |-> "queued"] \in Update
  BY <1>2 DEF Update
<1>4. updates \in Seq(Update)
  BY DEF TypeOK, Update
<1> QED BY <1>3, <1>4 DEF Closed

-----------------------------------------------------------------------------
(* Typing.                                                                 *)

LEMMA CallType ==
    ASSUME TypeOK, NEW c \in Call
    PROVE  call[c] # NoCall <=> call[c] \in CallState
BY AbsenceAssumption DEF TypeOK

\* What a step of a settle call makes of the call.
LEMMA SettleMoves ==
    ASSUME TypeOK, NEW c \in Call, SettleStep(c)
    PROVE  /\ call[c] \in CallState /\ call'[c] \in CallState
           /\ call' = [call EXCEPT ![c] = call'[c]]
           /\ call'[c].update \in {call[c].update, Len(updates')}
           /\ \/ /\ SettlePoll(c) /\ call[c].at = "polling" /\ call'[c].at = "reading"
                 /\ call'[c].listed = Succeeded
              \/ /\ SettleRead(c) /\ call[c].at = "reading" /\ call'[c].at = "closing"
                 /\ call'[c].listed = {}
              \/ /\ SettleClose(c) /\ call[c].at = "closing" /\ call'[c].at = "waiting"
                 /\ call'[c].update = Len(updates')
              \/ /\ SettleWait(c) /\ call[c].at = "waiting" 
                 /\ call'[c].at = IF failure THEN "failed" ELSE "finishing"
              \/ /\ SettleKept(c) /\ call[c].at = "finishing" /\ call'[c].at = "returned"
                 /\ call'[c].episodes = episodes /\ call'[c].kept = (kept' # NoKept)
           /\ ~SettleKept(c) => call'[c].episodes = call[c].episodes /\ call'[c].kept = call[c].kept
           /\ ~SettlePoll(c) => call'[c].listed \subseteq call[c].listed
<1>1. call[c] \in CallState
  BY CallType DEF SettleStep, SettlePoll, SettleRead, SettleClose, SettleWait, SettleKept, At
<1>2. call \in [Call -> CallState \cup {NoCall}] /\ Succeeded \subseteq Pod /\ episodes \in Nat
  BY DEF TypeOK, Succeeded
<1>3. CASE SettlePoll(c)
  <2>1. call[c].at = "polling" /\ call' = [call EXCEPT ![c].at = "reading", ![c].listed = Succeeded]
    BY <1>3 DEF SettlePoll, At
  <2>2. call'[c] = [call[c] EXCEPT !.at = "reading", !.listed = Succeeded]
    BY <1>2, <2>1
  <2>3. ~SettleKept(c) /\ call'[c] \in CallState
    BY <1>1, <1>2, <2>1, <2>2 DEF SettleKept, At, CallState
  <2> QED BY <1>1, <1>2, <1>3, <2>1, <2>2, <2>3 DEF CallState
<1>4. CASE SettleRead(c)
  <2>1. call[c].at = "reading" /\ call' = [call EXCEPT ![c].at = "closing", ![c].listed = {}]
    BY <1>4 DEF SettleRead, At
  <2>2. call'[c] = [call[c] EXCEPT !.at = "closing", !.listed = {}]
    BY <1>2, <2>1
  <2>3. ~SettleKept(c) /\ call'[c] \in CallState
    BY <1>1, <1>2, <2>1, <2>2 DEF SettleKept, At, CallState
  <2> QED BY <1>1, <1>2, <1>4, <2>1, <2>2, <2>3 DEF CallState
<1>5. CASE SettleClose(c)
  <2>1. call[c].at = "closing" /\ call' = [call EXCEPT ![c].at = "waiting", ![c].update = Len(updates')]
    BY <1>5 DEF SettleClose, At
  <2>2. call'[c] = [call[c] EXCEPT !.at = "waiting", !.update = Len(updates')]
    BY <1>2, <2>1
  <2>3. Len(updates') \in Nat
    BY <1>5, ClosedUpdates DEF SettleClose, TypeOK, Update
  <2>4. ~SettleKept(c) /\ call'[c] \in CallState
    BY <1>1, <1>2, <2>1, <2>2, <2>3 DEF SettleKept, At, CallState
  <2> QED BY <1>1, <1>2, <1>5, <2>1, <2>2, <2>4 DEF CallState
<1>6. CASE SettleWait(c)
  <2>1. PICK x \in {"failed", "finishing"} :
          /\ x = IF failure THEN "failed" ELSE "finishing"
          /\ call[c].at = "waiting" /\ call' = [call EXCEPT ![c].at = x]
    BY <1>6 DEF SettleWait, At, Goes
  <2>2. call'[c] = [call[c] EXCEPT !.at = x]
    BY <1>2, <2>1
  <2>3. ~SettleKept(c) /\ call'[c] \in CallState
    BY <1>1, <1>2, <2>1, <2>2 DEF SettleKept, At, CallState
  <2> QED BY <1>1, <1>2, <1>6, <2>1, <2>2, <2>3 DEF CallState
<1>7. CASE SettleKept(c)
  <2>1. PICK k \in BOOLEAN :
          /\ k = (kept' # NoKept)
          /\ call[c].at = "finishing"
          /\ call' = [call EXCEPT ![c].at = "returned", ![c].episodes = episodes, ![c].kept = k]
    BY <1>7 DEF SettleKept, At
  <2>2. call'[c] = [call[c] EXCEPT !.at = "returned", !.episodes = episodes, !.kept = k]
    BY <1>2, <2>1
  <2>3. call'[c] \in CallState
    BY <1>1, <1>2, <2>1, <2>2 DEF CallState
  <2> QED BY <1>1, <1>2, <1>7, <2>1, <2>2, <2>3 DEF CallState
<1> QED BY <1>3, <1>4, <1>5, <1>6, <1>7 DEF SettleStep

\* A settle call begins: it polls, or has returned, or has failed.
LEMMA SettleStarts ==
    ASSUME TypeOK, NEW c \in Call, SettleStart(c)
    PROVE  /\ call[c] = NoCall /\ call'[c] \in CallState /\ call' = [call EXCEPT ![c] = call'[c]]
           /\ call'[c].at \in {IF started THEN "polling" ELSE "returned", "failed"}
           /\ call'[c].listed = {} /\ call'[c].update = 0 /\ call'[c].episodes = episodes
           /\ ~call'[c].kept
<1>1. PICK x \in {IF started THEN "polling" ELSE "returned", "failed"} :
        call' = [call EXCEPT ![c] = [at |-> x, listed |-> {}, update |-> 0,
                                     episodes |-> episodes, kept |-> FALSE]]
  BY DEF SettleStart
<1>2. call'[c] = [at |-> x, listed |-> {}, update |-> 0, episodes |-> episodes, kept |-> FALSE]
  BY <1>1 DEF TypeOK
<1>3. call'[c] \in CallState
  BY <1>2 DEF CallState, TypeOK
<1>4. call' = [call EXCEPT ![c] = call'[c]]
  BY <1>1, <1>2
<1>5. x \in {"polling", "returned", "failed"} /\ (x # "failed" => x = IF started THEN "polling" ELSE "returned")
  OBVIOUS
<1>6. call[c] = NoCall
  BY DEF SettleStart
<1> QED BY <1>2, <1>3, <1>4, <1>5, <1>6

LEMMA StartsAlone ==
    ASSUME TypeOK, NEW c \in Call, SettleStart(c), NEW d \in Call, d # c
    PROVE  call'[d] = call[d]
BY SettleStarts DEF TypeOK

LEMMA RestartFails ==
    ASSUME TypeOK, NEW c \in Call, Restart, call'[c] # NoCall
    PROVE  /\ call[c] \in CallState /\ call'[c] \in CallState
           /\ call'[c].at = IF call[c].at = "returned" THEN "returned" ELSE "failed"
           /\ call'[c].listed \subseteq call[c].listed
           /\ call'[c].update = call[c].update /\ call'[c].episodes = call[c].episodes
           /\ call'[c].kept = call[c].kept
<1>1. call'[c] = IF call[c] # NoCall /\ call[c].at # "returned"
                 THEN [call[c] EXCEPT !.at = "failed", !.listed = {}] ELSE call[c]
  BY DEF Restart
<1>2. call[c] \in CallState /\ call[c] # NoCall
  BY <1>1, CallType
<1>3. CASE call[c].at = "returned"
  BY <1>1, <1>2, <1>3
<1>4. CASE call[c].at # "returned"
  <2>1. call'[c] = [call[c] EXCEPT !.at = "failed", !.listed = {}]
    BY <1>1, <1>2, <1>4
  <2>2. call'[c] \in CallState
    BY <1>2, <2>1 DEF CallState
  <2> QED BY <1>2, <1>4, <2>1, <2>2 DEF CallState
<1> QED BY <1>3, <1>4

LEMMA TypeInit == Init => TypeOK
<1> SUFFICES ASSUME Init PROVE TypeOK
  OBVIOUS
<1>1. run \in Run
  BY RunsInOrder DEF Init
<1>2. updates = <<>> /\ trained = <<>> /\ net = <<>>
  BY DEF Init, LearnerInit
<1>3. /\ updates \in Seq(Update) /\ trained \in Seq(Run \ Frozen) /\ net \in Seq(Run \ Frozen)
  BY <1>2
<1>4. call \in [Call -> CallState \cup {NoCall}] /\ \A c \in Call : call[c] = NoCall
  BY DEF Init, LearnerInit
<1>5. /\ pod \in [Pod -> {"none", "pending", "running", "succeeded", "gone"}]
      /\ known \in [Pod -> Nat] /\ models \in [Run -> SUBSET Seq(Run \ Frozen)]
      /\ status \in [Run -> {"none", "aborted", "complete", "timeout", "unsettled"}]
  BY DEF Init, LearnerInit, Nothing
<1>6. /\ kept = NoKept /\ seen = {} /\ polled = NoPoll /\ episode = {} /\ stage = "idle"
      /\ {episodes, before, failures, restarts, givenUp} \subseteq Nat
  BY DEF Init, LearnerInit
<1>7. started \in BOOLEAN /\ failure \in BOOLEAN /\ forgotten \in SUBSET (Run \ Frozen)
  BY DEF Init, LearnerInit
<1> QED BY <1>1, <1>3, <1>4, <1>5, <1>6, <1>7 DEF TypeOK, Update, At

\* Reading a list of finished pods.
LEMMA ReadType ==
    ASSUME TypeOK, NEW listed \in SUBSET Pod, Read(listed)
    PROVE  known' \in [Pod -> Nat] /\ seen' \in SUBSET Pod
BY DEF Read, TypeOK

LEMMA AdvanceType ==
    ASSUME TypeOK, NEW k \in DOMAIN updates, NEW s \in {"queued", "learned", "done", "failed"}, Advance(k, s)
    PROVE  /\ updates' \in Seq(Update) /\ Len(updates') = Len(updates)
           /\ updates'[k].run = updates[k].run /\ updates'[k].status = s
           /\ \A j \in DOMAIN updates : j # k => updates'[j] = updates[j]
           /\ updates[k] \in Update
<1>1. updates \in Seq(Update)
  BY DEF TypeOK, Update
<1>2. updates[k] \in Update
  BY <1>1
<1>3. updates' = [updates EXCEPT ![k] = [updates[k] EXCEPT !.status = s]]
  BY DEF Advance
<1>4. [updates[k] EXCEPT !.status = s] \in Update
  BY <1>2 DEF Update
<1>5. updates' \in Seq(Update) /\ Len(updates') = Len(updates)
  BY <1>1, <1>3, <1>4
<1> QED BY <1>1, <1>2, <1>3, <1>5 DEF Update

\* Who takes a step.
LEMMA StepCases ==
    ASSUME [Next]_vars
    PROVE  \/ Kexp
           \/ UNCHANGED kexp /\ Pods
           \/ UNCHANGED kexp /\ (Poll \/ ReadPolled)
           \/ UNCHANGED kexp /\ \E k \in DOMAIN updates : Learn(k) \/ HandOver(k) \/ UpdateFails(k)
           \/ UNCHANGED kexp /\ \E c \in Call : SettleStep(c)
           \/ UNCHANGED kexp /\ Restart
           \/ UNCHANGED vars
BY DEF Next, Decider

LEMMA CallsKeepType ==
    ASSUME TypeOK, NEW c \in Call, call'[c] \in CallState, call' = [call EXCEPT ![c] = call'[c]],
           Len(updates') >= Len(updates), Len(updates') \in Nat,
           call'[c].at = "waiting" => call'[c].update <= Len(updates')
    PROVE  /\ call' \in [Call -> CallState \cup {NoCall}]
           /\ \A d \in Call : At(d, "waiting")' => call'[d].update <= Len(updates')
<1>1. call' \in [Call -> CallState \cup {NoCall}] /\ \A d \in Call : d # c => call'[d] = call[d]
  BY DEF TypeOK
<1>2. Len(updates) \in Nat
  BY DEF TypeOK
<1>3. ASSUME NEW d \in Call, At(d, "waiting")' PROVE call'[d].update <= Len(updates')
  <2>1. CASE d = c
    BY <1>3, <2>1 DEF At
  <2>2. CASE d # c
    <3>1. call[d] \in CallState /\ call[d].update <= Len(updates) /\ call'[d] = call[d]
      BY <1>1, <1>3, <2>2, CallType DEF At, TypeOK
    <3> QED BY <1>2, <3>1 DEF CallState
  <2> QED BY <2>1, <2>2
<1> QED BY <1>1, <1>3

\* What types a state, the calls apart.
Shape ==
    /\ pod \in [Pod -> {"none", "pending", "running", "succeeded", "gone"}]
    /\ started \in BOOLEAN /\ failure \in BOOLEAN
    /\ episode # {} => \E r \in Run \ Frozen : episode \subseteq PodsOf(r)
    /\ updates \in Seq(Update)
    /\ trained \in Seq(Run \ Frozen) /\ net \in Seq(Run \ Frozen)
    /\ known \in [Pod -> Nat] /\ kept \in [Pod -> Nat] \cup {NoKept}
    /\ seen \in SUBSET Pod /\ polled \in {NoPoll} \cup SUBSET Pod
    /\ models \in [Run -> SUBSET Seq(Run \ Frozen)]
    /\ forgotten \in SUBSET (Run \ Frozen)
    /\ {episodes, failures, restarts} \subseteq Nat

KexpShape ==
    /\ {before, givenUp} \subseteq Nat
    /\ run \in Run
    /\ stage \in {"idle", "settling", "running", "learning", "leaving", "over"}
    /\ status \in [Run -> {"none", "aborted", "complete", "timeout", "unsettled"}]

CallShape ==
    /\ call \in [Call -> CallState \cup {NoCall}]
    /\ \A c \in Call : At(c, "waiting") => call[c].update <= Len(updates)

LEMMA TypeParts == TypeOK <=> Shape /\ KexpShape /\ CallShape
BY DEF TypeOK, Shape, KexpShape, CallShape, Update

LEMMA KexpType ==
    ASSUME TypeOK, Kexp
    PROVE  Shape' /\ KexpShape'
<1>. Shape /\ KexpShape /\ run \in Run
  BY TypeParts DEF KexpShape
<1>1. CASE StartRun
  BY <1>1 DEF StartRun, Shape, KexpShape, observer, learner, policy
<1>2. CASE CreatePods
  <2>1. call[<<run, "before">>] \in CallState
    BY <1>2, CallType, PodIsPair DEF CreatePods, At, Moment
  <2>2. before' \in Nat
    BY <1>2, <2>1 DEF CreatePods, CallState
  <2>3. pod' \in [Pod -> {"none", "pending", "running", "succeeded", "gone"}]
    BY <1>2 DEF CreatePods, Shape
  <2> QED BY <1>2, <2>2, <2>3 DEF CreatePods, Shape, KexpShape, decider, observer, learner, policy
<1>3. CASE Refuse
  BY SMTT(20), <1>3 DEF Refuse, GivesUp, Shape, KexpShape, decider, observer, learner, policy
<1>4. CASE EndPods
  <2>1. status' \in [Run -> {"none", "aborted", "complete", "timeout", "unsettled"}] /\ stage' = "learning"
    BY <1>4 DEF EndPods, KexpShape
  <2>2. UNCHANGED <<pod, observer, learner, policy, restarts, forgotten, run, before, givenUp>>
    BY <1>4 DEF EndPods
  <2>3. Shape'
    BY <2>2 DEF Shape, observer, learner, policy
  <2> QED BY <2>1, <2>2, <2>3 DEF KexpShape
<1>5. CASE Cancel
  BY <1>5 DEF Cancel, Shape, KexpShape, decider, observer, learner, policy
<1>6. CASE CheckLearned
  BY <1>6 DEF CheckLearned, Shape, KexpShape, decider, observer, learner, policy
<1>7. CASE Unsettled
  BY <1>7 DEF Unsettled, GivesUp, Shape, KexpShape, decider, observer, learner, policy
<1>8. CASE Leave
  <2>1. run' \in Run
    BY <1>8, RunsInOrder DEF Leave
  <2>2. pod' \in [Pod -> {"none", "pending", "running", "succeeded", "gone"}]
    BY <1>8 DEF Leave, Shape
  <2> QED BY <1>8, <2>1, <2>2 DEF Leave, Shape, KexpShape, decider, observer, learner, policy
<1> QED BY <1>1, <1>2, <1>3, <1>4, <1>5, <1>6, <1>7, <1>8 DEF Kexp

LEMMA KexpCalls ==
    ASSUME TypeOK, Kexp
    PROVE  /\ UNCHANGED updates
           /\ \/ UNCHANGED call
              \/ StartRun /\ SettleStart(<<run, "before">>)
              \/ EndPods /\ SettleStart(<<run, "after">>)
BY DEF Kexp, StartRun, CreatePods, Refuse, EndPods, Cancel, CheckLearned, Unsettled, Leave, decider,
       policy

LEMMA PodsType ==
    ASSUME TypeOK, Pods
    PROVE  /\ Shape' /\ UNCHANGED call
           /\ Len(updates') \in Nat /\ Len(updates') >= Len(updates)
<1>. Shape
  BY TypeParts
<1>0. Len(updates) \in Nat
  BY DEF Shape
<1>1. ASSUME NEW p \in Pod, Decide(p) PROVE Shape' /\ Len(updates') \in Nat /\ Len(updates') >= Len(updates)
  <2>1. updates' \in Seq(Update) /\ Len(updates') >= Len(updates)
    BY <1>0, <1>1, ClosedUpdates DEF Decide, Shape
  <2>2. episode' # {} => \E r \in Run \ Frozen : episode' \subseteq PodsOf(r)
    <3>1. SUFFICES ASSUME episode' # {} PROVE \E r \in Run \ Frozen : episode' \subseteq PodsOf(r)
      OBVIOUS
    <3>2. CASE episode' = episode
      BY <3>1, <3>2 DEF Shape
    <3>3. CASE episode' = {p} /\ p[1] \notin Frozen
      BY <3>3, PodIsPair DEF PodsOf
    <3>4. CASE episode' = episode \cup {p} /\ p[1] \notin Frozen /\ episode # {} /\ RunOf(episode) = p[1]
      <4>1. PICK r \in Run \ Frozen : episode \subseteq PodsOf(r)
        BY <3>4 DEF Shape
      <4>2. p[1] = r
        BY <3>4, <4>1, EpisodeRun
      <4> QED BY <3>4, <4>1, <4>2 DEF PodsOf
    <3> QED BY <1>1, <3>1, <3>2, <3>3, <3>4 DEF Decide
  <2>3. models' \in [Run -> SUBSET Seq(Run \ Frozen)]
    BY <1>1 DEF Decide, Shape
  <2>4. pod' \in [Pod -> {"none", "pending", "running", "succeeded", "gone"}]
    BY <1>1 DEF Decide, Shape
  <2>5. started' \in BOOLEAN
    BY <1>1 DEF Decide
  <2> QED BY SMTT(20), <1>1, <2>1, <2>2, <2>3, <2>4, <2>5 DEF Decide, Shape, observer, learner
<1>2. ASSUME NEW p \in Pod, PlaceUnseen(p) \/ Finish(p)
      PROVE  Shape' /\ UNCHANGED updates
  <2>1. pod' \in [Pod -> {"none", "pending", "running", "succeeded", "gone"}]
    BY <1>2 DEF PlaceUnseen, Finish, Shape
  <2> QED BY <1>2, <2>1 DEF PlaceUnseen, Finish, Shape, decider, observer, learner, policy
<1>3. UNCHANGED call
  BY DEF Pods, Decide, PlaceUnseen, Finish, decider
<1> QED BY <1>0, <1>1, <1>2, <1>3 DEF Pods

LEMMA PollsType ==
    ASSUME TypeOK, Poll \/ ReadPolled
    PROVE  Shape' /\ UNCHANGED <<call, updates>>
<1>. Shape
  BY TypeParts
<1>1. CASE Poll
  <2>1. polled' \in {NoPoll} \cup SUBSET Pod
    BY <1>1 DEF Poll, Succeeded
  <2> QED BY <1>1, <2>1 DEF Poll, Shape, learner, policy
<1>2. CASE ReadPolled
  <2>1. polled \in SUBSET Pod
    BY <1>2 DEF ReadPolled, Shape
  <2> QED BY <1>2, <2>1, ReadType DEF ReadPolled, Shape, learner, policy
<1> QED BY <1>1, <1>2

LEMMA LearnerType ==
    ASSUME TypeOK, NEW k \in DOMAIN updates, Learn(k) \/ HandOver(k) \/ UpdateFails(k)
    PROVE  Shape' /\ UNCHANGED call /\ Len(updates') = Len(updates)
<1>. Shape
  BY TypeParts
<1>1. CASE Learn(k)
  <2>1. updates[k] \in Update /\ updates' \in Seq(Update) /\ Len(updates') = Len(updates)
    BY <1>1, AdvanceType DEF Learn
  <2>2. trained' \in Seq(Run \ Frozen)
    BY <1>1, <2>1 DEF Learn, Shape, Update
  <2> QED BY <1>1, <2>1, <2>2 DEF Learn, Shape, observer
<1>2. CASE HandOver(k)
  <2>1. updates' \in Seq(Update) /\ Len(updates') = Len(updates)
    BY <1>2, AdvanceType DEF HandOver
  <2> QED BY <1>2, <2>1 DEF HandOver, Shape, observer
<1>3. CASE UpdateFails(k)
  <2>1. updates' \in Seq(Update) /\ Len(updates') = Len(updates)
    BY <1>3, AdvanceType DEF UpdateFails
  <2> QED BY <1>3, <2>1 DEF UpdateFails, Shape, observer
<1> QED BY <1>1, <1>2, <1>3

LEMMA SettleType ==
    ASSUME TypeOK, NEW c \in Call, SettleStep(c)
    PROVE  Shape' /\ Len(updates') \in Nat /\ Len(updates') >= Len(updates)
<1>. Shape
  BY TypeParts
<1>0. Len(updates) \in Nat
  BY DEF Shape
<1>1. CASE SettlePoll(c) \/ SettleWait(c)
  BY <1>0, <1>1 DEF SettlePoll, SettleWait, Shape, observer, learner, policy
<1>2. CASE SettleRead(c)
  <2>1. call[c].listed \in SUBSET Pod
    BY <1>2, CallType DEF SettleRead, At, CallState
  <2> QED BY <1>0, <1>2, <2>1, ReadType DEF SettleRead, Shape, learner, policy
<1>3. CASE SettleClose(c)
  <2>1. updates' \in Seq(Update) /\ Len(updates') >= Len(updates)
    BY <1>0, <1>3, ClosedUpdates DEF SettleClose, Shape
  <2> QED BY <1>3, <2>1 DEF SettleClose, Shape, observer, learner
<1>4. CASE SettleKept(c)
  <2>1. known' \in [Pod -> Nat] /\ kept' \in [Pod -> Nat] \cup {NoKept}
    BY <1>4 DEF SettleKept, Shape
  <2>2. UNCHANGED <<pod, seen, polled, trained, net, episodes, failure, failures, started, episode, updates,
                    models, restarts, forgotten>>
    BY <1>4 DEF SettleKept, learner
  <2> QED BY <1>0, <2>1, <2>2 DEF Shape
<1> QED BY <1>1, <1>2, <1>3, <1>4 DEF SettleStep

LEMMA RestartType ==
    ASSUME TypeOK, Restart
    PROVE  Shape' /\ updates' = <<>>
<1>. Shape
  BY TypeParts
<1>1. /\ updates' \in Seq(Update) /\ trained' \in Seq(Run \ Frozen) /\ net' \in Seq(Run \ Frozen)
      /\ updates' = <<>>
  <2>1. updates' = <<>> /\ trained' = <<>> /\ net' = <<>>
    BY DEF Restart
  <2> QED BY <2>1
<1>2. known' \in [Pod -> Nat] /\ kept' = NoKept /\ seen' = {} /\ polled' = NoPoll /\ episode' = {}
  BY DEF Restart, Nothing
<1>3. started' \in BOOLEAN /\ failure' \in BOOLEAN /\ episodes' = 0 /\ restarts' = restarts + 1
  BY DEF Restart
<1>4. UNCHANGED <<pod, models, failures>>
  BY DEF Restart
<1>5. {episodes', failures', restarts'} \subseteq Nat
  BY <1>3, <1>4 DEF Shape
<1>6. LearnedFrom \subseteq Run \ Frozen
  BY DEF LearnedFrom, Shape
<1>7. forgotten' \in SUBSET (Run \ Frozen)
  BY <1>6 DEF Restart, Shape
<1> QED BY <1>1, <1>2, <1>3, <1>4, <1>5, <1>7 DEF Shape

LEMMA TypeNext == TypeOK /\ [Next]_vars => TypeOK'
<1> SUFFICES ASSUME TypeOK, [Next]_vars PROVE TypeOK'
  OBVIOUS
<1>. Shape /\ KexpShape /\ CallShape /\ Len(updates) \in Nat
  BY TypeParts DEF Shape
<1>0. Shape' /\ KexpShape' /\ CallShape' => TypeOK'
  BY DEF TypeOK, Shape, KexpShape, CallShape, Update
<1>1. ASSUME UNCHANGED kexp PROVE KexpShape'
  BY <1>1 DEF kexp, KexpShape
<1>2. ASSUME UNCHANGED call, Len(updates') >= Len(updates), Len(updates') \in Nat PROVE CallShape'
  <2>1. ASSUME NEW c \in Call, At(c, "waiting")' PROVE call'[c].update <= Len(updates')
    <3>1. call[c] \in CallState /\ call[c].update <= Len(updates)
      BY <1>2, <2>1, CallType DEF At, CallShape
    <3> QED BY <1>2, <3>1 DEF CallState
  <2> QED BY <1>2, <2>1 DEF CallShape
<1>3. CASE Kexp
  <2>1. ASSUME NEW c \in Call, SettleStart(c), UNCHANGED updates PROVE CallShape'
    <3>1. call'[c].at # "waiting"
      BY <2>1, SettleStarts
    <3> QED BY <2>1, <3>1, SettleStarts, CallsKeepType DEF CallShape
  <2> QED BY <1>2, <1>3, <2>1, KexpType, KexpCalls, PodIsPair, <1>0 DEF KexpShape, Moment
<1>4. CASE UNCHANGED kexp /\ Pods
  BY <1>1, <1>2, <1>4, PodsType, <1>0
<1>5. CASE UNCHANGED kexp /\ (Poll \/ ReadPolled)
  BY <1>1, <1>2, <1>5, PollsType, <1>0
<1>6. CASE UNCHANGED kexp /\ \E k \in DOMAIN updates : Learn(k) \/ HandOver(k) \/ UpdateFails(k)
  <2>1. Shape' /\ UNCHANGED call /\ Len(updates') = Len(updates)
    BY <1>6, LearnerType
  <2> QED BY <1>1, <1>2, <1>6, <2>1, <1>0
<1>7. CASE UNCHANGED kexp /\ \E c \in Call : SettleStep(c)
  <2>1. PICK c \in Call : SettleStep(c)
    BY <1>7
  <2>2. Shape' /\ Len(updates') \in Nat /\ Len(updates') >= Len(updates)
    BY <2>1, SettleType
  <2>3. call'[c].at = "waiting" => call'[c].update <= Len(updates')
    BY <2>1, <2>2, SettleMoves
  <2>4. CallShape'
    BY <2>1, <2>2, <2>3, SettleMoves, CallsKeepType DEF CallShape
  <2> QED BY <1>1, <1>7, <2>2, <2>4, <1>0
<1>8. CASE UNCHANGED kexp /\ Restart
  <2>1. call' \in [Call -> CallState \cup {NoCall}]
    <3>1. \A c \in Call : call'[c] # NoCall => call'[c] \in CallState
      BY <1>8, RestartFails
    <3> QED BY <1>8, <3>1 DEF Restart
  <2>2. \A c \in Call : ~At(c, "waiting")'
    BY <1>8, RestartFails DEF At
  <2> QED BY <1>1, <1>8, <2>1, <2>2, RestartType, <1>0 DEF CallShape
<1>9. CASE UNCHANGED vars
  BY <1>9 DEF vars, kexp, decider, observer, learner, policy, TypeOK, At, PodsOf
<1> QED BY <1>3, <1>4, <1>5, <1>6, <1>7, <1>8, <1>9, StepCases

\* Whatever fails, restarts or is given up, an episode holds pods of one training run, a network
\* has learned from training runs only, and a settle call waits for an update that was submitted
\* (kaptain.py 594-671).
THEOREM TypeCorrect == Spec => []TypeOK
BY TypeInit, TypeNext, PTL DEF Spec

-----------------------------------------------------------------------------
(* What a step leaves alone.                                               *)

\* A step of kexp's, of a pod, or of the learner.
LEMMA EstimatesStay ==
    ASSUME [Next]_vars,
           ~ \/ UNCHANGED kexp /\ (Poll \/ ReadPolled)
             \/ UNCHANGED kexp /\ \E c \in Call : SettleStep(c)
             \/ UNCHANGED kexp /\ Restart
    PROVE  UNCHANGED <<known, kept, seen, polled>>
<1>1. Kexp => UNCHANGED <<known, kept, seen, polled>>
  BY DEF Kexp, StartRun, CreatePods, Refuse, EndPods, Cancel, CheckLearned, Unsettled, Leave, decider,
       policy, observer
<1>2. Pods => UNCHANGED <<known, kept, seen, polled>>
  BY DEF Pods, Decide, PlaceUnseen, Finish, decider, policy, observer
<1>3. (\E k \in DOMAIN updates : Learn(k) \/ HandOver(k) \/ UpdateFails(k)) => UNCHANGED <<known, kept, seen, polled>>
  BY DEF Learn, HandOver, UpdateFails, observer
<1>4. UNCHANGED vars => UNCHANGED <<known, kept, seen, polled>>
  BY DEF vars, decider, policy, observer
<1> QED BY <1>1, <1>2, <1>3, <1>4, StepCases

LEMMA RestartForgets ==
    ASSUME Restart
    PROVE  /\ known' = Nothing /\ seen' = {} /\ polled' = NoPoll /\ kept' = NoKept
           /\ started' = FALSE /\ started /\ restarts' = restarts + 1
           /\ trained' = <<>> /\ net' = <<>> /\ episodes' = 0 /\ ~failure' /\ episode' = {} /\ updates' = <<>>
           /\ UNCHANGED <<pod, models, failures>>
<1>1. started' = FALSE /\ started /\ restarts' = restarts + 1 /\ ~failure'
  BY DEF Restart
<1>2. /\ known' = Nothing /\ seen' = {} /\ polled' = NoPoll /\ kept' = NoKept
      /\ trained' = <<>> /\ net' = <<>> /\ episodes' = 0 /\ episode' = {} /\ updates' = <<>>
  BY DEF Restart
<1>3. UNCHANGED <<pod, models, failures>>
  BY DEF Restart
<1> QED BY <1>1, <1>2, <1>3

\* The read of a finished pod, and what settle makes of the estimates.
LEMMA KeptMoves ==
    ASSUME TypeOK, NEW c \in Call, SettleKept(c)
    PROVE  /\ known' = IF kept # NoKept THEN kept ELSE known
           /\ kept' = IF Phase(c[1], c[2]) = "valid" THEN (IF kept = NoKept THEN known ELSE kept)
                      ELSE IF Phase(c[1], c[2]) = "" THEN kept ELSE NoKept
           /\ UNCHANGED <<pod, seen, polled, learner, started, episode, updates, models, restarts>>
BY DEF SettleKept

LEMMA SettleFrame ==
    ASSUME TypeOK, NEW c \in Call, SettleStep(c)
    PROVE  /\ UNCHANGED <<pod, polled, learner, started, models, restarts>>
           /\ ~SettleRead(c) => UNCHANGED seen
           /\ ~SettleRead(c) /\ ~SettleKept(c) => UNCHANGED known
           /\ ~SettleKept(c) => UNCHANGED kept
           /\ ~SettleClose(c) => UNCHANGED <<episode, updates>>
           /\ SettleRead(c) => Read(call[c].listed)
           /\ SettleClose(c) => episode' = {} /\ updates' = IF episode # {} THEN Closed ELSE updates
<1>1. CASE SettlePoll(c) \/ SettleWait(c)
  BY <1>1 DEF SettlePoll, SettleWait, SettleRead, SettleClose, SettleKept, At, observer, policy
<1>2. CASE SettleRead(c)
  BY <1>2 DEF SettleRead, SettleClose, SettleKept, At, policy
<1>3. CASE SettleClose(c)
  BY <1>3 DEF SettleRead, SettleClose, SettleKept, At, observer
<1>4. CASE SettleKept(c)
  BY <1>4, KeptMoves DEF SettleRead, SettleClose, SettleKept, At
<1> QED BY <1>1, <1>2, <1>3, <1>4 DEF SettleStep

-----------------------------------------------------------------------------
(* Each runtime counts once.                                               *)

\* A runtime that is in the estimates, or in those kept, is of a pod seen.
Once ==
    /\ \A p \in Pod : known[p] <= 1 /\ (known[p] = 1 => p \in seen)
    /\ kept # NoKept => \A p \in Pod : kept[p] <= 1 /\ (kept[p] = 1 => p \in seen)

LEMMA ReadOnce ==
    ASSUME TypeOK, Once, NEW listed \in SUBSET Pod, Read(listed), UNCHANGED kept
    PROVE  Once'
<1>1. ASSUME NEW p \in Pod PROVE known'[p] <= 1 /\ (known'[p] = 1 => p \in seen')
  <2>1. known[p] \in Nat /\ known[p] <= 1 /\ (known[p] = 1 => p \in seen)
    BY DEF TypeOK, Once
  <2>2. known'[p] = known[p] + (IF p \in listed \ seen THEN 1 ELSE 0) /\ seen' = seen \cup listed
    BY DEF Read
  <2> QED BY <2>1, <2>2
<1>2. seen \subseteq seen'
  BY DEF Read
<1> QED BY <1>1, <1>2 DEF Once

LEMMA OnceNext == TypeOK /\ Once /\ [Next]_vars => Once'
<1> SUFFICES ASSUME TypeOK, Once, [Next]_vars PROVE Once'
  OBVIOUS
<1>1. CASE Poll
  BY <1>1 DEF Poll, Once, policy
<1>2. CASE ReadPolled
  BY <1>2, ReadOnce DEF ReadPolled, TypeOK, policy
<1>3. ASSUME NEW c \in Call, SettleStep(c) PROVE Once'
  <2>1. CASE SettleRead(c)
    <3>1. call[c].listed \in SUBSET Pod
      BY <2>1, CallType DEF SettleRead, At, CallState
    <3>2. ~SettleKept(c)
      BY <2>1 DEF SettleRead, SettleKept, At
    <3> QED BY <1>3, <2>1, <3>1, <3>2, SettleFrame, ReadOnce
  <2>2. CASE SettleKept(c)
    BY <2>2, KeptMoves DEF Once
  <2>3. CASE ~SettleRead(c) /\ ~SettleKept(c)
    BY <1>3, <2>3, SettleFrame DEF Once
  <2> QED BY <2>1, <2>2, <2>3
<1>4. CASE Restart
  BY <1>4, RestartForgets DEF Once, Nothing
<1>5. UNCHANGED <<known, kept, seen, polled>> => Once'
  BY DEF Once
<1> QED BY <1>1, <1>2, <1>3, <1>4, <1>5, EstimatesStay

LEMMA OnceInvariant == Spec => []Once
<1>1. Init => Once
  BY DEF Init, LearnerInit, Nothing, Once
<1> QED BY <1>1, OnceNext, TypeCorrect, PTL DEF Spec

\* kaptain.py 316-325: a pod's runtime goes into the estimates at most once, whoever reads the list that
\* shows it finished, whatever was restored between, and whatever restarts.
THEOREM EachLearnedOnce == Spec => []LearnedOnce
<1>1. Once => LearnedOnce
  BY DEF Once, LearnedOnce
<1> QED BY <1>1, OnceInvariant, PTL

-----------------------------------------------------------------------------
(* Whose turn it is.                                                       *)

Active == {"pending", "running", "succeeded"}

Ending == {"waiting", "finishing", "returned", "failed"}

Before == <<run, "before">>
After == <<run, "after">>

\* The call whose answer kexp waits for.
Current(c) == (stage = "settling" /\ c = Before) \/ (stage = "learning" /\ c = After)

\* The pods of the run were created, and are not deleted yet.
Opened == stage \in {"running", "learning"} \/ \E p \in PodsOf(run) : pod[p] \in Active

PodsInTurn ==
    \A p \in Pod :
        /\ p[1] > run => pod[p] = "none"
        /\ pod[p] \in Active => p[1] = run /\ stage \in {"running", "learning", "leaving"}
        /\ p[1] = run /\ stage \in {"idle", "settling"} => pod[p] = "none"

StatusInTurn ==
    /\ \A r \in Run : r > run => status[r] = "none"
    /\ stage \in {"idle", "settling", "running"} => status[run] = "none"
    /\ status[run] = "complete" => \A p \in PodsOf(run) : pod[p] \in {"succeeded", "gone"}

CallsInTurn ==
    /\ \A c \in Call : call[c] # NoCall => c[1] <= run /\ (call[c].at \in Ending \/ Current(c))
    /\ stage = "idle" => call[Before] = NoCall
    /\ stage \in {"idle", "settling", "running"} => call[After] = NoCall
    /\ stage = "settling" => call[Before] # NoCall
    /\ stage = "learning" => call[After] # NoCall
    /\ Opened => At(Before, "returned")

Turns == PodsInTurn /\ StatusInTurn /\ CallsInTurn

LEMMA TurnCalls ==
    ASSUME TypeOK
    PROVE  Before \in Call /\ After \in Call /\ Before # After /\ run \in Run /\ run \in Nat
BY RunsInOrder, PodIsPair DEF TypeOK, Before, After, Moment

LEMMA TurnsInit == Init => Turns
<1> SUFFICES ASSUME Init PROVE Turns
  OBVIOUS
<1>1. /\ pod = [p \in Pod |-> "none"] /\ status = [r \in Run |-> "none"] /\ call = [c \in Call |-> NoCall]
      /\ stage = "idle"
  BY DEF Init, LearnerInit
<1>2. TypeOK
  BY TypeInit
<1>3. ~Opened
  BY <1>1 DEF Opened, Active, PodsOf
<1> QED BY <1>1, <1>2, <1>3, TurnCalls DEF Turns, PodsInTurn, StatusInTurn, CallsInTurn, Active, PodsOf

\* The turn stays whose it is as long as kexp, the pods and the status stay.
LEMMA TurnStays ==
    ASSUME TypeOK, Turns, UNCHANGED <<run, stage, status>>,
           \A p \in Pod : \/ pod'[p] = pod[p]
                          \/ pod[p] \in {"pending", "running"} /\ pod'[p] \in {"running", "succeeded"}
    PROVE  /\ PodsInTurn' /\ StatusInTurn' /\ (Opened' <=> Opened)
           /\ Before' = Before /\ After' = After /\ \A c \in Call : Current(c)' <=> Current(c)
<1>1. PodsInTurn'
  BY DEF Turns, PodsInTurn, Active
<1>2. StatusInTurn'
  BY DEF Turns, StatusInTurn, PodsOf
<1>3. Opened' <=> Opened
  <2>1. \A p \in PodsOf(run) : pod[p] \in Active <=> pod'[p] \in Active
    BY DEF PodsOf, Active
  <2> QED BY <2>1 DEF Opened, PodsOf
<1> QED BY <1>1, <1>2, <1>3 DEF Before, After, Current

LEMMA PodsTurn ==
    ASSUME TypeOK, Turns, Pods, UNCHANGED kexp
    PROVE  /\ Turns' /\ UNCHANGED call
           /\ \A p \in Pod : \/ pod'[p] = pod[p]
                             \/ pod[p] \in {"pending", "running"} /\ pod'[p] \in {"running", "succeeded"}
<1>1. UNCHANGED call /\ UNCHANGED <<run, stage, status>>
  BY DEF Pods, Decide, PlaceUnseen, Finish, decider, kexp
<1>2. \A p \in Pod : \/ pod'[p] = pod[p]
                     \/ pod[p] \in {"pending", "running"} /\ pod'[p] \in {"running", "succeeded"}
  BY DEF Pods, Decide, PlaceUnseen, Finish, TypeOK
<1>3. CallsInTurn'
  BY <1>1, <1>2, TurnStays DEF Turns, CallsInTurn, At
<1> QED BY <1>1, <1>2, <1>3, TurnStays DEF Turns

LEMMA SettleTurn ==
    ASSUME TypeOK, Turns, NEW c \in Call, SettleStep(c), UNCHANGED kexp
    PROVE  /\ Turns' /\ (Opened' <=> Opened) /\ (Current(c) \/ call[c].at \in {"waiting", "finishing"})
           /\ \A d \in Call : d # c => call'[d] = call[d]
<1>1. UNCHANGED <<run, stage, status, pod>>
  BY SettleFrame DEF kexp
<1>2. /\ call[c] \in CallState /\ call'[c] \in CallState /\ \A d \in Call : d # c => call'[d] = call[d]
      /\ \/ call[c].at \in {"polling", "reading", "closing"}
         \/ call[c].at \in {"waiting", "finishing"} /\ call'[c].at \in Ending
  BY SettleMoves DEF Ending, TypeOK
<1>3. call[c] # NoCall /\ call'[c] # NoCall
  BY <1>2, AbsenceAssumption
<1>4. \A d \in Call : (call'[d] # NoCall <=> call[d] # NoCall)
  BY <1>2, <1>3
<1>5. \A d \in Call : At(d, "returned") => At(d, "returned")'
  BY <1>2 DEF At
<1>6. c[1] <= run /\ (call[c].at \in Ending \/ Current(c))
  BY <1>3 DEF Turns, CallsInTurn
<1>7. Current(c) \/ call[c].at \in {"waiting", "finishing"}
  BY <1>2, <1>6 DEF Ending
<1>8. CallsInTurn'
  <2>1. \A d \in Call : call'[d] # NoCall => d[1] <= run /\ (call'[d].at \in Ending \/ Current(d))
    BY <1>2, <1>4, <1>6, <1>7 DEF Turns, CallsInTurn
  <2>2. (Opened' <=> Opened) /\ Before' = Before /\ After' = After /\ \A d \in Call : Current(d)' <=> Current(d)
    BY <1>1, TurnStays
  <2> QED BY <1>1, <1>4, <1>5, <2>1, <2>2, TurnCalls DEF Turns, CallsInTurn
<1> QED BY <1>1, <1>2, <1>7, <1>8, TurnStays DEF Turns

LEMMA RestartTurn ==
    ASSUME TypeOK, Turns, Restart, UNCHANGED kexp
    PROVE  Turns' /\ (Opened' <=> Opened)
<1>1. UNCHANGED <<run, stage, status, pod>>
  BY RestartForgets DEF kexp
<1>2. \A d \in Call : /\ call'[d] # NoCall <=> call[d] # NoCall
                      /\ call'[d] # NoCall => call'[d].at \in Ending
                      /\ At(d, "returned") => At(d, "returned")'
  <2> TAKE d \in Call
  <2>1. call[d] # NoCall => call'[d] # NoCall
    <3>1. SUFFICES ASSUME call[d] # NoCall PROVE call'[d] # NoCall
      OBVIOUS
    <3>2. call'[d] = IF call[d].at # "returned" THEN [call[d] EXCEPT !.at = "failed", !.listed = {}] ELSE call[d]
      BY <3>1 DEF Restart
    <3>3. call[d] \in CallState
      BY <3>1, CallType
    <3>4. call'[d] \in CallState
      BY <3>2, <3>3 DEF CallState
    <3> QED BY <3>4, AbsenceAssumption
  <2>2. call'[d] # NoCall => call[d] # NoCall
    BY RestartFails, AbsenceAssumption
  <2> QED BY <2>1, <2>2, RestartFails DEF At, Ending
<1>3. CallsInTurn'
  <2>1. (Opened' <=> Opened) /\ Before' = Before /\ After' = After /\ \A d \in Call : Current(d)' <=> Current(d)
    BY <1>1, TurnStays
  <2> QED BY <1>1, <1>2, <2>1, TurnCalls DEF Turns, CallsInTurn
<1> QED BY <1>1, <1>3, TurnStays DEF Turns

\* A settle call of the run begins: of no other one has anything changed.
LEMMA StartTurn ==
    ASSUME TypeOK, Turns, NEW c \in {Before, After}, SettleStart(c), UNCHANGED run, Current(c)',
           \A d \in Call : d # c => ~Current(d)
    PROVE  /\ \A d \in Call : call'[d] # NoCall => d[1] <= run /\ (call'[d].at \in Ending \/ Current(d)')
           /\ call'[c] # NoCall /\ call[c] = NoCall /\ \A d \in Call : d # c => call'[d] = call[d]
<1>1. c \in Call /\ c[1] <= run
  BY TurnCalls DEF Before, After
<1>2. call'[c] \in CallState /\ call[c] = NoCall /\ call' = [call EXCEPT ![c] = call'[c]]
  BY <1>1, SettleStarts
<1>3. call'[c] # NoCall /\ \A d \in Call : d # c => call'[d] = call[d]
  BY <1>1, <1>2, AbsenceAssumption DEF TypeOK
<1>4. \A d \in Call : d # c /\ call[d] # NoCall => d[1] <= run /\ call[d].at \in Ending
  BY DEF Turns, CallsInTurn
<1> QED BY <1>1, <1>2, <1>3, <1>4

LEMMA KexpTurn == TypeOK /\ Turns /\ Kexp => Turns'
<1> SUFFICES ASSUME TypeOK, Turns, Kexp PROVE Turns'
  OBVIOUS
<1>. Before \in Call /\ After \in Call /\ Before # After /\ run \in Run /\ run \in Nat
  BY TurnCalls
<1>. \A p \in PodsOf(run) : p \in Pod /\ p[1] = run
  BY PodIsPair
<1>1. CASE StartRun
  <2>1. UNCHANGED <<pod, status, run>> /\ stage = "idle" /\ stage' = "settling" /\ SettleStart(Before)
    BY <1>1 DEF StartRun, Before
  <2>2. Before' = Before /\ After' = After /\ Current(Before)' /\ \A d \in Call : ~Current(d)
    BY <2>1 DEF Before, After, Current
  <2>3. /\ \A d \in Call : call'[d] # NoCall => d[1] <= run /\ (call'[d].at \in Ending \/ Current(d)')
        /\ call'[Before] # NoCall /\ call'[After] = NoCall
    BY <2>1, <2>2, StartTurn DEF Turns, CallsInTurn
  <2>4. \A p \in PodsOf(run) : pod[p] = "none"
    BY <2>1 DEF Turns, PodsInTurn
  <2>5. ~Opened'
    BY <2>1, <2>4 DEF Opened, Active, PodsOf
  <2>6. PodsInTurn' /\ StatusInTurn'
    BY <2>1, <2>4 DEF Turns, PodsInTurn, StatusInTurn, Active, PodsOf
  <2> QED BY <2>1, <2>2, <2>3, <2>5, <2>6 DEF Turns, CallsInTurn
<1>2. CASE CreatePods
  <2>1. /\ UNCHANGED <<status, run, call>> /\ stage = "settling" /\ stage' = "running"
        /\ At(Before, "returned")
        /\ pod' = [p \in Pod |-> IF p \in PodsOf(run) THEN "pending" ELSE pod[p]]
    BY <1>2 DEF CreatePods, Before, decider
  <2>2. PodsInTurn'
    BY <2>1 DEF Turns, PodsInTurn, Active, PodsOf
  <2>3. StatusInTurn'
    BY <2>1 DEF Turns, StatusInTurn, PodsOf
  <2>4. \A d \in Call : call[d] # NoCall => d[1] <= run /\ call[d].at \in Ending
    BY <2>1 DEF Turns, CallsInTurn, Current, At, Ending
  <2>5. At(Before, "returned")' /\ Before' = Before /\ After' = After
    BY <2>1 DEF At, Before, After
  <2> QED BY <2>1, <2>2, <2>3, <2>4, <2>5 DEF Turns, CallsInTurn
<1>3. CASE Refuse
  <2>1. /\ UNCHANGED <<pod, run, call>> /\ stage = "settling" /\ stage' = "leaving"
        /\ call[Before].at \in Ending /\ status' = [status EXCEPT ![run] = "aborted"]
    BY <1>3 DEF Refuse, GivesUp, Before, decider, At, Ending
  <2>2. \A p \in PodsOf(run) : pod[p] = "none"
    BY <2>1 DEF Turns, PodsInTurn
  <2>3. ~Opened'
    BY <2>1, <2>2 DEF Opened, Active, PodsOf
  <2>4. PodsInTurn' /\ StatusInTurn'
    BY <2>1, <2>2 DEF Turns, PodsInTurn, StatusInTurn, Active, PodsOf, TypeOK
  <2>5. \A d \in Call : call[d] # NoCall => d[1] <= run /\ call[d].at \in Ending
    BY <2>1 DEF Turns, CallsInTurn, Current
  <2> QED BY <2>1, <2>3, <2>4, <2>5 DEF Turns, CallsInTurn
<1>4. CASE EndPods
  <2>1. /\ UNCHANGED <<pod, run>> /\ stage = "running" /\ stage' = "learning" /\ SettleStart(After)
        /\ status' = [status EXCEPT ![run] =
             IF \A p \in PodsOf(run) : pod[p] = "succeeded" THEN "complete" ELSE "timeout"]
    BY <1>4 DEF EndPods, After
  <2>2. Before' = Before /\ After' = After /\ Current(After)' /\ \A d \in Call : ~Current(d)
    BY <2>1 DEF Before, After, Current
  <2>3. /\ \A d \in Call : call'[d] # NoCall => d[1] <= run /\ (call'[d].at \in Ending \/ Current(d)')
        /\ call'[After] # NoCall /\ call'[Before] = call[Before]
    BY <2>1, <2>2, StartTurn DEF Turns, CallsInTurn
  <2>4. PodsInTurn'
    BY <2>1 DEF Turns, PodsInTurn, Active
  <2>5. \A r \in Run : r > run => status'[r] = "none"
    BY <2>1 DEF Turns, StatusInTurn, TypeOK
  <2>6. status'[run] = "complete" => \A p \in PodsOf(run) : pod[p] = "succeeded"
    BY <2>1 DEF TypeOK
  <2>7. StatusInTurn'
    BY <2>1, <2>5, <2>6 DEF StatusInTurn, PodsOf
  <2>8. At(Before, "returned")'
    BY <2>1, <2>2, <2>3 DEF Turns, CallsInTurn, At, Opened
  <2> QED BY <2>1, <2>2, <2>3, <2>4, <2>7, <2>8 DEF Turns, CallsInTurn
<1>5. CASE Cancel \/ CheckLearned \/ Unsettled
  <2>1. /\ UNCHANGED <<pod, run, call>> /\ stage \in {"running", "learning"} /\ stage' = "leaving"
        /\ stage = "learning" => call[After].at \in Ending
        /\ \/ status' = status /\ stage = "learning"
           \/ \E s \in {"aborted", "unsettled"} : status' = [status EXCEPT ![run] = s]
    BY <1>5 DEF Cancel, CheckLearned, Unsettled, GivesUp, After, decider, At, Ending
  <2>2. PodsInTurn'
    BY <2>1 DEF Turns, PodsInTurn, Active
  <2>3. StatusInTurn'
    BY <2>1 DEF Turns, StatusInTurn, PodsOf, TypeOK
  <2>4. \A d \in Call : call[d] # NoCall => d[1] <= run /\ call[d].at \in Ending
    BY <2>1 DEF Turns, CallsInTurn, Current
  <2>5. At(Before, "returned")'
    BY <2>1 DEF Turns, CallsInTurn, At, Before, Opened
  <2> QED BY <2>1, <2>2, <2>3, <2>4, <2>5 DEF Turns, CallsInTurn
<1>6. CASE Leave
  <2>1. /\ UNCHANGED <<status, call>> /\ stage = "leaving" /\ stage' \in {"over", "idle"}
        /\ pod' = [p \in Pod |-> IF p \in PodsOf(run) THEN "gone" ELSE pod[p]]
        /\ \/ run' = run /\ stage' = "over"
           \/ run' = run + 1 /\ run + 1 \in Run /\ stage' = "idle"
    BY <1>6, RunsInOrder DEF Leave, decider
  <2>2. \A p \in Pod : p[1] \in Nat /\ (pod'[p] \notin Active) /\ (p[1] > run => pod'[p] = "none")
    BY <2>1, PodIsPair, RunsInOrder DEF Turns, PodsInTurn, Active, PodsOf
  <2>3. PodsInTurn'
    BY <2>1, <2>2 DEF PodsInTurn
  <2>4. \A r \in Run : r > run => status[r] = "none"
    BY DEF Turns, StatusInTurn
  <2>5. StatusInTurn'
    <3>1. CASE run' = run /\ stage' = "over"
      BY <2>1, <2>4, <3>1 DEF StatusInTurn, PodsOf
    <3>2. CASE run' = run + 1 /\ run + 1 \in Run /\ stage' = "idle"
      <4>1. status'[run'] = "none" /\ \A r \in Run : r > run + 1 => r > run
        BY <2>1, <2>4, <3>2, RunsInOrder
      <4> QED BY <2>1, <2>4, <3>2, <4>1 DEF StatusInTurn
    <3> QED BY <2>1, <3>1, <3>2
  <2>6. ~Opened'
    BY <2>1, <2>2, PodIsPair DEF Opened, PodsOf
  <2>7. \A d \in Call : call[d] # NoCall => d[1] <= run /\ call[d].at \in Ending
    BY <2>1 DEF Turns, CallsInTurn, Current
  <2>8. \A d \in Call : d[1] \in Nat /\ (call[d] # NoCall => d[1] <= run')
    BY <2>1, <2>7, PodIsPair, RunsInOrder
  <2>9. run' = run + 1 => call[Before'] = NoCall /\ call[After'] = NoCall
    <3>1. run' = run + 1 => Before' \in Call /\ After' \in Call /\ Before'[1] = run + 1 /\ After'[1] = run + 1
      BY <2>1, PodIsPair DEF Before, After, Moment
    <3> QED BY <2>7, <3>1
  <2>10. stage' = "idle" => run' = run + 1
    BY <2>1
  <2> QED BY <2>1, <2>3, <2>5, <2>6, <2>7, <2>8, <2>9, <2>10 DEF Turns, CallsInTurn
<1> QED BY <1>1, <1>2, <1>3, <1>4, <1>5, <1>6 DEF Kexp

LEMMA TurnsNext == TypeOK /\ Turns /\ [Next]_vars => Turns'
<1> SUFFICES ASSUME TypeOK, Turns, [Next]_vars PROVE Turns'
  OBVIOUS
<1>1. ASSUME UNCHANGED <<kexp, pod, call>> PROVE Turns'
  <2>1. UNCHANGED <<run, stage, status>>
    BY <1>1 DEF kexp
  <2> QED BY <1>1, <2>1, TurnStays DEF Turns, CallsInTurn, At
<1>2. Poll \/ ReadPolled => UNCHANGED <<pod, call>>
  BY DEF Poll, ReadPolled
<1>3. (\E k \in DOMAIN updates : Learn(k) \/ HandOver(k) \/ UpdateFails(k)) => UNCHANGED <<pod, call>>
  BY DEF Learn, HandOver, UpdateFails
<1>4. UNCHANGED vars => UNCHANGED <<kexp, pod, call>>
  BY DEF vars, decider
<1> QED BY <1>1, <1>2, <1>3, <1>4, StepCases, KexpTurn, PodsTurn, SettleTurn, RestartTurn

-----------------------------------------------------------------------------
(* The updates, and the episode they come from.                            *)

LEMMA KexpFrame ==
    ASSUME Kexp
    PROVE  UNCHANGED <<started, episode, updates, kept, models, learner, observer, restarts, forgotten>>
BY DEF Kexp, StartRun, CreatePods, Refuse, EndPods, Cancel, CheckLearned, Unsettled, Leave, decider,
       policy

LEMMA KexpOpens ==
    ASSUME TypeOK, Turns, Kexp
    PROVE  /\ Opened' => CreatePods \/ (Opened /\ run' = run)
           /\ Opened' /\ ~CreatePods => Before' = Before /\ call'[Before] = call[Before]
           /\ stage' = "running" => CreatePods
           /\ stage' = "settling" => StartRun
           /\ stage' = "idle" => Leave
           /\ StartRun => Before' = Before
<1>. Before \in Call /\ After \in Call /\ Before # After /\ run \in Run /\ run \in Nat
  BY TurnCalls
<1>0. StartRun => Before' = Before
  BY DEF StartRun, Before
<1>1. CASE StartRun
  <2>1. UNCHANGED <<pod, run>> /\ stage = "idle" /\ stage' = "settling"
    BY <1>1 DEF StartRun
  <2>2. ~Opened'
    BY <2>1, PodIsPair DEF Opened, Turns, PodsInTurn, PodsOf, Active
  <2> QED BY <1>0, <1>1, <2>1, <2>2
<1>2. CASE CreatePods
  <2>1. stage' = "running"
    BY <1>2 DEF CreatePods
  <2> QED BY <1>0, <1>2, <2>1
<1>3. CASE Refuse
  <2>1. UNCHANGED <<pod, run>> /\ stage = "settling" /\ stage' = "leaving"
    BY <1>3 DEF Refuse
  <2>2. ~Opened'
    BY <2>1, PodIsPair DEF Opened, Turns, PodsInTurn, PodsOf, Active
  <2>3. stage' = "leaving"
    BY <2>1
  <2> QED BY <1>0, <2>2, <2>3
<1>4. CASE EndPods
  <2>1. UNCHANGED <<pod, run>> /\ stage = "running" /\ stage' = "learning" /\ SettleStart(After)
    BY <1>4 DEF EndPods, After
  <2>2. call' = [call EXCEPT ![After] = call'[After]]
    BY <2>1, SettleStarts
  <2> QED BY <2>1, <2>2 DEF Opened, Before, TypeOK
<1>5. CASE Cancel \/ CheckLearned \/ Unsettled
  <2>1. UNCHANGED <<pod, run, call>> /\ stage \in {"running", "learning"} /\ stage' = "leaving"
    BY <1>5 DEF Cancel, CheckLearned, Unsettled, decider
  <2> QED BY <2>1 DEF Opened, Before
<1>6. CASE Leave
  <2>1. KexpShape' /\ stage' \in {"over", "idle"}
    BY <1>6, KexpType DEF Leave
  <2>2. Turns'
    BY KexpTurn
  <2>3. ~Opened'
    BY <2>1, <2>2, PodIsPair DEF Opened, Turns, PodsInTurn, PodsOf, KexpShape
  <2>4. stage' = "idle" \/ stage' = "over"
    BY <2>1
  <2> QED BY <1>0, <1>6, <2>3, <2>4
<1> QED BY <1>1, <1>2, <1>3, <1>4, <1>5, <1>6 DEF Kexp

\* A decider that has not decided has nothing, and settle calls have nothing to do.
Unstarted ==
    ~started =>
        /\ episode = {} /\ updates = <<>> /\ trained = <<>> /\ net = <<>> /\ episodes = 0
        /\ ~failure /\ kept = NoKept
        /\ \A c \in Call : call[c] # NoCall => call[c].at \in {"returned", "failed"}

LEMMA UnstartedNext == TypeOK /\ Unstarted /\ [Next]_vars => Unstarted'
<1> SUFFICES ASSUME TypeOK, Unstarted, [Next]_vars, ~started' PROVE Unstarted'
  BY DEF Unstarted
<1>1. CASE Kexp
  <2>1. UNCHANGED <<started, episode, updates, kept, trained, net, episodes, failure>>
    BY <1>1, KexpFrame DEF learner
  <2>2. \A c \in Call : call'[c] # NoCall => call'[c].at \in {"returned", "failed"}
    <3>1. ASSUME NEW c \in Call, SettleStart(c)
          PROVE  \A d \in Call : call'[d] # NoCall => call'[d].at \in {"returned", "failed"}
      <4>1. call'[c].at \in {"returned", "failed"} /\ \A d \in Call : d # c => call'[d] = call[d]
        BY <2>1, <3>1, SettleStarts DEF TypeOK
      <4> QED BY <2>1, <4>1 DEF Unstarted
    <3>2. <<run, "before">> \in Call /\ <<run, "after">> \in Call
      BY TurnCalls DEF Before, After
    <3> QED BY <1>1, <2>1, <3>1, <3>2, KexpCalls DEF Unstarted
  <2> QED BY <2>1, <2>2 DEF Unstarted
<1>2. CASE Pods
  <2>1. \A p \in Pod : ~Decide(p)
    BY DEF Decide
  <2>2. UNCHANGED decider
    BY <1>2, <2>1 DEF Pods, PlaceUnseen, Finish
  <2> QED BY <2>2 DEF decider, learner, policy, Unstarted
<1>3. CASE Poll \/ ReadPolled
  BY <1>3 DEF Poll, ReadPolled, learner, policy, Unstarted
<1>4. ASSUME NEW k \in DOMAIN updates, Learn(k) \/ HandOver(k) \/ UpdateFails(k) PROVE FALSE
  <2>1. UNCHANGED started
    BY <1>4 DEF Learn, HandOver, UpdateFails
  <2>2. updates = <<>>
    BY <2>1 DEF Unstarted
  <2> QED BY <2>2
<1>5. ASSUME NEW c \in Call, SettleStep(c) PROVE FALSE
  <2>1. ~started
    BY <1>5, SettleFrame
  <2>2. call[c] # NoCall /\ call[c].at \notin {"returned", "failed"}
    BY <1>5, SettleMoves, AbsenceAssumption
  <2> QED BY <2>1, <2>2 DEF Unstarted
<1>6. CASE Restart
  BY <1>6, RestartForgets, RestartFails DEF Unstarted
<1>7. CASE UNCHANGED vars
  BY <1>7 DEF vars, decider, learner, policy, Unstarted
<1> QED BY <1>1, <1>2, <1>3, <1>4, <1>5, <1>6, <1>7, StepCases

\* While pods are placed, the episode is of their run; a settle call has left none before.
EpisodeInTurn ==
    /\ Opened => episode \subseteq PodsOf(run)
    /\ stage = "settling" /\ call[Before].at \in {"waiting", "finishing", "returned"} => episode = {}

\* A decision is of a pod of the run under way, and closes no other run's episode.
LEMMA DecideInTurn ==
    ASSUME TypeOK, Turns, EpisodeInTurn, NEW p \in Pod, Decide(p)
    PROVE  /\ p[1] = run /\ Opened /\ stage # "settling" /\ UNCHANGED updates
           /\ episode' = IF run \in Frozen THEN episode ELSE episode \cup {p}
<1>. run \in Run
  BY TurnCalls
<1>1. pod[p] = "pending"
  BY DEF Decide
<1>2. p[1] = run /\ Opened /\ stage # "settling"
  BY <1>1 DEF Turns, PodsInTurn, Opened, PodsOf, Active
<1>3. episode # {} => RunOf(episode) = run /\ run \notin Frozen
  BY <1>2, EpisodeRun DEF EpisodeInTurn
<1> QED BY <1>2, <1>3 DEF Decide

LEMMA EpisodeNext ==
    TypeOK /\ Turns /\ Unstarted /\ EpisodeInTurn /\ [Next]_vars => EpisodeInTurn'
<1> SUFFICES ASSUME TypeOK, Turns, Unstarted, EpisodeInTurn, [Next]_vars PROVE EpisodeInTurn'
  OBVIOUS
<1>. Before \in Call /\ run \in Run
  BY TurnCalls
<1>1. CASE Kexp
  <2>1. episode' = episode
    BY <1>1, KexpFrame
  <2>2. Opened' => episode \subseteq PodsOf(run) /\ run' = run
    <3>1. CreatePods => stage = "settling" /\ At(Before, "returned") /\ run' = run
      BY DEF CreatePods, Before
    <3>2. CreatePods => episode = {}
      BY <3>1 DEF EpisodeInTurn, At
    <3> QED BY <1>1, <3>1, <3>2, KexpOpens DEF EpisodeInTurn
  <2>3. stage' = "settling" /\ call'[Before'].at \in {"waiting", "finishing", "returned"} => episode = {}
    <3>1. SUFFICES ASSUME StartRun, call'[Before].at \in {"waiting", "finishing", "returned"} PROVE episode = {}
      BY <1>1, KexpOpens
    <3>2. SettleStart(Before)
      BY <3>1 DEF StartRun, Before
    <3>3. ~started
      BY <3>1, <3>2, SettleStarts
    <3> QED BY <3>3 DEF Unstarted
  <2> QED BY <2>1, <2>2, <2>3 DEF EpisodeInTurn, PodsOf
<1>2. CASE Pods /\ UNCHANGED kexp
  <2>1. UNCHANGED <<run, stage, status, call>> /\ Before' = Before
    BY <1>2, PodsTurn DEF kexp, Before
  <2>2. Opened' <=> Opened
    BY <1>2, <2>1, PodsTurn, TurnStays
  <2>3. ASSUME NEW p \in Pod, Decide(p) PROVE EpisodeInTurn'
    <3>1. p \in PodsOf(run)
      BY <2>3, DecideInTurn DEF PodsOf
    <3> QED BY <2>1, <2>2, <2>3, <3>1, DecideInTurn DEF EpisodeInTurn, PodsOf
  <2>4. CASE UNCHANGED decider
    BY <2>1, <2>2, <2>4 DEF decider, policy, EpisodeInTurn, PodsOf
  <2> QED BY <1>2, <2>3, <2>4 DEF Pods, PlaceUnseen, Finish
<1>3. ASSUME UNCHANGED <<kexp, pod, call, episode>> PROVE EpisodeInTurn'
  <2>1. UNCHANGED <<run, stage, status>> /\ Before' = Before
    BY <1>3 DEF kexp, Before
  <2> QED BY <1>3, <2>1 DEF EpisodeInTurn, PodsOf, Opened
<1>4. Poll \/ ReadPolled \/ UNCHANGED vars => UNCHANGED <<pod, call, episode>>
  BY DEF Poll, ReadPolled, vars, decider, policy
<1>5. (\E k \in DOMAIN updates : Learn(k) \/ HandOver(k) \/ UpdateFails(k)) => UNCHANGED <<pod, call, episode>>
  BY DEF Learn, HandOver, UpdateFails
<1>6. ASSUME NEW c \in Call, SettleStep(c), UNCHANGED kexp PROVE EpisodeInTurn'
  <2>1. UNCHANGED <<run, stage>> /\ Before' = Before /\ (Opened' <=> Opened)
    BY <1>6, SettleTurn DEF kexp, Before
  <2>2. episode' \in {episode, {}} /\ (SettleClose(c) => episode' = {})
    BY <1>6, SettleFrame
  <2>3. stage = "settling" /\ call'[Before].at \in {"waiting", "finishing", "returned"} => episode' = {}
    <3>1. CASE c = Before /\ ~SettleClose(c)
      BY <1>6, <2>2, <3>1, SettleMoves DEF EpisodeInTurn
    <3>2. CASE c # Before
      BY <1>6, <2>2, <3>2, SettleTurn DEF EpisodeInTurn
    <3> QED BY <2>2, <3>1, <3>2
  <2> QED BY <2>1, <2>2, <2>3 DEF EpisodeInTurn, PodsOf
<1>7. CASE Restart
  BY <1>7, RestartForgets DEF EpisodeInTurn
<1> QED BY <1>1, <1>2, <1>3, <1>4, <1>5, <1>6, <1>7, StepCases DEF vars

\* The learner takes the updates in their order; one that raises is remembered; the network that decides
\* is the learner's own unless an update is being handed over.
Ordered ==
    \A j, k \in DOMAIN updates :
        j < k /\ updates[j].status \notin {"done", "failed"} => updates[k].status = "queued"

FailureSeen == \A k \in DOMAIN updates : updates[k].status = "failed" => failure

NetFollows == failure \/ net = trained \/ \E k \in DOMAIN updates : updates[k].status = "learned"

Learned == Ordered /\ FailureSeen /\ NetFollows

LEMMA LearnedStays ==
    ASSUME TypeOK, Learned, UNCHANGED <<failure, net, trained>>, updates' \in Seq(Update),
           \/ updates' = updates
           \/ episode # {} /\ updates' = Closed
    PROVE  Learned'
<1>1. CASE updates' = updates
  BY <1>1 DEF Learned, Ordered, FailureSeen, NetFollows
<1>2. CASE episode # {} /\ updates' = Closed
  <2>1. /\ Len(updates) \in Nat /\ DOMAIN updates = 1 .. Len(updates)
        /\ DOMAIN updates' = 1 .. (Len(updates) + 1)
        /\ \A k \in DOMAIN updates : updates'[k] = updates[k]
        /\ updates'[Len(updates) + 1].status = "queued"
    BY SMTT(20), <1>2, ClosedUpdates DEF TypeOK
  <2>2. Ordered'
    BY <2>1 DEF Learned, Ordered
  <2>3. FailureSeen'
    BY <2>1 DEF Learned, FailureSeen
  <2>4. NetFollows'
    BY <2>1 DEF Learned, NetFollows
  <2> QED BY <2>2, <2>3, <2>4 DEF Learned
<1> QED BY <1>1, <1>2

LEMMA LearnedAdvances ==
    ASSUME TypeOK, Learned, NEW k \in DOMAIN updates, Learn(k) \/ HandOver(k) \/ UpdateFails(k)
    PROVE  Learned'
<1>1. PICK s \in {"learned", "done", "failed"} :
        /\ Turn(k, "queued") \/ Turn(k, "learned")
        /\ Advance(k, s)
        /\ s = "failed" => failure' 
        /\ s # "failed" => failure' = failure
        /\ s = "done" => net' = trained /\ trained' = trained
        /\ s = "failed" => UNCHANGED <<net, trained>>
        /\ s = "learned" => net' = net
  BY DEF Learn, HandOver, UpdateFails
<1>2. /\ DOMAIN updates' = DOMAIN updates /\ updates'[k].status = s
      /\ \A j \in DOMAIN updates : j # k => updates'[j] = updates[j]
  BY <1>1, AdvanceType DEF Advance
<1>3. /\ DOMAIN updates = 1 .. Len(updates) /\ Len(updates) \in Nat
      /\ \A j \in DOMAIN updates : j < k => updates[j].status \in {"done", "failed"}
      /\ updates[k].status \notin {"done", "failed"}
  BY <1>1 DEF Turn, TypeOK
<1>4. Ordered'
  BY <1>2, <1>3 DEF Learned, Ordered
<1>5. FailureSeen'
  BY <1>1, <1>2 DEF Learned, FailureSeen
<1>6. NetFollows'
  <2>1. CASE s = "learned"
    BY <1>2, <2>1 DEF NetFollows
  <2>2. CASE s # "learned"
    BY <1>1, <2>2 DEF NetFollows
  <2> QED BY <2>1, <2>2
<1> QED BY <1>4, <1>5, <1>6 DEF Learned

LEMMA LearnedNext ==
    TypeOK /\ Turns /\ EpisodeInTurn /\ Learned /\ [Next]_vars => Learned'
<1> SUFFICES ASSUME TypeOK, Turns, EpisodeInTurn, Learned, [Next]_vars PROVE Learned'
  OBVIOUS
<1>0. updates' \in Seq(Update)
  BY TypeNext DEF TypeOK, Update
<1>1. Kexp => UNCHANGED <<failure, net, trained, updates>>
  BY KexpFrame DEF learner
<1>2. Pods => UNCHANGED <<failure, net, trained, updates>>
  BY DecideInTurn DEF Pods, Decide, PlaceUnseen, Finish, decider, learner, policy
<1>3. Poll \/ ReadPolled \/ UNCHANGED vars => UNCHANGED <<failure, net, trained, updates>>
  BY DEF Poll, ReadPolled, vars, decider, policy, learner
<1>4. ASSUME NEW c \in Call, SettleStep(c)
      PROVE  UNCHANGED <<failure, net, trained>> /\ (updates' = updates \/ (episode # {} /\ updates' = Closed))
  BY <1>4, SettleFrame DEF learner
<1>5. CASE Restart
  BY <1>5, RestartForgets DEF Learned, Ordered, FailureSeen, NetFollows
<1> QED BY <1>0, <1>1, <1>2, <1>3, <1>4, <1>5, LearnedStays, LearnedAdvances, StepCases

AllDone == \A k \in DOMAIN updates : updates[k].status = "done"

\* Every update is over when a run's pods are created, and stays so until its own settle, or all through
\* a frozen run.
Quiet ==
    /\ stage = "settling" /\ call[Before].at = "waiting" => call[Before].update = Len(updates)
    /\ stage = "settling" /\ call[Before].at \in {"finishing", "returned"} => AllDone /\ ~failure
    /\ Opened /\ (stage = "running" \/ run \in Frozen) => AllDone /\ ~failure

\* A settle call that goes on from its wait has seen every update done.
LEMMA WaitOver ==
    ASSUME TypeOK, Learned, NEW c \in Call, SettleWait(c), ~failure, call[c].update = Len(updates)
    PROVE  AllDone
<1>1. Len(updates) \in Nat /\ DOMAIN updates = 1 .. Len(updates) /\ updates \in Seq(Update)
  BY DEF TypeOK, Update
<1>2. Len(updates) # 0 => updates[Len(updates)].status \in {"done", "failed"}
  BY DEF SettleWait
<1>3. ASSUME NEW k \in DOMAIN updates PROVE updates[k].status = "done"
  <2>1. updates[k].status \in {"done", "failed"}
    <3>1. CASE k = Len(updates)
      BY <1>1, <1>2, <3>1
    <3>2. CASE k < Len(updates)
      <4>1. Len(updates) \in DOMAIN updates
        BY <1>1
      <4> QED BY <1>1, <1>2, <3>2, <4>1 DEF Learned, Ordered
    <3> QED BY <1>1, <3>1, <3>2
  <2> QED BY <2>1 DEF Learned, FailureSeen
<1> QED BY <1>3 DEF AllDone

\* The learner has nothing to do then.
LEMMA AllDoneRests ==
    ASSUME AllDone, NEW k \in DOMAIN updates, Learn(k) \/ HandOver(k) \/ UpdateFails(k)
    PROVE  FALSE
BY DEF AllDone, Learn, HandOver, UpdateFails, Turn

LEMMA QuietNext ==
    TypeOK /\ Turns /\ Unstarted /\ EpisodeInTurn /\ Learned /\ Quiet /\ [Next]_vars => Quiet'
<1> SUFFICES ASSUME TypeOK, Turns, Unstarted, EpisodeInTurn, Learned, Quiet, [Next]_vars PROVE Quiet'
  OBVIOUS
<1>. Before \in Call /\ After \in Call /\ Before # After /\ run \in Run
  BY TurnCalls
<1>1. CASE Kexp
  <2>1. UNCHANGED <<updates, failure>> /\ (AllDone' <=> AllDone)
    BY <1>1, KexpFrame DEF learner, AllDone
  <2>2. stage' = "settling" => StartRun /\ SettleStart(Before) /\ Before' = Before
    BY <1>1, KexpOpens DEF StartRun, Before
  <2>3. stage' = "settling" => /\ call'[Before'].at \in {"polling", "returned", "failed"}
                               /\ call'[Before'].at = "returned" => ~started
    BY <2>2, SettleStarts DEF TypeOK
  <2>4. ~started => AllDone /\ ~failure
    BY DEF Unstarted, AllDone
  <2>5. Opened' /\ (stage' = "running" \/ run' \in Frozen) => AllDone /\ ~failure
    <3>1. CreatePods => stage = "settling" /\ call[Before].at = "returned"
      BY DEF CreatePods, Before, At
    <3> QED BY <1>1, <3>1, KexpOpens DEF Quiet
  <2> QED BY <2>1, <2>3, <2>4, <2>5 DEF Quiet
<1>2. CASE Pods /\ UNCHANGED kexp
  <2>1. UNCHANGED <<run, stage, status, call>> /\ Before' = Before
    BY <1>2, PodsTurn DEF kexp, Before
  <2>2. Opened' <=> Opened
    BY <1>2, <2>1, PodsTurn, TurnStays
  <2>3. UNCHANGED <<updates, failure>>
    BY <1>2, DecideInTurn DEF Pods, Decide, PlaceUnseen, Finish, decider, learner, policy
  <2> QED BY <2>1, <2>2, <2>3 DEF Quiet, AllDone
<1>3. ASSUME UNCHANGED <<kexp, pod, call, updates, failure>> PROVE Quiet'
  <2>1. UNCHANGED <<run, stage>> /\ Before' = Before
    BY <1>3 DEF kexp, Before
  <2> QED BY <1>3, <2>1 DEF Quiet, AllDone, PodsOf, Opened
<1>4. Poll \/ ReadPolled \/ UNCHANGED vars => UNCHANGED <<pod, call, updates, failure>>
  BY DEF Poll, ReadPolled, vars, decider, policy, learner
<1>5. ASSUME NEW k \in DOMAIN updates, Learn(k) \/ HandOver(k) \/ UpdateFails(k), UNCHANGED kexp PROVE Quiet'
  <2>1. UNCHANGED <<pod, call>> /\ Len(updates') = Len(updates) /\ UNCHANGED <<run, stage>> /\ Before' = Before
    BY <1>5, LearnerType DEF Learn, HandOver, UpdateFails, kexp, Before
  <2>2. ~AllDone
    BY <1>5, AllDoneRests
  <2> QED BY <2>1, <2>2 DEF Quiet, Opened, PodsOf
<1>6. ASSUME NEW c \in Call, SettleStep(c), UNCHANGED kexp PROVE Quiet'
  <2>1. UNCHANGED <<run, stage, failure>> /\ Before' = Before /\ (Opened' <=> Opened)
    BY <1>6, SettleTurn, SettleFrame DEF kexp, Before, learner
  <2>2. Opened /\ (stage = "running" \/ run \in Frozen) => UNCHANGED updates
    <3>1. ASSUME SettleClose(c), Opened, stage = "running" \/ run \in Frozen PROVE episode = {}
      <4>1. Current(c)
        BY <1>6, <3>1, SettleTurn DEF SettleClose, At
      <4>2. stage # "running"
        BY <4>1 DEF Current
      <4>3. episode # {} => run \notin Frozen
        BY <3>1, EpisodeRun DEF EpisodeInTurn
      <4> QED BY <3>1, <4>2, <4>3
    <3> QED BY <1>6, <3>1, SettleFrame
  <2>3. CASE c = Before /\ stage = "settling"
    <3>1. CASE SettleClose(c)
      <4>1. call[c].at = "closing"
        BY <3>1 DEF SettleClose, At
      <4>2. call'[c].at = "waiting" /\ call'[c].update = Len(updates')
        BY <1>6, <4>1, SettleMoves
      <4> QED BY <2>1, <2>2, <2>3, <4>2 DEF Quiet, AllDone
    <3>2. CASE ~SettleClose(c)
      <4>1. UNCHANGED updates
        BY <1>6, <3>2, SettleFrame
      <4>2. call'[c].at # "waiting"
        BY <1>6, <3>2, SettleMoves
      <4>3. call'[c].at \in {"finishing", "returned"} => AllDone /\ ~failure
        BY <1>6, <2>3, <4>1, SettleMoves, WaitOver DEF Quiet
      <4> QED BY <2>1, <2>2, <2>3, <4>1, <4>2, <4>3 DEF Quiet, AllDone
    <3> QED BY <3>1, <3>2
  <2>4. CASE ~(c = Before /\ stage = "settling")
    <3>1. stage = "settling" => UNCHANGED updates /\ call'[Before] = call[Before]
      <4>1. stage = "settling" /\ c # Before => ~SettleClose(c)
        BY <1>6, SettleTurn DEF SettleClose, At, Current
      <4> QED BY <1>6, <2>4, <4>1, SettleTurn, SettleFrame
    <3> QED BY <2>1, <2>2, <3>1 DEF Quiet, AllDone
  <2> QED BY <2>3, <2>4
<1>7. CASE Restart /\ UNCHANGED kexp
  <2>1. AllDone' /\ ~failure'
    BY <1>7, RestartForgets DEF AllDone
  <2>2. stage' = "settling" => call'[Before'].at # "waiting"
    <3>1. UNCHANGED <<run, stage>> /\ Before' = Before
      BY <1>7 DEF kexp, Before
    <3>2. stage' = "settling" => call'[Before] # NoCall
      BY <1>7, <3>1, RestartTurn DEF Turns, CallsInTurn
    <3> QED BY <1>7, <3>1, <3>2, RestartFails
  <2> QED BY <2>1, <2>2 DEF Quiet
<1> QED BY <1>1, <1>2, <1>3, <1>4, <1>5, <1>6, <1>7, StepCases DEF vars

\* What holds of every campaign.
Core == TypeOK /\ Turns /\ Unstarted /\ EpisodeInTurn /\ Learned /\ Quiet

LEMMA CoreInvariant == Spec => []Core
<1>1. Init => Core
  <2> SUFFICES ASSUME Init PROVE Core
    OBVIOUS
  <2>1. TypeOK /\ Turns
    BY TypeInit, TurnsInit
  <2>2. /\ updates = <<>> /\ episode = {} /\ ~failure /\ net = trained /\ stage = "idle"
        /\ pod = [p \in Pod |-> "none"]
    BY DEF Init, LearnerInit
  <2>3. ~Opened
    BY <2>2 DEF Opened, PodsOf, Active
  <2>4. Unstarted
    BY DEF Init, LearnerInit, Unstarted
  <2> QED BY <2>1, <2>2, <2>3, <2>4 DEF Core, EpisodeInTurn, Learned, Ordered, FailureSeen, NetFollows, Quiet
<1>2. Core /\ [Next]_vars => Core'
  BY TypeNext, TurnsNext, UnstartedNext, EpisodeNext, LearnedNext, QuietNext DEF Core
<1> QED BY <1>1, <1>2, PTL DEF Spec

-----------------------------------------------------------------------------
(* The networks that decide in a frozen run.                               *)

OneModel(r) == \A m, n \in models[r] : m = n

\* The count of updates that the settle before the run has told.
Told == call[Before].episodes

\* From that settle on no update moves the count: only a restart does, which forgets them all. As long as
\* the count is the one told, every decision of a frozen run was the present network's; the settle
\* after the run, and kexp's check, compare counts.
Window ==
    /\ episodes = 0 => net = <<>>
    /\ \A r \in Run : r > run \/ (r = run /\ stage \in {"idle", "settling"}) => models[r] = {}
    /\ stage \in {"running", "learning"} => before = Told
    /\ (stage = "settling" /\ At(Before, "returned")) \/ (Opened /\ (stage = "running" \/ run \in Frozen)) =>
           episodes \in {Told, 0} /\ (restarts = 0 => episodes = Told)
    /\ Opened /\ run \in Frozen /\ episodes = Told => models[run] \subseteq {net}
    /\ stage = "learning" /\ run \in Frozen /\ status[run] = "complete" /\ At(After, "returned")
           /\ call[After].episodes = Told => OneModel(run)
    /\ \A r \in Frozen : restarts = 0 \/ Accepted(r) => OneModel(r)

LEMMA WindowKexp == Core /\ Window /\ Kexp => Window'
<1> SUFFICES ASSUME Core, Window, Kexp PROVE Window'
  OBVIOUS
<1>. Before \in Call /\ After \in Call /\ Before # After /\ run \in Run /\ run \in Nat /\ TypeOK /\ Turns
  BY TurnCalls DEF Core
<1>0. UNCHANGED <<episodes, net, models, restarts>> /\ \A r \in Run : OneModel(r)' <=> OneModel(r)
  BY KexpFrame DEF learner, OneModel
<1>. Frozen \subseteq Run /\ \A r \in Run : r \in Nat
  BY LearnerAssumption, RunsInOrder
<1>1. CASE StartRun
  <2>1. /\ UNCHANGED <<run, status>> /\ stage = "idle" /\ stage' = "settling" /\ SettleStart(Before)
        /\ Before' = Before
    BY <1>1 DEF StartRun, Before
  <2>2. call'[Before].episodes = episodes
    BY <2>1, SettleStarts
  <2>3. ~Opened'
    BY <1>1, <2>1, KexpOpens DEF Opened, CreatePods, Turns, PodsInTurn, PodsOf, Active
  <2>4. \A r \in Frozen : Accepted(r)' <=> Accepted(r)
    BY <2>1 DEF Accepted
  <2> QED BY <1>0, <2>1, <2>2, <2>3, <2>4 DEF Window, Told
<1>2. CASE CreatePods
  <2>1. /\ UNCHANGED <<run, status, call>> /\ stage = "settling" /\ stage' = "running"
        /\ At(Before, "returned") /\ before' = Told
        /\ Before' = Before
    BY <1>2 DEF CreatePods, Before, Told, decider
  <2>2. \A r \in Frozen : Accepted(r)' <=> Accepted(r)
    BY <2>1 DEF Accepted
  <2>3. Told' = Told /\ models[run] = {}
    BY <2>1 DEF Told, Window
  <2> QED BY <1>0, <2>1, <2>2, <2>3 DEF Window
<1>3. CASE Refuse
  <2>1. /\ UNCHANGED run /\ stage = "settling" /\ stage' = "leaving" /\ status' = [status EXCEPT ![run] = "aborted"]
    BY <1>3 DEF Refuse
  <2>2. ~Opened'
    BY <1>3, <2>1, KexpOpens DEF Opened, CreatePods, Turns, PodsInTurn, PodsOf, Active
  <2>3. \A r \in Frozen : Accepted(r)' => Accepted(r)
    <3>1. /\ status'[run] = "aborted" /\ \A r \in Run : r # run => status'[r] = status[r]
          /\ \A r \in Run : r > run => status[r] # "complete"
      BY <2>1 DEF TypeOK, Turns, StatusInTurn
    <3> QED BY <2>1, <3>1 DEF Accepted
  <2> QED BY <1>0, <2>1, <2>2, <2>3 DEF Window
<1>4. CASE EndPods
  <2>1. /\ UNCHANGED <<run, before>> /\ stage = "running" /\ stage' = "learning" /\ SettleStart(After)
        /\ \A r \in Run : r # run => status'[r] = status[r]
    BY <1>4 DEF EndPods, After, TypeOK
  <2>2. Before' = Before /\ After' = After /\ call'[Before] = call[Before] /\ call'[After].episodes = episodes
    BY <2>1, SettleStarts DEF Before, After, TypeOK
  <2>3. Told' = Told /\ Opened
    BY <2>1, <2>2 DEF Told, Opened
  <2>4. \A r \in Frozen : Accepted(r)' => Accepted(r)
    BY <2>1 DEF Accepted
  <2>5. episodes = Told /\ run \in Frozen => OneModel(run)
    BY <2>3 DEF Window, OneModel
  <2> QED BY <1>0, <2>1, <2>2, <2>3, <2>4, <2>5 DEF Window
<1>5. CASE Cancel \/ CheckLearned \/ Unsettled
  <2>1. /\ UNCHANGED <<run, call>> /\ stage \in {"running", "learning"} /\ stage' = "leaving" /\ Before' = Before
        /\ \A r \in Run : r # run => status'[r] = status[r]
    BY <1>5 DEF Cancel, CheckLearned, Unsettled, Before, decider, TypeOK
  <2>2. Told' = Told /\ Opened
    BY <2>1 DEF Told, Opened
  <2>3. run \in Frozen /\ status'[run] = "complete" => OneModel(run)
    <3>1. SUFFICES ASSUME run \in Frozen, status'[run] = "complete" PROVE OneModel(run)
      OBVIOUS
    <3>2. CheckLearned
      BY <1>5, <3>1 DEF Cancel, Unsettled, TypeOK
    <3>3. At(After, "returned") /\ stage = "learning" /\ status[run] = "complete" /\ call[After].episodes = Expected
      BY <3>1, <3>2 DEF CheckLearned, After, TypeOK
    <3>4. Told \in Nat
      <4>1. call[Before] \in CallState
        BY <2>2, CallType DEF Turns, CallsInTurn, At
      <4> QED BY <4>1 DEF Told, CallState
    <3>5. Expected = Told
      BY <3>1, <3>3, <3>4 DEF Expected, Window
    <3> QED BY <3>1, <3>3, <3>5 DEF Window
  <2>4. ASSUME NEW r \in Frozen, restarts = 0 \/ Accepted(r)' PROVE OneModel(r)
    <3>1. CASE r = run
      BY <2>1, <2>3, <2>4, <3>1 DEF Window, Accepted
    <3>2. CASE r # run
      BY <2>1, <2>4, <3>2 DEF Window, Accepted, Turns, StatusInTurn
    <3> QED BY <3>1, <3>2
  <2>5. Opened' => Opened
    BY <2>2
  <2> QED BY <1>0, <2>1, <2>2, <2>4 DEF Window
<1>6. CASE Leave
  <2>1. /\ UNCHANGED status /\ stage = "leaving" /\ stage' \in {"idle", "over"} /\ run' \in {run, run + 1}
        /\ run' = run => stage' = "over"
    BY <1>6 DEF Leave
  <2>2. ~Opened'
    BY <1>6, <2>1, KexpOpens, KexpTurn, KexpType, PodIsPair DEF Opened, Turns, PodsInTurn, PodsOf, Active, KexpShape
  <2>3. \A r \in Frozen : Accepted(r)' => Accepted(r)
    BY <2>1 DEF Accepted, Turns, StatusInTurn
  <2>4. \A r \in Run : r > run' \/ (r = run' /\ stage' = "idle") => models[r] = {}
    BY <2>1 DEF Window
  <2> QED BY <1>0, <2>1, <2>2, <2>3, <2>4 DEF Window
<1> QED BY <1>1, <1>2, <1>3, <1>4, <1>5, <1>6 DEF Kexp

LEMMA WindowPods == Core /\ Window /\ Pods /\ UNCHANGED kexp => Window'
<1> SUFFICES ASSUME Core, Window, Pods, UNCHANGED kexp PROVE Window'
  OBVIOUS
<1>. Before \in Call /\ After \in Call /\ Before # After /\ run \in Run /\ run \in Nat /\ TypeOK /\ Turns
  BY TurnCalls DEF Core
<1>. Frozen \subseteq Run /\ \A r \in Run : r \in Nat
  BY LearnerAssumption, RunsInOrder
<1>1. /\ UNCHANGED <<run, stage, status, before, call>> /\ Before' = Before /\ After' = After
  BY PodsTurn DEF kexp, Before, After
<1>2. Opened' <=> Opened
  BY <1>1, PodsTurn, TurnStays
<1>3. UNCHANGED <<episodes, net, restarts>>
  BY DEF Pods, Decide, PlaceUnseen, Finish, decider, learner
<1>4. \A r \in Frozen : Accepted(r)' <=> Accepted(r)
  BY <1>1 DEF Accepted
<1>5. CASE UNCHANGED models
  BY <1>1, <1>2, <1>3, <1>4, <1>5 DEF Window, Told, OneModel, At
<1>6. ASSUME NEW p \in Pod, Decide(p) PROVE Window'
  <2>1. p[1] = run /\ Opened /\ pod[p] = "pending" /\ p \in PodsOf(run)
    BY <1>6, DecideInTurn DEF Decide, Core, PodsOf
  <2>2. /\ stage \notin {"idle", "settling"} /\ status[run] # "complete"
    BY <2>1 DEF Turns, PodsInTurn, StatusInTurn, Active
  <2>3. \A r \in Run : r # run => models'[r] = models[r]
    BY <1>6, <2>1 DEF Decide, TypeOK
  <2>4. run \in Frozen => models'[run] = models[run] \cup {net}
    BY <1>6, <2>1 DEF Decide, TypeOK
  <2>5. run \in Frozen /\ episodes = Told => models'[run] \subseteq {net}
    BY <2>1, <2>4 DEF Window
  <2>6. run \in Frozen /\ restarts = 0 => episodes = Told
    BY <2>1 DEF Window
  <2>7. ASSUME NEW r \in Frozen, restarts = 0 \/ Accepted(r) PROVE OneModel(r)'
    <3>1. CASE r = run
      <4>1. restarts = 0
        BY <2>2, <2>7, <3>1 DEF Accepted
      <4> QED BY <2>5, <2>6, <3>1, <4>1 DEF OneModel
    <3>2. CASE r # run
      BY <2>3, <2>7, <3>2 DEF Window, OneModel
    <3> QED BY <3>1, <3>2
  <2>8. \A r \in Run : r > run => models'[r] = {}
    BY <2>3 DEF Window
  <2> QED BY <1>1, <1>2, <1>3, <1>4, <2>2, <2>5, <2>7, <2>8 DEF Window, Told, At
<1> QED BY <1>5, <1>6 DEF Pods, PlaceUnseen, Finish, decider, policy

LEMMA WindowDecider ==
    ASSUME Core, Window, UNCHANGED kexp,
           \/ Poll \/ ReadPolled \/ UNCHANGED vars
           \/ \E k \in DOMAIN updates : Learn(k) \/ HandOver(k) \/ UpdateFails(k)
    PROVE  Window'
<1>. Before \in Call /\ After \in Call /\ TypeOK /\ Turns
  BY TurnCalls DEF Core
<1>1. UNCHANGED <<run, stage, status, before>> /\ Before' = Before /\ After' = After
  BY DEF kexp, Before, After
<1>2. UNCHANGED <<pod, call, models, restarts>>
  BY DEF Poll, ReadPolled, vars, decider, policy, Learn, HandOver, UpdateFails
<1>3. CASE UNCHANGED <<episodes, net>>
  BY <1>1, <1>2, <1>3 DEF Window, Told, OneModel, At, Opened, PodsOf, Accepted
<1>4. ASSUME NEW k \in DOMAIN updates, HandOver(k) PROVE Window'
  <2>1. ~AllDone
    BY <1>4, AllDoneRests
  <2>2. ~(stage = "settling" /\ At(Before, "returned")) /\ ~(Opened /\ (stage = "running" \/ run \in Frozen))
    BY <2>1 DEF Core, Quiet, At
  <2>3. episodes' # 0
    BY <1>4 DEF HandOver, TypeOK
  <2> QED BY <1>1, <1>2, <2>2, <2>3 DEF Window, Told, OneModel, At, Opened, PodsOf, Accepted
<1> QED BY <1>3, <1>4 DEF Poll, ReadPolled, vars, decider, learner, Learn, UpdateFails

LEMMA WindowSettle ==
    ASSUME Core, Window, UNCHANGED kexp, NEW c \in Call, SettleStep(c)
    PROVE  Window'
<1>. Before \in Call /\ After \in Call /\ Before # After /\ TypeOK /\ Turns
  BY TurnCalls DEF Core
<1>1. UNCHANGED <<run, stage, status, before>> /\ Before' = Before /\ After' = After
  BY DEF kexp, Before, After
<1>2. UNCHANGED <<pod, models, restarts, episodes, net>> /\ (Opened' <=> Opened)
  BY SettleFrame, SettleTurn DEF learner
<1>3. \A d \in Call : d # c => call'[d] = call[d]
  BY SettleTurn
<1>4. Opened => c # Before
  BY SettleMoves DEF Turns, CallsInTurn, At
<1>5. Opened => Told' = Told
  BY <1>1, <1>3, <1>4 DEF Told
<1>6. call'[c].at = "returned" => call'[c].episodes = episodes
  BY SettleMoves
<1>7. \A r \in Frozen : (OneModel(r)' <=> OneModel(r)) /\ (Accepted(r)' <=> Accepted(r))
  BY <1>1, <1>2 DEF OneModel, Accepted
<1>8. stage \in {"running", "learning"} => Opened
  BY DEF Opened
<1>9. (stage = "settling" /\ At(Before, "returned")') \/ (Opened /\ (stage = "running" \/ run \in Frozen)) =>
          episodes \in {Told', 0} /\ (restarts = 0 => episodes = Told')
  <2>1. CASE Opened
    BY <1>5, <2>1, <1>1, <1>3, <1>4 DEF Window, At
  <2>2. CASE c = Before
    BY <1>1, <1>4, <1>6, <2>2 DEF Told, At
  <2>3. CASE c # Before
    BY <1>1, <1>3, <2>3 DEF Window, Told, At
  <2> QED BY <2>1, <2>2, <2>3
<1>10. stage = "learning" /\ run \in Frozen /\ status[run] = "complete" /\ At(After, "returned")'
           /\ call'[After].episodes = Told' => OneModel(run)
  <2>1. SUFFICES ASSUME stage = "learning", run \in Frozen, status[run] = "complete", At(After, "returned")',
                        call'[After].episodes = Told'
                 PROVE  OneModel(run)
    OBVIOUS
  <2>2. Opened /\ Told' = Told
    BY <1>5, <1>8, <2>1
  <2>3. CASE c = After
    BY <1>1, <1>6, <2>1, <2>2, <2>3 DEF Window, OneModel, At
  <2>4. CASE c # After
    BY <1>1, <1>3, <2>1, <2>2, <2>4 DEF Window, At
  <2> QED BY <2>3, <2>4
<1> QED BY <1>1, <1>2, <1>5, <1>7, <1>8, <1>9, <1>10 DEF Window, OneModel

LEMMA WindowRestart ==
    ASSUME Core, Window, UNCHANGED kexp, Restart
    PROVE  Window'
<1>. Before \in Call /\ After \in Call /\ Before # After /\ TypeOK /\ Turns
  BY TurnCalls DEF Core
<1>1. UNCHANGED <<run, stage, status, before>> /\ Before' = Before /\ After' = After
  BY DEF kexp, Before, After
<1>2. UNCHANGED <<pod, models>> /\ episodes' = 0 /\ net' = <<>> /\ restarts' # 0 /\ (Opened' <=> Opened) /\ Turns'
  BY RestartForgets, RestartTurn DEF TypeOK
<1>3. ASSUME NEW c \in Call, At(c, "returned")'
      PROVE  At(c, "returned") /\ call'[c].episodes = call[c].episodes
  <2>1. /\ call[c] \in CallState /\ call'[c].at = IF call[c].at = "returned" THEN "returned" ELSE "failed"
        /\ call'[c].episodes = call[c].episodes
    BY <1>3, RestartFails DEF At
  <2> QED BY <1>3, <2>1, AbsenceAssumption DEF At
<1>4. Opened => At(Before, "returned")' /\ Told' = Told
  BY <1>1, <1>2, <1>3 DEF Turns, CallsInTurn, Told
<1>5. \A r \in Frozen : (OneModel(r)' <=> OneModel(r)) /\ (Accepted(r)' <=> Accepted(r))
  BY <1>1, <1>2 DEF OneModel, Accepted
<1>6. Opened /\ run \in Frozen /\ 0 = Told => models[run] \subseteq {<<>>}
  BY DEF Window
<1>7. stage \in {"running", "learning"} => Opened
  BY DEF Opened
<1>8. stage = "learning" /\ run \in Frozen /\ status[run] = "complete" /\ At(After, "returned")'
           /\ call'[After].episodes = Told' => OneModel(run)
  <2> SUFFICES ASSUME stage = "learning", run \in Frozen, status[run] = "complete", At(After, "returned")',
                      call'[After].episodes = Told'
               PROVE  OneModel(run)
    OBVIOUS
  <2>1. At(After, "returned") /\ call'[After].episodes = call[After].episodes
    BY <1>1, <1>3 DEF At
  <2>2. Opened /\ Told' = Told
    BY <1>4, <1>7
  <2> QED BY <2>1, <2>2 DEF Window
<1> QED BY <1>1, <1>2, <1>4, <1>5, <1>6, <1>7, <1>8 DEF Window, OneModel

LEMMA WindowInvariant == Spec => []Window
<1>1. Init => Window
  <2> SUFFICES ASSUME Init PROVE Window
    OBVIOUS
  <2>1. /\ net = <<>> /\ models = [r \in Run |-> {}] /\ stage = "idle" /\ pod = [p \in Pod |-> "none"]
    BY DEF Init, LearnerInit
  <2>2. ~Opened
    BY <2>1 DEF Opened, PodsOf, Active
  <2> QED BY <2>1, <2>2, LearnerAssumption DEF Window, OneModel
<1>2. Core /\ Window /\ [Next]_vars => Window'
  <2>1. UNCHANGED vars => UNCHANGED kexp
    BY DEF vars
  <2> QED BY <2>1, StepCases, WindowKexp, WindowPods, WindowDecider, WindowSettle, WindowRestart
<1> QED BY <1>1, <1>2, CoreInvariant, PTL DEF Spec

\* kaptain.py 645-648: every decision of a frozen run was made by one network; if the decider restarts,
\* every decision of a frozen run that counts.
THEOREM FrozenRunsOneModel == Spec => []FrozenRunOneModel
<1>1. TypeOK /\ Window => FrozenRunOneModel
  <2> SUFFICES ASSUME Window, NEW r \in Frozen, restarts = 0 \/ Accepted(r) PROVE Cardinality(models[r]) <= 1
    BY DEF FrozenRunOneModel
  <2>1. \A m, n \in models[r] : m = n
    BY DEF Window, OneModel
  <2>2. CASE models[r] = {}
    BY <2>2, FS_EmptySet
  <2>3. CASE models[r] # {}
    <3>1. PICK m : models[r] = {m}
      BY <2>1, <2>3
    <3>2. Cardinality({m}) = 1
      BY FS_Singleton
    <3> QED BY <3>1, <3>2
  <2> QED BY <2>2, <2>3
<1> QED BY <1>1, TypeCorrect, WindowInvariant, PTL

-----------------------------------------------------------------------------
(* What the network has learned from, and what a restart lost.             *)

\* The network that decides has learned from r, or had when a restart lost it.
Heard(r) == r \in LearnedFrom \cup forgotten

\* Of whom the network that decides has learned, the learner's own has; while kexp settles after a training,
\* the learner takes no other run's updates. More updates counted than before the training, or the count
\* that kexp compares with it, come from an update of the training: a restart only lowers them.
Hearing ==
    /\ \A k \in DOMAIN net : \E j \in DOMAIN trained : trained[j] = net[k]
    /\ \A k \in DOMAIN updates :
          updates[k].status = "learned" => \E j \in DOMAIN trained : trained[j] = updates[k].run
    /\ stage = "learning" /\ run \notin Frozen =>
          \A k \in DOMAIN updates : updates[k].status \in {"queued", "learned"} => updates[k].run = run
    /\ stage \in {"running", "learning"} /\ run \notin Frozen => episodes <= before \/ Heard(run)
    /\ stage = "learning" /\ run \notin Frozen /\ At(After, "returned") =>
          call[After].episodes <= before \/ Heard(run)
    /\ \A r \in Run : Taken(r) => Heard(r)

\* Whom kexp takes for learned, and when: a run it has left, or the one whose second settle it has just checked.
LEMMA TakenKexp ==
    ASSUME TypeOK, Turns, Kexp, NEW r \in Run, Taken(r)'
    PROVE  \/ Taken(r)
           \/ /\ r = run /\ run \notin Frozen /\ stage = "learning" /\ At(After, "returned")
              /\ call[After].episodes = before + 1
<1>. run \in Run /\ run \in Nat /\ r \in Nat
  BY TurnCalls, RunsInOrder
<1>1. CASE Leave
  <2>1. UNCHANGED status /\ stage = "leaving" /\ run' \in {run, run + 1} /\ (stage' = "over" \/ stage' = "idle")
    BY <1>1 DEF Leave
  <2> QED BY <2>1 DEF Taken, Turns, StatusInTurn
<1>2. CASE StartRun \/ CreatePods
  <2>1. UNCHANGED <<run, status>> /\ (stage' = "settling" \/ stage' = "running")
    BY <1>2 DEF StartRun, CreatePods
  <2> QED BY <2>1 DEF Taken
<1>3. CASE EndPods
  <2>1. UNCHANGED run /\ stage' = "learning" /\ (r # run => status'[r] = status[r])
    BY <1>3 DEF EndPods, TypeOK
  <2> QED BY <2>1 DEF Taken
<1>4. CASE Refuse \/ Cancel \/ Unsettled
  <2>1. PICK s \in {"aborted", "unsettled"} : status' = [status EXCEPT ![run] = s] /\ UNCHANGED run
    BY <1>4 DEF Refuse, Cancel, Unsettled
  <2>2. status'[run] \notin {"complete", "timeout"} /\ (r # run => status'[r] = status[r])
    BY <2>1 DEF TypeOK
  <2> QED BY <2>1, <2>2 DEF Taken, Turns, StatusInTurn
<1>5. CASE CheckLearned
  <2>1. UNCHANGED run /\ stage = "learning" /\ At(After, "returned") /\ (r # run => status'[r] = status[r])
    BY <1>5 DEF CheckLearned, After, TypeOK
  <2>2. status'[run] # "unsettled" => call[After].episodes = Expected
    BY <1>5 DEF CheckLearned, After, TypeOK
  <2> QED BY <2>1, <2>2 DEF Taken, Turns, StatusInTurn, Expected
<1> QED BY <1>1, <1>2, <1>3, <1>4, <1>5 DEF Kexp

\* Nothing is unheard again.
LEMMA HeardStays ==
    ASSUME Core, Hearing, [Next]_vars, NEW r, Heard(r)
    PROVE  Heard(r)'
<1>1. CASE UNCHANGED <<net, forgotten>>
  BY <1>1 DEF Heard, LearnedFrom
<1>2. CASE Restart
  BY <1>2 DEF Restart, Heard
<1>3. ASSUME NEW k \in DOMAIN updates, HandOver(k) PROVE Heard(r)'
  BY <1>3 DEF HandOver, Heard, LearnedFrom, Hearing
<1>4. Kexp \/ Pods \/ Poll \/ ReadPolled \/ UNCHANGED vars => UNCHANGED <<net, forgotten>>
  <2>1. Kexp => UNCHANGED <<net, forgotten>>
    BY KexpFrame DEF learner
  <2>2. Pods => UNCHANGED <<net, forgotten>>
    BY DEF Pods, Decide, PlaceUnseen, Finish, decider, learner
  <2>3. Poll \/ ReadPolled \/ UNCHANGED vars => UNCHANGED <<net, forgotten>>
    BY DEF Poll, ReadPolled, vars, decider, learner
  <2> QED BY <2>1, <2>2, <2>3
<1>5. ASSUME NEW k \in DOMAIN updates, Learn(k) \/ UpdateFails(k) PROVE UNCHANGED <<net, forgotten>>
  BY <1>5 DEF Learn, UpdateFails
<1>6. ASSUME NEW c \in Call, SettleStep(c) PROVE UNCHANGED <<net, forgotten>>
  BY <1>6 DEF SettleStep, SettlePoll, SettleRead, SettleClose, SettleWait, SettleKept, learner
<1> QED BY <1>1, <1>2, <1>3, <1>4, <1>5, <1>6, StepCases

LEMMA HearingKexp == Core /\ Window /\ Hearing /\ Kexp => Hearing'
<1> SUFFICES ASSUME Core, Window, Hearing, Kexp PROVE Hearing'
  OBVIOUS
<1>. Before \in Call /\ After \in Call /\ Before # After /\ run \in Run /\ run \in Nat /\ TypeOK /\ Turns
  BY TurnCalls DEF Core
<1>0. UNCHANGED <<updates, trained, net, episodes, forgotten, started>> /\ \A r : Heard(r)' <=> Heard(r)
  BY KexpFrame DEF learner, Heard, LearnedFrom
<1>1. \A r \in Run : Taken(r)' => Heard(r)
  <2> SUFFICES ASSUME NEW r \in Run, Taken(r)' PROVE Heard(r)
    OBVIOUS
  <2>1. CASE Taken(r)
    BY <2>1 DEF Hearing
  <2>2. CASE r = run /\ run \notin Frozen /\ stage = "learning" /\ At(After, "returned")
             /\ call[After].episodes = before + 1
    <3>1. ~(call[After].episodes <= before)
      BY <2>2 DEF TypeOK
    <3> QED BY <2>2, <3>1 DEF Hearing
  <2> QED BY <2>1, <2>2, TakenKexp
<1>2. stage' = "running" /\ run' \notin Frozen => episodes <= before' \/ Heard(run')
  <2> SUFFICES ASSUME stage' = "running" PROVE episodes <= before'
    OBVIOUS
  <2>1. CreatePods
    BY KexpOpens
  <2>2. stage = "settling" /\ At(Before, "returned") /\ before' = Told
    BY <2>1 DEF CreatePods, Before, Told
  <2>3. episodes \in {Told, 0}
    BY <2>2 DEF Window
  <2>4. before' \in Nat
    BY KexpType DEF KexpShape
  <2> QED BY <2>2, <2>3, <2>4
<1>3. CASE stage' # "learning"
  BY <1>0, <1>1, <1>2, <1>3 DEF Hearing
<1>4. CASE stage' = "learning"
  <2>1. EndPods
    BY <1>4 DEF Kexp, StartRun, CreatePods, Refuse, Cancel, CheckLearned, Unsettled, Leave
  <2>2. stage = "running" /\ UNCHANGED <<run, before>> /\ After' = After /\ SettleStart(After)
    BY <2>1 DEF EndPods, After
  <2>3. call'[After].episodes = episodes
    BY <2>2, SettleStarts
  <2>4. AllDone
    BY <2>2 DEF Core, Quiet, Opened
  <2> QED BY <1>0, <1>1, <1>4, <2>2, <2>3, <2>4 DEF Hearing, AllDone
<1> QED BY <1>3, <1>4

LEMMA HearingLearner ==
    ASSUME Core, Hearing, UNCHANGED kexp, [Next]_vars,
           NEW k \in DOMAIN updates, Learn(k) \/ HandOver(k) \/ UpdateFails(k)
    PROVE  Hearing'
<1>. TypeOK
  BY DEF Core
<1>1. UNCHANGED <<run, stage, status, before, call>> /\ After' = After
  BY DEF kexp, After, Learn, HandOver, UpdateFails
<1>2. (\A r : Heard(r) => Heard(r)') /\ (Heard(run) => Heard(run)')
  BY <1>1, HeardStays DEF Heard
<1>3. PICK s \in {"learned", "done", "failed"} :
        /\ Advance(k, s)
        /\ s = "learned" => updates[k].status = "queued" /\ trained' = Append(trained, updates[k].run)
                            /\ UNCHANGED <<net, episodes>>
        /\ s = "done" => updates[k].status = "learned" /\ net' = trained /\ UNCHANGED trained
        /\ s = "failed" => UNCHANGED <<trained, net, episodes>>
        /\ updates[k].status \in {"queued", "learned"}
  BY DEF Learn, HandOver, UpdateFails, Turn
<1>4. /\ DOMAIN updates' = DOMAIN updates /\ updates'[k].run = updates[k].run /\ updates'[k].status = s
      /\ \A j \in DOMAIN updates : j # k => updates'[j] = updates[j]
  BY <1>3, AdvanceType DEF Advance
<1>5. /\ \A j \in DOMAIN trained : j \in DOMAIN trained' /\ trained'[j] = trained[j]
      /\ s = "learned" => \E j \in DOMAIN trained' : trained'[j] = updates[k].run
  <2>1. CASE s # "learned"
    BY <1>3, <2>1
  <2>2. CASE s = "learned"
    <3>1. updates[k].run \in Run \ Frozen /\ trained \in Seq(Run \ Frozen)
      BY AdvanceType, <1>3 DEF TypeOK, Update
    <3>2. /\ DOMAIN trained = 1 .. Len(trained) /\ Len(trained) \in Nat
          /\ DOMAIN trained' = 1 .. (Len(trained) + 1)
          /\ trained'[Len(trained) + 1] = updates[k].run
          /\ \A j \in 1 .. Len(trained) : trained'[j] = trained[j]
      BY <1>3, <2>2, <3>1
    <3> QED BY <3>2
  <2> QED BY <2>1, <2>2
<1>6. \A j \in DOMAIN net' : \E i \in DOMAIN trained' : trained'[i] = net'[j]
  <2>1. CASE s = "done"
    BY <1>3, <2>1
  <2>2. CASE s # "done"
    BY <1>3, <1>5, <2>2 DEF Hearing
  <2> QED BY <2>1, <2>2
<1>7. \A j \in DOMAIN updates' :
          updates'[j].status = "learned" => \E i \in DOMAIN trained' : trained'[i] = updates'[j].run
  <2> SUFFICES ASSUME NEW j \in DOMAIN updates, updates'[j].status = "learned"
               PROVE  \E i \in DOMAIN trained' : trained'[i] = updates'[j].run
    BY <1>4
  <2>1. CASE j = k
    BY <1>4, <1>5, <2>1
  <2>2. CASE j # k
    BY <1>4, <1>5, <2>2 DEF Hearing
  <2> QED BY <2>1, <2>2
<1>8. stage = "learning" /\ run \notin Frozen =>
          \A j \in DOMAIN updates' : updates'[j].status \in {"queued", "learned"} => updates'[j].run = run
  <2> SUFFICES ASSUME stage = "learning", run \notin Frozen, NEW j \in DOMAIN updates,
                      updates'[j].status \in {"queued", "learned"}
               PROVE  updates'[j].run = run
    BY <1>4
  <2> QED BY <1>3, <1>4 DEF Hearing
<1>9. stage \in {"running", "learning"} /\ run \notin Frozen => episodes' <= before \/ Heard(run)'
  <2> SUFFICES ASSUME stage \in {"running", "learning"}, run \notin Frozen
               PROVE  episodes' <= before \/ Heard(run)'
    OBVIOUS
  <2>1. CASE s # "done"
    BY <1>2, <1>3, <2>1 DEF Hearing
  <2>2. CASE s = "done"
    <3>1. stage = "learning"
      BY AllDoneRests DEF Core, Quiet, Opened
    <3>2. updates[k].run = run /\ \E j \in DOMAIN trained : trained[j] = run
      BY <1>3, <2>2, <3>1 DEF Hearing
    <3> QED BY <1>1, <1>3, <2>2, <3>2 DEF Heard, LearnedFrom
  <2> QED BY <2>1, <2>2
<1>10. stage = "learning" /\ run \notin Frozen /\ At(After, "returned") =>
          call[After].episodes <= before \/ Heard(run)'
  BY <1>2 DEF Hearing
<1>11. \A r \in Run : Taken(r)' => Heard(r)'
  BY <1>1, <1>2 DEF Hearing, Taken
<1> QED BY <1>1, <1>6, <1>7, <1>8, <1>9, <1>10, <1>11 DEF Hearing, At

LEMMA HearingSettle ==
    ASSUME Core, Hearing, UNCHANGED kexp, [Next]_vars, NEW c \in Call, SettleStep(c)
    PROVE  Hearing'
<1>. Before \in Call /\ After \in Call /\ Before # After /\ run \in Run /\ TypeOK /\ Turns
  BY TurnCalls DEF Core
<1>1. UNCHANGED <<run, stage, status, before>> /\ After' = After
  BY DEF kexp, After
<1>2. UNCHANGED <<trained, net, episodes>> /\ \A d \in Call : d # c => call'[d] = call[d]
  BY SettleFrame, SettleTurn DEF learner
<1>3. \A r : Heard(r) => Heard(r)'
  BY HeardStays
<1>4. updates' = updates \/ (episode # {} /\ updates' = Closed)
  BY SettleFrame
<1>5. \A j \in DOMAIN updates' : \/ j \in DOMAIN updates /\ updates'[j] = updates[j]
                                 \/ /\ updates'[j].status = "queued"
                                    /\ stage = "learning" => updates'[j].run = run
  <2>1. CASE updates' = updates
    BY <2>1
  <2>2. CASE episode # {} /\ updates' = Closed
    <3>1. /\ DOMAIN updates' = 1 .. (Len(updates) + 1) /\ DOMAIN updates = 1 .. Len(updates) /\ Len(updates) \in Nat
          /\ \A j \in DOMAIN updates : updates'[j] = updates[j]
          /\ updates'[Len(updates) + 1] = [run |-> RunOf(episode), status |-> "queued"]
      BY <2>2, ClosedUpdates DEF TypeOK
    <3>2. stage = "learning" => RunOf(episode) = run
      BY <2>2, EpisodeRun DEF Core, EpisodeInTurn, Opened
    <3> QED BY <3>1, <3>2
  <2> QED BY <1>4, <2>1, <2>2
<1>6. stage = "learning" /\ run \notin Frozen /\ At(After, "returned")' =>
          call'[After].episodes <= before \/ Heard(run)
  <2>1. CASE c = After
    <3>1. At(c, "returned")' => call'[c].episodes = episodes
      BY SettleMoves DEF At
    <3> QED BY <1>1, <2>1, <3>1 DEF Hearing, At
  <2>2. CASE c # After
    BY <1>1, <1>2, <2>2 DEF Hearing, At
  <2> QED BY <2>1, <2>2
<1>7. \A r \in Run : Taken(r)' <=> Taken(r)
  BY <1>1 DEF Taken
<1>8. /\ \A j \in DOMAIN updates' :
            updates'[j].status = "learned" => \E i \in DOMAIN trained : trained[i] = updates'[j].run
      /\ stage = "learning" /\ run \notin Frozen =>
            \A j \in DOMAIN updates' : updates'[j].status \in {"queued", "learned"} => updates'[j].run = run
  BY <1>5 DEF Hearing
<1> QED BY <1>1, <1>2, <1>3, <1>6, <1>7, <1>8 DEF Hearing, At

LEMMA HearingRest ==
    ASSUME Core, Hearing, UNCHANGED kexp, [Next]_vars, Pods \/ Poll \/ ReadPolled \/ UNCHANGED vars
    PROVE  Hearing'
<1>1. UNCHANGED <<run, stage, status, before>> /\ After' = After
  BY DEF kexp, After
<1>2. UNCHANGED <<call, updates, trained, net, episodes>>
  <2>1. Pods => UNCHANGED updates
    BY DecideInTurn DEF Pods, Decide, PlaceUnseen, Finish, decider, policy, Core
  <2>2. Pods => UNCHANGED <<call, trained, net, episodes>>
    BY DEF Pods, Decide, PlaceUnseen, Finish, decider, learner
  <2>3. Poll \/ ReadPolled \/ UNCHANGED vars => UNCHANGED <<call, updates, trained, net, episodes>>
    BY DEF Poll, ReadPolled, vars, decider, policy, learner
  <2> QED BY <2>1, <2>2, <2>3
<1>3. \A r : Heard(r) => Heard(r)'
  BY HeardStays
<1> QED BY <1>1, <1>2, <1>3 DEF Hearing, At, Taken

LEMMA HearingRestart ==
    ASSUME Core, Hearing, UNCHANGED kexp, [Next]_vars, Restart
    PROVE  Hearing'
<1>. After \in Call /\ TypeOK /\ before \in Nat
  BY TurnCalls DEF Core, TypeOK
<1>1. UNCHANGED <<run, stage, status, before>> /\ After' = After
  BY DEF kexp, After
<1>2. updates' = <<>> /\ trained' = <<>> /\ net' = <<>> /\ episodes' = 0
  BY RestartForgets
<1>3. \A r : Heard(r) => Heard(r)'
  BY HeardStays
<1>4. At(After, "returned")' => At(After, "returned") /\ call'[After].episodes = call[After].episodes
  BY <1>1, RestartFails, AbsenceAssumption DEF At
<1> QED BY <1>1, <1>2, <1>3, <1>4 DEF Hearing, Taken, At

LEMMA HearingInvariant == Spec => []Hearing
<1>1. Init => Hearing
  BY DEF Init, LearnerInit, Hearing, Taken
<1>2. Core /\ Window /\ Hearing /\ [Next]_vars => Hearing'
  <2>1. UNCHANGED vars => UNCHANGED kexp
    BY DEF vars
  <2> QED BY <2>1, StepCases, HearingKexp, HearingLearner, HearingSettle, HearingRest, HearingRestart
<1> QED BY <1>1, <1>2, CoreInvariant, WindowInvariant, PTL DEF Spec

\* kaptain.py 658-660, kexp.py 561-565: whatever fails and is given up, while the pods of a run are placed no update
\* has failed since the decider started, every update is done, and the network that decides has learned from
\* every training kexp settled before, those excepted that it had learned from when a restart lost it.
THEOREM RunsOnLearned == Spec => []RunsOnLearnedModel
<1>1. Core /\ Hearing => RunsOnLearnedModel
  <2> SUFFICES ASSUME Core, Hearing, stage = "running" PROVE RunsOnLearnedModel
    BY DEF RunsOnLearnedModel
  <2>1. AllDone /\ ~failure
    BY DEF Core, Quiet, Opened
  <2>2. net = trained
    BY <2>1 DEF Core, Learned, NetFollows, AllDone
  <2>3. \A r \in Run : Taken(r) => r \in LearnedFrom \cup forgotten
    BY DEF Hearing, Heard
  <2> QED BY <2>1, <2>2, <2>3 DEF RunsOnLearnedModel, AllDone
<1> QED BY <1>1, CoreInvariant, HearingInvariant, PTL

-----------------------------------------------------------------------------
(* What is read has happened: only a pod that has finished is ever listed. *)

Over(p) == pod[p] \in {"succeeded", "gone"}

\* A list of finished pods stays one, however long it is held: a pod that was seen has finished, and the
\* pods of the run under way are there until kexp leaves.
Happened ==
    /\ \A p \in seen : Over(p)
    /\ polled # NoPoll => \A p \in polled : Over(p)
    /\ \A c \in Call : call[c] # NoCall => \A p \in call[c].listed : Over(p)
    /\ stage \in {"running", "learning"} => \A p \in PodsOf(run) : pod[p] \in Active

LEMMA OverStays ==
    ASSUME TypeOK, Turns, [Next]_vars, NEW p \in Pod, Over(p)
    PROVE  Over(p)'
<1>1. CASE Kexp
  <2>1. CASE CreatePods
    <3>1. stage = "settling" /\ pod' = [q \in Pod |-> IF q \in PodsOf(run) THEN "pending" ELSE pod[q]]
      BY <2>1 DEF CreatePods
    <3>2. p \notin PodsOf(run)
      BY <3>1 DEF Turns, PodsInTurn, PodsOf, Over
    <3> QED BY <3>1, <3>2 DEF Over
  <2>2. CASE Leave
    BY <2>2 DEF Leave, Over
  <2>3. CASE ~CreatePods /\ ~Leave
    BY <1>1, <2>3 DEF Kexp, StartRun, Refuse, EndPods, Cancel, CheckLearned, Unsettled, Over
  <2> QED BY <2>1, <2>2, <2>3
<1>2. CASE Pods /\ UNCHANGED kexp
  BY <1>2, PodsTurn DEF Over
<1>3. Poll \/ ReadPolled \/ Restart \/ UNCHANGED vars => UNCHANGED pod
  BY RestartForgets DEF Poll, ReadPolled, vars
<1>4. (\E k \in DOMAIN updates : Learn(k) \/ HandOver(k) \/ UpdateFails(k)) => UNCHANGED pod
  BY DEF Learn, HandOver, UpdateFails
<1>5. (\E c \in Call : SettleStep(c)) => UNCHANGED pod
  BY SettleFrame
<1> QED BY <1>1, <1>2, <1>3, <1>4, <1>5, StepCases DEF Over

LEMMA HappenedKexp == Core /\ Happened /\ Kexp => Happened'
<1> SUFFICES ASSUME Core, Happened, Kexp PROVE Happened'
  OBVIOUS
<1>. TypeOK /\ Turns /\ Before \in Call /\ After \in Call /\ run \in Run
  BY TurnCalls DEF Core
<1>1. UNCHANGED <<seen, polled>> /\ \A p \in Pod : Over(p) => Over(p)'
  BY KexpFrame, OverStays DEF observer, Next
<1>2. ASSUME NEW c \in Call, call'[c] # NoCall PROVE \A p \in call'[c].listed : Over(p)'
  <2>1. CASE UNCHANGED call
    <3>1. call[c] \in CallState
      BY <1>2, <2>1, CallType
    <3> QED BY <1>1, <1>2, <2>1, <3>1 DEF Happened, CallState
  <2>2. ASSUME NEW d \in Call, SettleStart(d) PROVE \A p \in call'[c].listed : Over(p)'
    <3>1. CASE c = d
      BY <2>2, <3>1, SettleStarts
    <3>2. CASE c # d
      <4>1. call'[c] = call[c] /\ call[c] \in CallState
        BY <1>2, <2>2, <3>2, SettleStarts, CallType DEF TypeOK
      <4> QED BY <1>1, <1>2, <4>1 DEF Happened, CallState
    <3> QED BY <3>1, <3>2
  <2> QED BY <2>1, <2>2, KexpCalls DEF Before, After
<1>3. stage' \in {"running", "learning"} => \A p \in PodsOf(run)' : pod'[p] \in Active
  <2>1. CASE CreatePods
    BY <2>1 DEF CreatePods, PodsOf, Active
  <2>2. CASE EndPods
    BY <2>2 DEF EndPods, PodsOf, Happened
  <2>3. CASE ~CreatePods /\ ~EndPods
    <3>1. stage' \notin {"running", "learning"}
      BY <2>3 DEF Kexp, StartRun, Refuse, Cancel, CheckLearned, Unsettled, Leave
    <3> QED BY <3>1
  <2> QED BY <2>1, <2>2, <2>3
<1>4. seen \subseteq Pod /\ (polled # NoPoll => polled \subseteq Pod)
  BY DEF TypeOK
<1> QED BY <1>1, <1>2, <1>3, <1>4 DEF Happened

LEMMA HappenedNext == Core /\ Happened /\ [Next]_vars => Happened'
<1> SUFFICES ASSUME Core, Happened, [Next]_vars PROVE Happened'
  OBVIOUS
<1>. TypeOK /\ Turns
  BY DEF Core
<1>1. \A p \in Pod : Over(p) => Over(p)'
  BY OverStays
<1>2. seen \subseteq Pod /\ (polled # NoPoll => polled \subseteq Pod)
      /\ \A c \in Call : call[c] # NoCall => call[c].listed \subseteq Pod
  BY CallType DEF TypeOK, CallState
<1>3. ASSUME UNCHANGED kexp
      PROVE  stage' \in {"running", "learning"} => \A p \in PodsOf(run)' : pod'[p] \in Active
  <2>1. UNCHANGED <<stage, run>>
    BY <1>3 DEF kexp
  <2>2. Pods => \A p \in Pod : pod[p] \in Active => pod'[p] \in Active
    BY <1>3, PodsTurn DEF Active
  <2>3. ~Pods => UNCHANGED pod
    <3>1. (\E c \in Call : SettleStep(c)) => UNCHANGED pod
      BY SettleFrame
    <3>2. Kexp /\ UNCHANGED kexp => UNCHANGED pod
      BY DEF Kexp, StartRun, CreatePods, Refuse, EndPods, Cancel, CheckLearned, Unsettled, Leave, kexp
    <3>3. Poll \/ ReadPolled \/ Restart \/ UNCHANGED vars => UNCHANGED pod
      BY RestartForgets DEF Poll, ReadPolled, vars
    <3>4. (\E k \in DOMAIN updates : Learn(k) \/ HandOver(k) \/ UpdateFails(k)) => UNCHANGED pod
      BY DEF Learn, HandOver, UpdateFails
    <3> QED BY <1>3, <3>1, <3>2, <3>3, <3>4, StepCases
  <2> QED BY <2>1, <2>2, <2>3 DEF Happened, PodsOf
<1>4. ASSUME UNCHANGED kexp, UNCHANGED <<seen, polled, call>> PROVE Happened'
  BY <1>1, <1>2, <1>3, <1>4 DEF Happened
<1>5. Pods => UNCHANGED <<seen, polled, call>>
  BY DEF Pods, Decide, PlaceUnseen, Finish, decider, observer
<1>6. (\E k \in DOMAIN updates : Learn(k) \/ HandOver(k) \/ UpdateFails(k)) => UNCHANGED <<seen, polled, call>>
  BY DEF Learn, HandOver, UpdateFails, observer
<1>7. CASE Poll /\ UNCHANGED kexp
  <2>1. polled' = Succeeded /\ UNCHANGED <<seen, call, pod>>
    BY <1>7 DEF Poll
  <2> QED BY <1>2, <1>3, <1>7, <2>1 DEF Happened, Succeeded, Over
<1>8. CASE ReadPolled /\ UNCHANGED kexp
  <2>1. polled' = NoPoll /\ polled # NoPoll /\ seen' = seen \cup polled /\ UNCHANGED <<call, pod>>
    BY <1>8 DEF ReadPolled, Read
  <2> QED BY <1>2, <1>3, <1>8, <2>1 DEF Happened, Over
<1>9. ASSUME NEW c \in Call, SettleStep(c), UNCHANGED kexp PROVE Happened'
  <2>1. UNCHANGED <<pod, polled>> /\ (SettleRead(c) => seen' = seen \cup call[c].listed) /\ (~SettleRead(c) => seen' = seen)
    BY <1>9, SettleFrame DEF Read
  <2>2. call[c] # NoCall /\ \A d \in Call : d # c => call'[d] = call[d]
    BY <1>9, SettleMoves, SettleTurn, AbsenceAssumption
  <2>3. \A p \in call'[c].listed : Over(p)
    <3>1. SettlePoll(c) => call'[c].listed = Succeeded
      BY <1>9, SettleMoves DEF SettleRead, SettleClose, SettleWait, SettleKept, SettlePoll, At
    <3>2. ~SettlePoll(c) => call'[c].listed \subseteq call[c].listed
      BY <1>9, SettleMoves
    <3> QED BY <2>2, <3>1, <3>2 DEF Happened, Succeeded, Over
  <2>4. \A p \in seen' : Over(p)
    BY <2>1, <2>2 DEF Happened
  <2> QED BY <1>3, <1>9, <2>1, <2>2, <2>3, <2>4 DEF Happened, Over
<1>10. CASE Restart /\ UNCHANGED kexp
  <2>1. seen' = {} /\ polled' = NoPoll /\ UNCHANGED pod
    BY <1>10, RestartForgets
  <2>2. \A c \in Call : call'[c] # NoCall => call[c] # NoCall /\ call'[c].listed \subseteq call[c].listed
    BY <1>10, RestartFails, AbsenceAssumption
  <2> QED BY <1>3, <1>10, <2>1, <2>2 DEF Happened, Over
<1>11. CASE UNCHANGED vars
  BY <1>4, <1>11 DEF vars, decider, observer
<1> QED BY <1>4, <1>5, <1>6, <1>7, <1>8, <1>9, <1>10, <1>11, HappenedKexp, StepCases

LEMMA HappenedInvariant == Spec => []Happened
<1>1. Init => Happened
  BY DEF Init, LearnerInit, Happened
<1> QED BY <1>1, HappenedNext, CoreInvariant, PTL DEF Spec

-----------------------------------------------------------------------------
(* Campaigns that nothing disturbs: the decider has not restarted, and     *)
(* kexp has given up no settle call. Only then are the estimates and the   *)
(* networks those that the campaign asked for.                             *)

Calm == restarts = 0 /\ givenUp = 0

LEMMA CalmBack ==
    ASSUME TypeOK, [Next]_vars, Calm'
    PROVE  Calm /\ ~Restart /\ \A c \in Call : Kexp => ~GivesUp(c)
<1>. /\ restarts \in Nat /\ givenUp \in Nat
  BY DEF TypeOK
<1>1. ~Restart
  <2>1. Restart => restarts' = restarts + 1
    BY RestartForgets
  <2> QED BY <2>1 DEF Calm
<1>2. \A c \in Call : ~GivesUp(c)
  BY DEF GivesUp, Calm
<1>3. Kexp => UNCHANGED restarts /\ givenUp' \in {givenUp, givenUp + 1}
  <2>1. Kexp => UNCHANGED restarts
    BY KexpFrame
  <2>2. Kexp => givenUp' \in {givenUp, givenUp + 1}
    BY DEF Kexp, StartRun, CreatePods, Refuse, EndPods, Cancel, CheckLearned, Unsettled, Leave, GivesUp
  <2> QED BY <2>1, <2>2
<1>4. UNCHANGED kexp => UNCHANGED givenUp
  BY DEF kexp
<1>5. Pods \/ Poll \/ ReadPolled \/ UNCHANGED vars => UNCHANGED restarts
  BY DEF Pods, Decide, PlaceUnseen, Finish, Poll, ReadPolled, vars, decider
<1>6. (\E k \in DOMAIN updates : Learn(k) \/ HandOver(k) \/ UpdateFails(k)) => UNCHANGED restarts
  BY DEF Learn, HandOver, UpdateFails
<1>7. (\E c \in Call : SettleStep(c)) => UNCHANGED restarts
  BY SettleFrame
<1>8. UNCHANGED vars => UNCHANGED kexp
  BY DEF vars
<1>9. Calm
  BY <1>1, <1>3, <1>4, <1>5, <1>6, <1>7, <1>8, StepCases DEF Calm
<1> QED BY <1>1, <1>2, <1>9

\* Only the call that kexp waits for has not ended.
CallsOver == \A c \in Call : call[c] # NoCall => call[c].at \in {"returned", "failed"} \/ Current(c)

LEMMA CallsOverNext == Core /\ CallsOver /\ [Next]_vars /\ Calm' => CallsOver'
<1> SUFFICES ASSUME Core, CallsOver, [Next]_vars, Calm' PROVE CallsOver'
  OBVIOUS
<1>. TypeOK /\ Turns /\ Before \in Call /\ After \in Call /\ Before # After
  BY TurnCalls DEF Core
<1>1. CASE Kexp
  <2>1. CASE UNCHANGED call
    <3>1. stage = "settling" => call[Before].at \in {"returned", "failed"}
      BY <1>1, CalmBack DEF Kexp, StartRun, CreatePods, Refuse, EndPods, Cancel, CheckLearned, Unsettled, Leave,
            Before, At
    <3>2. stage = "learning" => call[After].at \in {"returned", "failed"}
      BY <1>1, CalmBack DEF Kexp, StartRun, CreatePods, Refuse, EndPods, Cancel, CheckLearned, Unsettled, Leave,
            After, At
    <3> QED BY <2>1, <3>1, <3>2 DEF CallsOver, Current
  <2>2. ASSUME NEW c \in Call, SettleStart(c), stage \notin {"settling", "learning"},
               (stage' = "settling" /\ c = Before') \/ (stage' = "learning" /\ c = After')
        PROVE  CallsOver'
    <3>1. \A d \in Call : d # c => call'[d] = call[d]
      BY <2>2, SettleStarts DEF TypeOK
    <3> QED BY <2>2, <3>1 DEF CallsOver, Current
  <2>3. CASE StartRun
    <3>1. SettleStart(Before) /\ stage \notin {"settling", "learning"} /\ stage' = "settling" /\ Before = Before'
      BY <2>3 DEF StartRun, Before
    <3> QED BY <2>2, <3>1
  <2>4. CASE EndPods
    <3>1. SettleStart(After) /\ stage \notin {"settling", "learning"} /\ stage' = "learning" /\ After = After'
      BY <2>4 DEF EndPods, After
    <3> QED BY <2>2, <3>1
  <2> QED BY <1>1, <2>1, <2>3, <2>4, KexpCalls
<1>2. ASSUME UNCHANGED <<kexp, call>> PROVE CallsOver'
  BY <1>2 DEF CallsOver, Current, kexp, Before, After
<1>3. Pods \/ Poll \/ ReadPolled => UNCHANGED call
  BY DEF Pods, Decide, PlaceUnseen, Finish, Poll, ReadPolled, decider
<1>4. (\E k \in DOMAIN updates : Learn(k) \/ HandOver(k) \/ UpdateFails(k)) => UNCHANGED call
  BY DEF Learn, HandOver, UpdateFails
<1>5. ASSUME NEW c \in Call, SettleStep(c), UNCHANGED kexp PROVE CallsOver'
  <2>1. call[c] # NoCall /\ call[c].at \notin {"returned", "failed"} /\ \A d \in Call : d # c => call'[d] = call[d]
    BY <1>5, SettleMoves, SettleTurn, AbsenceAssumption
  <2>2. Current(c) /\ \A d \in Call : Current(d)' <=> Current(d)
    BY <1>5, <2>1 DEF CallsOver, Current, kexp, Before, After
  <2> QED BY <2>1, <2>2 DEF CallsOver
<1>6. UNCHANGED vars => UNCHANGED <<kexp, call>>
  BY DEF vars, decider
<1> QED BY <1>1, <1>2, <1>3, <1>4, <1>5, <1>6, CalmBack, StepCases

\* Until the decider has decided, no run has its networks, and a settle call tells of nothing.
Unasked ==
    ~started =>
        /\ \A r \in Run : models[r] = {}
        /\ \A c \in Call : call[c] # NoCall => call[c].episodes = 0 /\ ~call[c].kept

LEMMA UnaskedNext == Core /\ Unasked /\ [Next]_vars /\ Calm' => Unasked'
<1> SUFFICES ASSUME Core, Unasked, [Next]_vars, Calm', ~started' PROVE Unasked'
  BY DEF Unasked
<1>. TypeOK /\ Unstarted /\ Before \in Call /\ After \in Call
  BY TurnCalls DEF Core
<1>1. CASE Kexp
  <2>1. UNCHANGED <<started, models>> /\ episodes = 0
    BY <1>1, KexpFrame DEF Unstarted
  <2>2. ASSUME NEW c \in Call, SettleStart(c) PROVE Unasked'
    <3>1. call'[c].episodes = 0 /\ ~call'[c].kept /\ \A d \in Call : d # c => call'[d] = call[d]
      BY <2>1, <2>2, SettleStarts DEF TypeOK
    <3> QED BY <2>1, <3>1 DEF Unasked
  <2> QED BY <1>1, <2>1, <2>2, KexpCalls DEF Unasked, Before, After
<1>2. CASE Pods
  <2>1. UNCHANGED decider
    BY <1>2 DEF Pods, Decide, PlaceUnseen, Finish
  <2> QED BY <2>1 DEF decider, policy, Unasked
<1>3. CASE Poll \/ ReadPolled
  BY <1>3 DEF Poll, ReadPolled, policy, Unasked
<1>4. (\E k \in DOMAIN updates : Learn(k) \/ HandOver(k) \/ UpdateFails(k)) => UNCHANGED <<started, models, call>>
  BY DEF Learn, HandOver, UpdateFails
<1>5. ASSUME NEW c \in Call, SettleStep(c) PROVE FALSE
  <2>1. ~started
    BY <1>5, SettleFrame
  <2>2. call[c] # NoCall /\ call[c].at \notin {"returned", "failed"}
    BY <1>5, SettleMoves, AbsenceAssumption
  <2> QED BY <2>1, <2>2 DEF Unstarted
<1>6. CASE UNCHANGED vars
  BY <1>6 DEF vars, decider, policy, Unasked
<1> QED BY <1>1, <1>2, <1>3, <1>4, <1>5, <1>6, CalmBack, StepCases DEF Unasked

\* Whom kexp accepts, and when: a run it has left, or the one whose second settle it has just checked.
LEMMA AcceptedKexp ==
    ASSUME TypeOK, Turns, Kexp, NEW r \in Run, Accepted(r)'
    PROVE  \/ Accepted(r)
           \/ /\ r = run /\ CheckLearned /\ stage = "learning" /\ status[run] = "complete" /\ At(After, "returned")
              /\ call[After].episodes = Expected
<1>. run \in Run /\ run \in Nat /\ r \in Nat
  BY TurnCalls, RunsInOrder
<1>1. CASE Leave
  <2>1. UNCHANGED status /\ stage = "leaving" /\ run' \in {run, run + 1} /\ (stage' = "over" \/ stage' = "idle")
    BY <1>1 DEF Leave
  <2> QED BY <2>1 DEF Accepted, Turns, StatusInTurn
<1>2. CASE StartRun \/ CreatePods
  <2>1. UNCHANGED <<run, status>> /\ (stage' = "settling" \/ stage' = "running")
    BY <1>2 DEF StartRun, CreatePods
  <2> QED BY <2>1 DEF Accepted
<1>3. CASE EndPods
  <2>1. UNCHANGED run /\ stage' = "learning" /\ (r # run => status'[r] = status[r])
    BY <1>3 DEF EndPods, TypeOK
  <2> QED BY <2>1 DEF Accepted
<1>4. CASE Refuse \/ Cancel \/ Unsettled
  <2>1. PICK s \in {"aborted", "unsettled"} : status' = [status EXCEPT ![run] = s] /\ UNCHANGED run
    BY <1>4 DEF Refuse, Cancel, Unsettled
  <2>2. status'[run] # "complete" /\ (r # run => status'[r] = status[r])
    BY <2>1 DEF TypeOK
  <2> QED BY <2>1, <2>2 DEF Accepted, Turns, StatusInTurn
<1>5. CASE CheckLearned
  <2>1. UNCHANGED run /\ stage = "learning" /\ At(After, "returned") /\ (r # run => status'[r] = status[r])
    BY <1>5 DEF CheckLearned, After, TypeOK
  <2>2. status'[run] = "complete" => status[run] = "complete" /\ call[After].episodes = Expected
    BY <1>5 DEF CheckLearned, After, TypeOK
  <2> QED BY <1>5, <2>1, <2>2 DEF Accepted, Turns, StatusInTurn
<1> QED BY <1>1, <1>2, <1>3, <1>4, <1>5 DEF Kexp

-----------------------------------------------------------------------------
(* The estimates, from one run to the next.                                *)

\* Of every run accepted that teaches, each pod is in the estimates, and in those kept.
Taught ==
    \A p \in Pod : Teaches(p[1]) /\ Accepted(p[1]) => known[p] = 1 /\ (kept # NoKept => kept[p] = 1)

\* Of a validation accepted no pod is in the estimates that trainings go on from; each was seen, and will
\* not be read again.
Measured ==
    \A p \in Pod : p[1] \in Valid /\ Accepted(p[1]) /\ call[<<p[1], "before">>].kept =>
        p \in seen /\ (IF kept = NoKept THEN known[p] = 0 ELSE kept[p] = 0)

\* The settle before a validation has kept the training's estimates, without its pods; of any other run,
\* it keeps none.
KeptInTurn ==
    (stage = "settling" /\ At(Before, "returned")) \/ Opened =>
        /\ run \notin Valid => kept = NoKept
        /\ run \in Valid /\ call[Before].kept => kept # NoKept /\ \A p \in PodsOf(run) : kept[p] = 0

\* What was seen of the run under way is in the estimates, unless it is a validation.
Reading == Opened /\ run \notin Valid => \A p \in PodsOf(run) \cap seen : known[p] = 1

\* The settle after a complete run has read every pod of it.
ReadAfter ==
    stage = "learning" /\ status[run] = "complete" =>
        /\ At(After, "reading") => PodsOf(run) \subseteq call[After].listed
        /\ call[After].at \in {"closing", "waiting", "finishing"} => PodsOf(run) \subseteq seen
        /\ call[After].at = "returned" /\ started => PodsOf(run) \subseteq seen
        /\ call[After].at \in {"polling", "reading", "closing", "waiting", "finishing"} => started

Estimates == Taught /\ Measured /\ KeptInTurn /\ Reading /\ ReadAfter

Settled == Core /\ Once /\ Window /\ Happened

\* A run accepted has been read: what it should teach is in the estimates, and what it should not, not.
LEMMA ReadWhenAccepted ==
    ASSUME Settled, Unasked, Estimates, stage = "learning", status[run] = "complete", At(After, "returned"),
           call[After].episodes = Expected
    PROVE  /\ Teaches(run) => kept = NoKept /\ \A p \in PodsOf(run) : known[p] = 1
           /\ run \in Valid /\ call[Before].kept => /\ kept # NoKept
                                                    /\ \A p \in PodsOf(run) : p \in seen /\ kept[p] = 0
<1>. Before \in Call /\ After \in Call /\ run \in Run /\ TypeOK /\ Turns /\ Unstarted /\ Opened
  BY TurnCalls DEF Settled, Core, Opened
<1>1. At(Before, "returned") /\ call[Before] # NoCall /\ call[After] # NoCall /\ before = Told
  BY DEF Settled, Window, Turns, CallsInTurn, At
<1>2. started => PodsOf(run) \subseteq seen
  BY DEF Estimates, ReadAfter, At
<1>3. ~started => run \in Frozen /\ models[run] = {} /\ ~call[Before].kept
  BY <1>1 DEF Unasked, Told, Expected
<1> QED BY <1>2, <1>3 DEF Estimates, KeptInTurn, Reading, Teaches

LEMMA EstimatesKexp ==
    ASSUME Settled, Unasked, Estimates, Kexp
    PROVE  Estimates'
<1>. Before \in Call /\ After \in Call /\ Before # After /\ run \in Run /\ run \in Nat /\ TypeOK /\ Turns
  BY TurnCalls DEF Settled, Core
<1>1. UNCHANGED <<known, kept, seen, started, models>> /\ \A r \in Run : Teaches(r)' <=> Teaches(r)
  BY KexpFrame DEF observer, Teaches
<1>2. Taught'
  <2>1. SUFFICES ASSUME NEW p \in Pod, Teaches(p[1]), Accepted(p[1])'
                 PROVE  known[p] = 1 /\ (kept # NoKept => kept[p] = 1)
    BY <1>1, PodIsPair DEF Taught
  <2>2. CASE Accepted(p[1])
    BY <2>1, <2>2 DEF Estimates, Taught
  <2>3. CASE ~Accepted(p[1])
    <3>1. /\ p \in PodsOf(run) /\ p[1] = run /\ stage = "learning" /\ status[run] = "complete"
          /\ At(After, "returned") /\ call[After].episodes = Expected
      BY <2>1, <2>3, AcceptedKexp, PodIsPair DEF PodsOf
    <3> QED BY <2>1, <3>1, ReadWhenAccepted
  <2> QED BY <2>2, <2>3
<1>3. Measured'
  <2>1. SUFFICES ASSUME NEW p \in Pod, p[1] \in Valid, Accepted(p[1])', call'[<<p[1], "before">>].kept
                 PROVE  p \in seen /\ (IF kept = NoKept THEN known[p] = 0 ELSE kept[p] = 0)
    BY <1>1 DEF Measured
  <2>2. call'[<<p[1], "before">>] = call[<<p[1], "before">>]
    <3>1. <<p[1], "before">> \in Call /\ p[1] \in Run
      BY PodIsPair DEF Moment
    <3>2. ASSUME StartRun PROVE call'[<<p[1], "before">>] = call[<<p[1], "before">>]
      <4>1. p[1] # run
        BY <2>1, <3>2 DEF StartRun, Accepted
      <4>2. SettleStart(Before) /\ Before # <<p[1], "before">>
        BY <3>2, <4>1 DEF StartRun, Before
      <4> QED BY <3>1, <4>2, StartsAlone
    <3>3. ASSUME EndPods PROVE call'[<<p[1], "before">>] = call[<<p[1], "before">>]
      <4>1. SettleStart(After) /\ After # <<p[1], "before">>
        BY <3>3 DEF EndPods, After
      <4> QED BY <3>1, <4>1, StartsAlone
    <3> QED BY <3>2, <3>3, KexpCalls
  <2>3. CASE Accepted(p[1])
    BY <2>1, <2>2, <2>3 DEF Estimates, Measured
  <2>4. CASE ~Accepted(p[1])
    <3>1. /\ p \in PodsOf(run) /\ p[1] = run /\ stage = "learning" /\ status[run] = "complete"
          /\ At(After, "returned") /\ call[After].episodes = Expected
      BY <2>1, <2>4, AcceptedKexp, PodIsPair DEF PodsOf
    <3> QED BY <2>1, <2>2, <3>1, ReadWhenAccepted DEF Before
  <2> QED BY <2>3, <2>4
<1>4. Opened' => (CreatePods /\ stage = "settling" /\ At(Before, "returned") /\ run' = run /\ Before' = Before
                    /\ call' = call)
                 \/ (Opened /\ run' = run /\ Before' = Before /\ call'[Before] = call[Before])
  <2>1. CreatePods => stage = "settling" /\ At(Before, "returned") /\ run' = run /\ Before' = Before /\ call' = call
    BY DEF CreatePods, Before, decider
  <2> QED BY <2>1, KexpOpens
<1>5. KeptInTurn'
  <2>1. ASSUME stage' = "settling", At(Before, "returned")'
        PROVE  kept = NoKept /\ ~call'[Before].kept /\ Before' = Before
    <3>1. StartRun /\ Before' = Before
      BY <2>1, KexpOpens
    <3>2. SettleStart(Before) /\ call'[Before].at = "returned"
      BY <2>1, <3>1 DEF StartRun, Before, At
    <3>3. ~started /\ ~call'[Before].kept
      BY <3>2, SettleStarts
    <3> QED BY <3>1, <3>3 DEF Settled, Core, Unstarted
  <2>2. ASSUME stage' = "settling" PROVE run' = run
    BY <2>2, KexpOpens DEF StartRun
  <2> QED BY <1>1, <1>4, <2>1, <2>2 DEF Estimates, KeptInTurn, PodsOf
<1>6. Reading'
  <2>1. CreatePods => PodsOf(run) \cap seen = {}
    <3>1. CreatePods => \A p \in PodsOf(run) : ~Over(p)
      BY PodIsPair DEF CreatePods, Turns, PodsInTurn, Over
    <3> QED BY <3>1 DEF Settled, Happened
  <2> QED BY <1>1, <1>4, <2>1 DEF Estimates, Reading, PodsOf
<1>7. ReadAfter'
  <2>1. stage' = "learning" => EndPods
    BY DEF Kexp, StartRun, CreatePods, Refuse, Cancel, CheckLearned, Unsettled, Leave
  <2>2. EndPods => SettleStart(After) /\ After' = After
    BY DEF EndPods, After
  <2>3. stage' = "learning" => /\ call'[After'].at \in {"polling", "returned", "failed"}
                               /\ call'[After'].at = "polling" => started
                               /\ call'[After'].at = "returned" => ~started
    BY <2>1, <2>2, SettleStarts
  <2> QED BY <1>1, <2>3 DEF ReadAfter, At
<1> QED BY <1>2, <1>3, <1>5, <1>6, <1>7 DEF Estimates

LEMMA EstimatesPods ==
    ASSUME Settled, Estimates, Pods, UNCHANGED kexp
    PROVE  Estimates'
<1>. Before \in Call /\ After \in Call /\ run \in Run /\ TypeOK /\ Turns
  BY TurnCalls DEF Settled, Core
<1>1. /\ UNCHANGED <<run, stage, status, call>> /\ Before' = Before /\ After' = After
      /\ UNCHANGED <<known, kept, seen>>
  BY PodsTurn DEF kexp, Before, After, Pods, Decide, PlaceUnseen, Finish, decider, observer, policy
<1>2. Opened' <=> Opened
  BY <1>1, PodsTurn, TurnStays
<1>3. \A r \in Run : Accepted(r)' <=> Accepted(r)
  BY <1>1 DEF Accepted
<1>4. KeptInTurn' /\ Reading'
  BY <1>1, <1>2 DEF Estimates, KeptInTurn, Reading, At, PodsOf
<1>5. Measured'
  BY <1>1, <1>3, PodIsPair DEF Estimates, Measured
<1>6. CASE UNCHANGED decider
  <2>1. UNCHANGED <<started, models>>
    BY <1>6 DEF decider, policy
  <2> QED BY <1>1, <1>3, <1>4, <1>5, <2>1, PodIsPair DEF Estimates, Taught, Teaches, ReadAfter, At, PodsOf
<1>7. ASSUME NEW p \in Pod, Decide(p) PROVE Estimates'
  <2>1. p[1] = run /\ pod[p] = "pending" /\ p \in PodsOf(run)
    BY <1>7, DecideInTurn DEF Decide, Settled, Core, PodsOf
  <2>2. status[run] # "complete"
    BY <2>1 DEF Turns, StatusInTurn
  <2>3. \A r \in Run : r # run => models'[r] = models[r]
    BY <1>7, <2>1 DEF Decide, TypeOK
  <2>4. Taught'
    <3>1. \A r \in Run : Accepted(r) => r # run
      BY <2>2 DEF Accepted
    <3> QED BY <1>1, <1>3, <2>3, <3>1, PodIsPair DEF Estimates, Taught, Teaches
  <2> QED BY <1>1, <1>4, <1>5, <2>2, <2>4 DEF Estimates, ReadAfter
<1> QED BY <1>6, <1>7 DEF Pods, PlaceUnseen, Finish

\* A list read: what it adds to the estimates has not been seen.
LEMMA EstimatesRead ==
    ASSUME Settled, Estimates, NEW listed \in SUBSET Pod, Read(listed),
           UNCHANGED <<kept, run, stage, status, models, call>> \/
               (UNCHANGED <<kept, run, stage, status, models>> /\ \A r \in Run :
                    call'[<<r, "before">>].kept = call[<<r, "before">>].kept
                    /\ (At(<<r, "before">>, "returned")' <=> At(<<r, "before">>, "returned"))),
           Opened' <=> Opened
    PROVE  Taught' /\ Measured' /\ KeptInTurn' /\ Reading'
<1>. run \in Run /\ TypeOK
  BY TurnCalls DEF Settled, Core
<1>1. /\ UNCHANGED <<kept, run, stage, status, models>>
      /\ \A r \in Run : /\ call'[<<r, "before">>].kept = call[<<r, "before">>].kept
                        /\ At(<<r, "before">>, "returned")' <=> At(<<r, "before">>, "returned")
  BY DEF At
<1>2. seen \subseteq seen' /\ seen' = seen \cup listed
  BY DEF Read
<1>3. ASSUME NEW p \in Pod
      PROVE  /\ p \in seen => known'[p] = known[p]
             /\ p \in seen' /\ p \notin seen => known'[p] = 1
             /\ known[p] = 1 => p \in seen
  <2>1. known[p] \in Nat /\ known[p] <= 1 /\ (known[p] = 1 => p \in seen)
    BY DEF TypeOK, Once, Settled
  <2>2. known'[p] = known[p] + (IF p \in listed \ seen THEN 1 ELSE 0)
    BY DEF Read
  <2> QED BY <1>2, <2>1, <2>2
<1>4. \A r \in Run : (Accepted(r)' <=> Accepted(r)) /\ (Teaches(r)' <=> Teaches(r))
  BY <1>1 DEF Accepted, Teaches
<1>5. Taught'
  BY <1>1, <1>3, <1>4, PodIsPair DEF Estimates, Taught
<1>6. Measured'
  BY <1>1, <1>2, <1>3, <1>4, PodIsPair DEF Estimates, Measured
<1>7. KeptInTurn'
  BY <1>1 DEF Estimates, KeptInTurn, Before, At, PodsOf
<1>8. Reading'
  BY <1>1, <1>3 DEF Estimates, Reading, PodsOf
<1> QED BY <1>5, <1>6, <1>7, <1>8

LEMMA EstimatesDecider ==
    ASSUME Settled, Estimates, UNCHANGED kexp,
           \/ Poll \/ ReadPolled \/ UNCHANGED vars
           \/ \E k \in DOMAIN updates : Learn(k) \/ HandOver(k) \/ UpdateFails(k)
    PROVE  Estimates'
<1>. TypeOK /\ run \in Run
  BY TurnCalls DEF Settled, Core
<1>1. UNCHANGED <<run, stage, status>> /\ Before' = Before /\ After' = After
  BY DEF kexp, Before, After
<1>2. UNCHANGED <<pod, call, models, started, kept>> /\ (Opened' <=> Opened)
  <2>1. UNCHANGED <<pod, call, models, started, kept>>
    BY DEF Poll, ReadPolled, vars, decider, policy, Learn, HandOver, UpdateFails
  <2> QED BY <1>1, <2>1 DEF Opened, PodsOf
<1>3. CASE UNCHANGED <<known, seen>>
  BY <1>1, <1>2, <1>3, PodIsPair DEF Estimates, Taught, Measured, KeptInTurn, Reading, ReadAfter, At, PodsOf, Accepted,
     Teaches
<1>4. CASE ReadPolled
  <2>1. polled \in SUBSET Pod /\ Read(polled)
    BY <1>4 DEF ReadPolled, TypeOK
  <2>2. Taught' /\ Measured' /\ KeptInTurn' /\ Reading'
    BY <1>1, <1>2, <2>1, EstimatesRead
  <2>3. ReadAfter'
    BY <1>1, <1>2, <2>1 DEF Estimates, ReadAfter, Read, At, PodsOf
  <2> QED BY <2>2, <2>3 DEF Estimates
<1> QED BY <1>3, <1>4 DEF Poll, vars, decider, observer, Learn, HandOver, UpdateFails

LEMMA EstimatesSettle ==
    ASSUME Settled, CallsOver, Estimates, NEW c \in Call, SettleStep(c), UNCHANGED kexp
    PROVE  Estimates'
<1>. Before \in Call /\ After \in Call /\ Before # After /\ run \in Run /\ TypeOK /\ Turns
  BY TurnCalls DEF Settled, Core
<1>1. UNCHANGED <<run, stage, status>> /\ Before' = Before /\ After' = After
  BY DEF kexp, Before, After
<1>2. UNCHANGED <<pod, models, started>> /\ (Opened' <=> Opened) /\ \A d \in Call : d # c => call'[d] = call[d]
  BY SettleFrame, SettleTurn
<1>3. call[c] \in CallState /\ call'[c] \in CallState /\ call[c].at \notin {"returned", "failed"} /\ Current(c)
  BY SettleMoves, AbsenceAssumption DEF CallsOver
<1>4. \A r \in Run : (Accepted(r)' <=> Accepted(r)) /\ (Teaches(r)' <=> Teaches(r))
  BY <1>1, <1>2 DEF Accepted, Teaches
<1>5. stage = "settling" => ~Opened /\ \A p \in PodsOf(run) : p \in Pod /\ p \notin seen
  <2>1. stage = "settling" => \A p \in PodsOf(run) : p \in Pod /\ pod[p] = "none"
    BY PodIsPair DEF Turns, PodsInTurn
  <2> QED BY <2>1 DEF Opened, Active, Settled, Happened, Over
<1>6. \A r \in Run : <<r, "before">> \in Call /\ (Accepted(r) => <<r, "before">> # c)
  <2>1. \A r \in Run : <<r, "before">> \in Call
    BY PodIsPair DEF Moment
  <2>2. \A r \in Run : Accepted(r) => r # run
    BY <1>3, TurnCalls DEF Current, Accepted
  <2>3. \A r \in Run : r # run => <<r, "before">> # c
    BY <1>3 DEF Current, Before, After
  <2> QED BY <2>1, <2>2, <2>3
<1>7. CASE SettlePoll(c) \/ SettleClose(c) \/ SettleWait(c)
  <2>1. UNCHANGED <<known, kept, seen>> /\ call'[c].kept = call[c].kept /\ call'[c].at # "returned"
    <3>1. ~SettleRead(c) /\ ~SettleKept(c)
      BY <1>7 DEF SettlePoll, SettleClose, SettleWait, SettleRead, SettleKept, At
    <3> QED BY <3>1, SettleFrame, SettleMoves
  <2>2. Taught' /\ Measured'
    BY <1>2, <1>4, <1>6, <2>1, PodIsPair DEF Estimates, Taught, Measured
  <2>3. KeptInTurn'
    BY <1>1, <1>2, <1>3, <1>5, <2>1 DEF Estimates, KeptInTurn, Current, At, PodsOf
  <2>4. Reading'
    BY <1>1, <1>2, <2>1 DEF Estimates, Reading, PodsOf
  <2>5. ReadAfter'
    <3>1. CASE stage = "learning" /\ status[run] = "complete"
      <4>1. c = After /\ PodsOf(run) \subseteq Pod
        BY <1>3, <3>1, PodIsPair DEF Current
      <4>2. SettlePoll(c) => PodsOf(run) \subseteq Succeeded
        <5>1. \A p \in PodsOf(run) : pod[p] = "succeeded"
          BY <3>1 DEF Settled, Happened, Turns, StatusInTurn, Active
        <5> QED BY <4>1, <5>1 DEF Succeeded
      <4>3. /\ call[c].at = "polling" => call'[c].at = "reading" /\ call'[c].listed = Succeeded
            /\ call[c].at = "closing" => call'[c].at = "waiting"
            /\ call[c].at = "waiting" => call'[c].at \in {"failed", "finishing"}
            /\ call[c].at \in {"polling", "closing", "waiting"}
            /\ call[c].at = "polling" => SettlePoll(c)
        BY <1>7, SettleMoves DEF SettlePoll, SettleClose, SettleWait, SettleRead, SettleKept, At
      <4> QED BY <1>1, <1>2, <2>1, <3>1, <4>1, <4>2, <4>3 DEF Estimates, ReadAfter, At, PodsOf
    <3>2. CASE ~(stage = "learning" /\ status[run] = "complete")
      BY <1>1, <3>2 DEF ReadAfter
    <3> QED BY <3>1, <3>2
  <2> QED BY <2>2, <2>3, <2>4, <2>5 DEF Estimates
<1>8. CASE SettleRead(c)
  <2>1. /\ call[c].listed \in SUBSET Pod /\ Read(call[c].listed) /\ UNCHANGED kept
        /\ call[c].at = "reading" /\ call'[c].at = "closing" /\ call'[c].kept = call[c].kept
    <3>1. ~SettleKept(c) /\ call[c].at = "reading"
      BY <1>8 DEF SettleRead, SettleKept, At
    <3>2. call'[c].at = "closing"
      BY <3>1, SettleMoves
    <3> QED BY <1>3, <1>8, <3>1, <3>2, SettleFrame, SettleMoves DEF CallState
  <2>2. \A d \in Call : /\ call'[d].kept = call[d].kept
                        /\ At(d, "returned")' <=> At(d, "returned")
    BY <1>2, <1>3, <2>1 DEF At
  <2>3. Taught' /\ Measured' /\ KeptInTurn' /\ Reading'
    BY <1>1, <1>2, <1>6, <2>1, <2>2, EstimatesRead
  <2>4. ReadAfter'
    <3>1. CASE c = After /\ status[run] = "complete" /\ stage = "learning"
      <4>1. At(c, "reading") /\ seen' = seen \cup call[c].listed
        BY <1>3, <2>1, AbsenceAssumption DEF At, Read
      <4>2. PodsOf(run) \subseteq seen' /\ started
        BY <3>1, <4>1 DEF Estimates, ReadAfter, At
      <4> QED BY <1>1, <1>2, <2>1, <3>1, <4>2 DEF ReadAfter, At, PodsOf
    <3>2. CASE ~(status[run] = "complete" /\ stage = "learning")
      BY <1>1, <3>2 DEF ReadAfter
    <3> QED BY <1>3, <3>1, <3>2 DEF Current
  <2> QED BY <2>3, <2>4 DEF Estimates
<1>9. CASE SettleKept(c)
  <2>1. /\ known' = IF kept # NoKept THEN kept ELSE known
        /\ kept' = IF Phase(c[1], c[2]) = "valid" THEN (IF kept = NoKept THEN known ELSE kept)
                   ELSE IF Phase(c[1], c[2]) = "" THEN kept ELSE NoKept
        /\ UNCHANGED seen /\ call[c].at = "finishing"
        /\ call'[c].at = "returned" /\ call'[c].kept = (kept' # NoKept)
    <3>1. call[c].at = "finishing"
      BY <1>9 DEF SettleKept, At
    <3> QED BY <1>9, <3>1, KeptMoves, SettleMoves
  <2>2. Taught'
    BY <1>4, <2>1, PodIsPair DEF Estimates, Taught
  <2>3. Measured'
    <3> SUFFICES ASSUME NEW p \in Pod, p[1] \in Valid, Accepted(p[1])', call'[<<p[1], "before">>].kept
                 PROVE  p \in seen' /\ (IF kept' = NoKept THEN known'[p] = 0 ELSE kept'[p] = 0)
      BY DEF Measured
    <3>1. p[1] \in Run /\ Accepted(p[1])
      BY <1>4, PodIsPair
    <3>2. <<p[1], "before">> \in Call /\ <<p[1], "before">> # c
      BY <1>6, <3>1
    <3>3. call[<<p[1], "before">>].kept
      BY <1>2, <3>2
    <3>4. p \in seen /\ (IF kept = NoKept THEN known[p] = 0 ELSE kept[p] = 0)
      BY <3>1, <3>3 DEF Estimates, Measured
    <3> QED BY <2>1, <3>4
  <2>4. CASE stage = "settling" /\ c = Before
    <3>1. Phase(c[1], c[2]) = IF run \in Valid THEN "valid" ELSE IF run \in Frozen THEN "eval" ELSE "train"
      BY <2>4 DEF Phase, Before
    <3>2. run \notin Valid => kept' = NoKept
      BY <2>1, <3>1
    <3>3. run \in Valid => kept' # NoKept /\ \A p \in PodsOf(run) : kept'[p] = 0
      <4>1. \A p \in PodsOf(run) : known[p] = 0 /\ (kept # NoKept => kept[p] = 0)
        <5>1. \A p \in PodsOf(run) : p \in Pod /\ p \notin seen
          BY <1>5, <2>4
        <5>2. \A p \in PodsOf(run) : known[p] \in Nat /\ (kept # NoKept => kept[p] \in Nat)
          BY <5>1 DEF TypeOK
        <5> QED BY <5>1, <5>2 DEF Settled, Once
      <4>2. known # NoKept
        BY AbsenceAssumption DEF TypeOK
      <4> QED BY <2>1, <3>1, <4>1, <4>2
    <3>4. KeptInTurn' /\ Reading' /\ ReadAfter'
      BY <1>1, <1>2, <1>5, <2>1, <2>4, <3>2, <3>3 DEF KeptInTurn, Reading, ReadAfter, PodsOf
    <3> QED BY <2>2, <2>3, <3>4 DEF Estimates
  <2>5. CASE stage = "learning" /\ c = After
    <3>1. kept' = kept
      BY <2>1, <2>5 DEF Phase, After
    <3>2. KeptInTurn'
      BY <1>1, <1>2, <2>5, <3>1 DEF Estimates, KeptInTurn, At, PodsOf
    <3>3. Reading'
      BY <1>1, <1>2, <2>1, <2>5, <3>1 DEF Estimates, KeptInTurn, Reading, PodsOf
    <3>4. ReadAfter'
      BY <1>1, <1>2, <1>3, <2>1, <2>5 DEF Estimates, ReadAfter, At, PodsOf
    <3> QED BY <2>2, <2>3, <3>2, <3>3, <3>4 DEF Estimates
  <2> QED BY <1>3, <2>4, <2>5 DEF Current
<1> QED BY <1>7, <1>8, <1>9 DEF SettleStep

Undisturbed == Calm => CallsOver /\ Unasked /\ Estimates

LEMMA UndisturbedInvariant == Spec => [](Settled /\ Undisturbed)
<1>1. Init => Undisturbed
  <2> SUFFICES ASSUME Init PROVE CallsOver /\ Unasked /\ Estimates
    BY DEF Undisturbed
  <2>. TypeOK /\ Turns
    BY TypeInit, TurnsInit
  <2>1. /\ stage = "idle" /\ run = 1 /\ 1 \in Run /\ models = [r \in Run |-> {}]
        /\ call = [c \in Call |-> NoCall] /\ status = [r \in Run |-> "none"]
    BY RunsInOrder DEF Init, LearnerInit
  <2>2. ~Opened /\ \A r \in Run : ~Accepted(r)
    BY <2>1 DEF Opened, Turns, PodsInTurn, PodsOf, Active, Accepted
  <2> QED BY <2>1, <2>2, PodIsPair DEF CallsOver, Unasked, Estimates, Taught, Measured, KeptInTurn, Reading, ReadAfter
<1>2. Settled /\ Undisturbed /\ [Next]_vars => Undisturbed'
  <2> SUFFICES ASSUME Settled, Undisturbed, [Next]_vars, Calm' PROVE CallsOver' /\ Unasked' /\ Estimates'
    BY DEF Undisturbed
  <2>1. Calm /\ ~Restart
    BY CalmBack DEF Settled, Core
  <2>2. UNCHANGED vars => UNCHANGED kexp
    BY DEF vars
  <2>3. CallsOver' /\ Unasked'
    BY <2>1, CallsOverNext, UnaskedNext DEF Settled, Undisturbed
  <2>4. CASE Kexp
    BY <2>1, <2>3, <2>4, EstimatesKexp DEF Undisturbed
  <2>5. CASE UNCHANGED kexp /\ Pods
    BY <2>1, <2>3, <2>5, EstimatesPods DEF Undisturbed
  <2>6. ASSUME NEW c \in Call, SettleStep(c), UNCHANGED kexp PROVE Estimates'
    BY <2>1, <2>6, EstimatesSettle DEF Undisturbed
  <2>7. CASE /\ UNCHANGED kexp
             /\ \/ Poll \/ ReadPolled \/ UNCHANGED vars
                \/ \E k \in DOMAIN updates : Learn(k) \/ HandOver(k) \/ UpdateFails(k)
    BY <2>1, <2>3, <2>7, EstimatesDecider DEF Undisturbed
  <2> QED BY <2>1, <2>2, <2>3, <2>4, <2>5, <2>6, <2>7, StepCases
<1> QED BY <1>1, <1>2, CoreInvariant, OnceInvariant, WindowInvariant, HappenedInvariant, PTL DEF Spec, Settled

\* kaptain.py 648-650: as long as the decider has not restarted and kexp has given up no settle call, a run
\* that is not a validation goes on from the estimates of every training and evaluation before it, and
\* of no validation.
THEOREM EstimatesFollow == Spec => [](Calm => EstimatesGoOn)
<1>1. Settled /\ Undisturbed => (Calm => EstimatesGoOn)
  <2> SUFFICES ASSUME Settled, Undisturbed, Calm, stage = "running", run \notin Valid,
                      NEW p \in Pod, status[p[1]] = "complete"
               PROVE  /\ Teaches(p[1]) => known[p] = 1
                      /\ p[1] \in Valid /\ call[<<p[1], "before">>].kept => known[p] = 0
    BY DEF EstimatesGoOn
  <2>1. p[1] \in Run /\ p[1] \in Nat /\ run \in Nat
    BY PodIsPair, RunsInOrder, TurnCalls DEF Settled, Core
  <2>2. Accepted(p[1])
    BY <2>1 DEF Accepted, Settled, Core, Turns, StatusInTurn
  <2>3. kept = NoKept
    BY DEF Undisturbed, Estimates, KeptInTurn, Opened
  <2> QED BY <2>2, <2>3 DEF Undisturbed, Estimates, Taught, Measured
<1> QED BY <1>1, UndisturbedInvariant, PTL

-----------------------------------------------------------------------------
(* The network, from one run to the next.                                  *)

\* Nothing is learned, or waits to be learned, from a run r or after it.
LearnedUpTo(r) ==
    /\ \A k \in DOMAIN updates : updates[k].run < r
    /\ \A k \in DOMAIN trained : trained[k] < r
    /\ \A k \in DOMAIN net : net[k] < r

\* Until its pods are placed a run has taught nothing, and no later one has.
Past ==
    /\ \A p \in episode : p[1] < run + 1 /\ (stage \in {"idle", "settling"} => p[1] < run)
    /\ LearnedUpTo(run + 1)
    /\ stage \in {"idle", "settling", "running"} => LearnedUpTo(run)

LEMMA PastNext == Core /\ Past /\ [Next]_vars => Past'
<1> SUFFICES ASSUME Core, Past, [Next]_vars PROVE Past'
  OBVIOUS
<1>. TypeOK /\ Turns /\ EpisodeInTurn /\ run \in Nat /\ run \in Run
  BY TurnCalls DEF Core
<1>0. /\ updates \in Seq(Update) /\ \A k \in DOMAIN updates : updates[k].run \in Nat
      /\ trained \in Seq(Nat) /\ net \in Seq(Nat)
  <2>1. Run \ Frozen \subseteq Nat
    BY RunsInOrder
  <2>2. updates \in Seq(Update) /\ trained \in Seq(Run \ Frozen) /\ net \in Seq(Run \ Frozen)
    BY DEF TypeOK, Update
  <2>3. trained \in Seq(Nat) /\ net \in Seq(Nat)
    BY <2>1, <2>2
  <2>4. \A k \in DOMAIN updates : updates[k] \in Update
    BY <2>2
  <2> QED BY <2>1, <2>2, <2>3, <2>4 DEF Update
<1>1. CASE Kexp
  <2>1. UNCHANGED <<episode, updates, trained, net>>
    BY <1>1, KexpFrame DEF learner
  <2>2. \/ run' = run + 1 /\ Leave /\ run + 1 \in Nat
        \/ run' = run /\ (stage' \in {"idle", "settling"} => stage \in {"idle", "settling"})
           /\ (stage' = "running" => stage = "settling")
    BY <1>1 DEF Kexp, StartRun, CreatePods, Refuse, EndPods, Cancel, CheckLearned, Unsettled, Leave
  <2>3. \A p \in episode : p[1] \in Nat
    BY PodIsPair, RunsInOrder DEF TypeOK, PodsOf
  <2>4. CASE run' = run + 1
    <3>1. LearnedUpTo(run + 2)
      BY <1>0 DEF Past, LearnedUpTo
    <3> QED BY <2>1, <2>3, <2>4, <3>1 DEF Past, LearnedUpTo
  <2> QED BY <2>1, <2>2, <2>4 DEF Past, LearnedUpTo
<1>2. CASE Pods /\ UNCHANGED kexp
  <2>1. UNCHANGED <<run, stage, trained, net, updates>>
    BY <1>2, DecideInTurn DEF kexp, Pods, Decide, PlaceUnseen, Finish, decider, learner, policy
  <2>2. ASSUME NEW p \in Pod, Decide(p) PROVE Past'
    <3>1. p[1] = run /\ stage \notin {"idle", "settling"} /\ episode' \in {episode, episode \cup {p}}
      BY <2>2, DecideInTurn DEF Decide, Turns, PodsInTurn, Active
    <3> QED BY <2>1, <3>1 DEF Past, LearnedUpTo
  <2>3. CASE UNCHANGED decider
    BY <2>1, <2>3 DEF decider, policy, Past, LearnedUpTo
  <2> QED BY <1>2, <2>2, <2>3 DEF Pods, PlaceUnseen, Finish
<1>3. CASE UNCHANGED kexp /\ (Poll \/ ReadPolled \/ UNCHANGED vars)
  <2>1. UNCHANGED <<run, stage, episode, updates, trained, net>>
    BY <1>3 DEF Poll, ReadPolled, vars, decider, policy, learner, kexp
  <2> QED BY <2>1 DEF Past, LearnedUpTo
<1>4. ASSUME NEW k \in DOMAIN updates, Learn(k) \/ HandOver(k) \/ UpdateFails(k), UNCHANGED kexp PROVE Past'
  <2>1. /\ DOMAIN updates' = DOMAIN updates /\ \A j \in DOMAIN updates : updates'[j].run = updates[j].run
        /\ UNCHANGED <<episode, run, stage>>
    <3>1. PICK s \in {"learned", "done", "failed"} : Advance(k, s)
      BY <1>4 DEF Learn, HandOver, UpdateFails
    <3>2. /\ DOMAIN updates' = DOMAIN updates /\ updates'[k].run = updates[k].run
          /\ \A j \in DOMAIN updates : j # k => updates'[j] = updates[j]
      BY <3>1, AdvanceType DEF Advance
    <3>3. UNCHANGED <<episode, run, stage>>
      BY <1>4 DEF Learn, HandOver, UpdateFails, kexp
    <3> QED BY <3>2, <3>3
  <2>2. CASE Learn(k)
    <3>1. trained' = Append(trained, updates[k].run) /\ net' = net
      BY <2>2 DEF Learn
    <3>2. \A r \in Nat : LearnedUpTo(r) => \A j \in DOMAIN trained' : trained'[j] < r
      BY SMTT(20), <1>0, <3>1 DEF LearnedUpTo
    <3> QED BY <2>1, <3>1, <3>2 DEF Past, LearnedUpTo
  <2>3. CASE HandOver(k)
    BY <2>1, <2>3 DEF HandOver, Past, LearnedUpTo
  <2>4. CASE UpdateFails(k)
    BY <2>1, <2>4 DEF UpdateFails, Past, LearnedUpTo
  <2> QED BY <1>4, <2>2, <2>3, <2>4
<1>5. ASSUME NEW c \in Call, SettleStep(c), UNCHANGED kexp PROVE Past'
  <2>1. UNCHANGED <<run, stage, trained, net>>
    BY <1>5, SettleFrame DEF kexp, learner
  <2>2. CASE SettleClose(c) /\ episode # {}
    <3>1. stage # "running"
      BY <1>5, <2>2, SettleTurn DEF SettleClose, At, Current
    <3>2. PICK r \in Run \ Frozen : episode \subseteq PodsOf(r)
      BY <2>2 DEF TypeOK
    <3>3. PICK p \in episode : p[1] = r /\ r \in Nat
      BY <2>2, <3>2, RunsInOrder DEF PodsOf
    <3>4. RunOf(episode) = r /\ episode' = {} /\ updates' = Closed
      BY <1>5, <2>2, <3>2, EpisodeRun, SettleFrame
    <3>5. /\ DOMAIN updates' = 1 .. (Len(updates) + 1) /\ DOMAIN updates = 1 .. Len(updates) /\ Len(updates) \in Nat
          /\ \A k \in DOMAIN updates : updates'[k] = updates[k]
          /\ updates'[Len(updates) + 1].run = r
      BY <1>0, <2>2, <3>4, ClosedUpdates
    <3> QED BY <2>1, <3>1, <3>3, <3>4, <3>5 DEF Past, LearnedUpTo
  <2>3. CASE ~(SettleClose(c) /\ episode # {})
    <3>1. UNCHANGED <<episode, updates>>
      BY <1>5, <2>3, SettleFrame
    <3> QED BY <2>1, <3>1 DEF Past, LearnedUpTo
  <2> QED BY <2>2, <2>3
<1>6. CASE Restart
  BY <1>6, RestartForgets DEF Past, LearnedUpTo
<1>7. UNCHANGED vars => UNCHANGED kexp
  BY DEF vars
<1> QED BY <1>1, <1>2, <1>3, <1>4, <1>5, <1>6, <1>7, StepCases

Without(s) == \A k \in DOMAIN s : s[k] # run

\* The run's episode is not closed yet: all is as the settle before the run has told.
Unsent == AllDone /\ ~failure /\ Without(net) /\ episodes = Told

\* The run's episode is the last update, and the learner is at it, or has done it.
Sent ==
    /\ updates # <<>>
    /\ \A k \in 1 .. (Len(updates) - 1) : updates[k].status = "done"
    /\ updates[Len(updates)].run = run
    /\ LET last == updates[Len(updates)].status
       IN  \/ last = "queued" /\ trained = net /\ Without(net) /\ episodes = Told
           \/ last = "learned" /\ trained = Append(net, run) /\ Without(net) /\ episodes = Told
           \/ last = "done" /\ Updates(run) = 1 /\ episodes = Told + 1
           \/ last = "failed" /\ failure

\* What the settle after a complete training run finds and answers.
Counted ==
    stage = "learning" /\ status[run] = "complete" /\ run \notin Frozen =>
        /\ call[After].at \in {"polling", "reading", "closing"} => Unsent
        /\ call[After].at = "waiting" => call[After].update = Len(updates) /\ (Unsent \/ Sent)
        /\ call[After].at \in {"finishing", "returned"} => AllDone /\ ~failure /\ (Unsent \/ Sent)
        /\ call[After].at = "returned" => call[After].episodes = episodes

LEMMA CountedKexp ==
    ASSUME Settled, Past, restarts = 0, Kexp
    PROVE  Counted'
<1>. Before \in Call /\ After \in Call /\ Before # After /\ run \in Run /\ run \in Nat /\ TypeOK
  BY TurnCalls DEF Settled, Core
<1>1. SUFFICES ASSUME stage' = "learning" PROVE Counted'
  BY DEF Counted
<1>2. EndPods
  BY <1>1 DEF Kexp, StartRun, CreatePods, Refuse, Cancel, CheckLearned, Unsettled, Leave
<1>3. SettleStart(After) /\ stage = "running" /\ run' = run /\ After' = After /\ Before' = Before
  BY <1>2 DEF EndPods, After, Before
<1>4. UNCHANGED <<updates, failure, net, episodes>>
  BY KexpFrame DEF learner
<1>5. call'[After].at \in {"polling", "returned", "failed"} /\ call'[After].episodes = episodes /\ Told' = Told
  BY <1>3, SettleStarts, StartsAlone DEF Told
<1>6. Unsent
  BY <1>3 DEF Settled, Core, Quiet, Window, Opened, Past, LearnedUpTo, Without, Unsent
<1>7. Unsent'
  BY <1>3, <1>4, <1>5, <1>6 DEF Unsent, AllDone, Without
<1> QED BY <1>3, <1>4, <1>5, <1>6, <1>7 DEF Counted, Unsent

\* One more update of the run than none.
LEMMA OneUpdate ==
    ASSUME NEW s, s \in Seq(Run), NEW r \in Run, \A k \in DOMAIN s : s[k] # r
    PROVE  Cardinality({k \in DOMAIN Append(s, r) : Append(s, r)[k] = r}) = 1
<1>1. /\ Len(s) \in Nat /\ DOMAIN Append(s, r) = 1 .. (Len(s) + 1) /\ Append(s, r)[Len(s) + 1] = r
      /\ \A k \in 1 .. Len(s) : Append(s, r)[k] = s[k] /\ k \in DOMAIN s
  OBVIOUS
<1>2. {k \in DOMAIN Append(s, r) : Append(s, r)[k] = r} = {Len(s) + 1}
  BY <1>1
<1> QED BY <1>2, FS_Singleton

LEMMA CountedLearner ==
    ASSUME Settled, Counted, NEW k \in DOMAIN updates, Learn(k) \/ HandOver(k) \/ UpdateFails(k), UNCHANGED kexp
    PROVE  Counted'
<1>. Before \in Call /\ After \in Call /\ run \in Run /\ TypeOK
  BY TurnCalls DEF Settled, Core
<1>1. UNCHANGED <<run, stage, status, call>> /\ Before' = Before /\ After' = After /\ Told' = Told
  BY DEF kexp, Before, After, Told, Learn, HandOver, UpdateFails
<1>2. SUFFICES ASSUME stage = "learning", status[run] = "complete", run \notin Frozen,
                      call[After].at \notin {"failed"}
               PROVE  Counted'
  BY <1>1 DEF Counted
<1>3. ~AllDone
  BY AllDoneRests
<1>4. SUFFICES ASSUME call[After].at = "waiting"
               PROVE  Len(updates') = Len(updates) /\ Sent'
  BY <1>1, <1>2, <1>3 DEF Counted, Unsent
<1>5. Sent
  BY <1>2, <1>3, <1>4 DEF Counted, Unsent
<1>6. /\ Len(updates) \in Nat /\ DOMAIN updates = 1 .. Len(updates) /\ Len(updates) # 0
      /\ net \in Seq(Run) /\ trained \in Seq(Run)
  BY DEF TypeOK
<1>7. k = Len(updates)
  <2>1. updates[k].status \in {"queued", "learned"}
    BY DEF Learn, HandOver, UpdateFails, Turn
  <2> QED BY <1>5, <1>6, <2>1 DEF Sent
<1>8. PICK s \in {"learned", "done", "failed"} :
        /\ Advance(k, s)
        /\ s = "learned" => /\ updates[k].status = "queued" /\ trained' = Append(trained, updates[k].run)
                            /\ UNCHANGED <<net, episodes, failure>>
        /\ s = "done" => /\ updates[k].status = "learned" /\ net' = trained /\ episodes' = episodes + 1
                         /\ UNCHANGED <<trained, failure>>
        /\ s = "failed" => failure'
  BY DEF Learn, HandOver, UpdateFails, Turn
<1>9. /\ Len(updates') = Len(updates) /\ updates'[k].run = updates[k].run /\ updates'[k].status = s
      /\ \A j \in DOMAIN updates : j # k => updates'[j] = updates[j]
      /\ updates' # <<>>
  <2>1. updates' \in Seq(Update) /\ Len(updates') = Len(updates)
    BY <1>8, AdvanceType
  <2> QED BY <1>6, <1>8, <2>1, AdvanceType
<1>10. \A j \in 1 .. (Len(updates') - 1) : updates'[j].status = "done"
  BY <1>5, <1>6, <1>7, <1>9 DEF Sent
<1>11. CASE s = "learned"
  BY <1>1, <1>5, <1>7, <1>8, <1>9, <1>10, <1>11 DEF Sent, Without
<1>12. CASE s = "done"
  <2>1. trained = Append(net, run) /\ Without(net) /\ episodes = Told
    BY <1>5, <1>7, <1>8, <1>12 DEF Sent
  <2>2. Updates(run)' = 1
    BY <1>1, <1>6, <1>8, <1>12, <2>1, OneUpdate DEF Updates, Without
  <2> QED BY <1>1, <1>5, <1>7, <1>8, <1>9, <1>10, <1>12, <2>1, <2>2 DEF Sent
<1>13. CASE s = "failed"
  BY <1>1, <1>5, <1>7, <1>8, <1>9, <1>10, <1>13 DEF Sent
<1> QED BY <1>9, <1>11, <1>12, <1>13

LEMMA CountedSettle ==
    ASSUME Settled, CallsOver, Counted, NEW c \in Call, SettleStep(c), UNCHANGED kexp
    PROVE  Counted'
<1>. Before \in Call /\ After \in Call /\ Before # After /\ run \in Run /\ TypeOK /\ Turns
  BY TurnCalls DEF Settled, Core
<1>1. UNCHANGED <<run, stage, status>> /\ Before' = Before /\ After' = After
  BY DEF kexp, Before, After
<1>2. UNCHANGED <<net, trained, episodes, failure>> /\ \A d \in Call : d # c => call'[d] = call[d]
  BY SettleFrame, SettleTurn DEF learner
<1>3. call[c] \in CallState /\ call[c].at \notin {"returned", "failed"} /\ Current(c)
  BY SettleMoves, AbsenceAssumption DEF CallsOver
<1>4. SUFFICES ASSUME stage = "learning", status[run] = "complete", run \notin Frozen PROVE Counted'
  BY <1>1 DEF Counted
<1>5. c = After /\ Told' = Told /\ Opened
  BY <1>1, <1>2, <1>3, <1>4 DEF Current, Told, Opened
<1>6. UNCHANGED updates => (Unsent' <=> Unsent) /\ (Sent' <=> Sent) /\ (AllDone' <=> AllDone)
  BY <1>1, <1>2, <1>5 DEF Unsent, Sent, AllDone, Without, Updates
<1>7. CASE SettlePoll(c) \/ SettleRead(c)
  <2>1. UNCHANGED updates /\ call'[c].at \in {"reading", "closing"} /\ call[c].at \in {"polling", "reading"}
    <3>1. ~SettleClose(c) /\ ~SettleWait(c) /\ ~SettleKept(c)
      BY <1>7 DEF SettlePoll, SettleRead, SettleClose, SettleWait, SettleKept, At
    <3> QED BY <3>1, SettleFrame, SettleMoves
  <2> QED BY <1>1, <1>2, <1>4, <1>5, <1>6, <2>1 DEF Counted
<1>8. CASE SettleClose(c)
  <2>1. call[c].at = "closing"
    BY <1>8 DEF SettleClose, At
  <2>2. call'[c].at = "waiting" /\ call'[c].update = Len(updates')
    BY <2>1, SettleMoves
  <2>3. Unsent
    BY <1>4, <1>5, <2>1 DEF Counted
  <2>4. CASE episode = {}
    BY <1>1, <1>2, <1>4, <1>5, <1>6, <1>8, <2>2, <2>3, <2>4, SettleFrame DEF Counted
  <2>5. CASE episode # {}
    <3>1. RunOf(episode) = run /\ updates' = Closed
      BY <1>5, <1>8, <2>5, EpisodeRun, SettleFrame DEF Settled, Core, EpisodeInTurn
    <3>2. /\ Len(updates) \in Nat /\ DOMAIN updates = 1 .. Len(updates) /\ Len(updates') = Len(updates) + 1
          /\ \A k \in DOMAIN updates : updates'[k] = updates[k]
          /\ updates'[Len(updates')].run = run /\ updates'[Len(updates')].status = "queued"
      BY <2>5, <3>1, ClosedUpdates DEF TypeOK
    <3>3. trained = net
      BY <2>3 DEF Unsent, AllDone, Settled, Core, Learned, NetFollows
    <3>4. updates' # <<>> /\ \A k \in 1 .. (Len(updates') - 1) : updates'[k].status = "done"
      BY <2>3, <3>2 DEF Unsent, AllDone
    <3>5. Sent'
      BY <1>1, <1>2, <1>5, <2>3, <3>2, <3>3, <3>4 DEF Sent, Unsent, Without
    <3> QED BY <1>1, <1>5, <2>2, <3>5 DEF Counted
  <2> QED BY <2>4, <2>5
<1>9. CASE SettleWait(c)
  <2>1. call[c].at = "waiting" /\ ~SettleClose(c) /\ ~SettleKept(c)
    BY <1>9 DEF SettleWait, SettleClose, SettleKept, At
  <2>2. UNCHANGED updates /\ call'[c].at = IF failure THEN "failed" ELSE "finishing"
    BY <2>1, SettleFrame, SettleMoves
  <2>3. call[c].update = Len(updates) /\ (Unsent \/ Sent)
    BY <1>4, <1>5, <2>1 DEF Counted
  <2>4. ~failure => AllDone
    BY <1>9, <2>3, WaitOver DEF Settled, Core
  <2> QED BY <1>1, <1>2, <1>5, <1>6, <2>2, <2>3, <2>4 DEF Counted
<1>10. CASE SettleKept(c)
  <2>1. call[c].at = "finishing" /\ ~SettleClose(c)
    BY <1>10 DEF SettleClose, SettleKept, At
  <2>2. UNCHANGED updates /\ call'[c].at = "returned" /\ call'[c].episodes = episodes
    BY <2>1, SettleFrame, SettleMoves
  <2> QED BY <1>1, <1>2, <1>4, <1>5, <1>6, <2>1, <2>2 DEF Counted
<1> QED BY <1>7, <1>8, <1>9, <1>10 DEF SettleStep

LEMMA CountedRest ==
    ASSUME Settled, Counted, UNCHANGED kexp, Pods \/ Poll \/ ReadPolled \/ UNCHANGED vars
    PROVE  Counted'
<1>. Before \in Call /\ After \in Call
  BY TurnCalls DEF Settled, Core
<1>1. UNCHANGED <<run, stage, status>> /\ Before' = Before /\ After' = After
  BY DEF kexp, Before, After
<1>2. UNCHANGED <<call, updates, trained, net, episodes, failure>>
  <2>1. Pods => UNCHANGED updates
    BY DecideInTurn DEF Pods, Decide, PlaceUnseen, Finish, decider, policy, Settled, Core
  <2>2. Pods => UNCHANGED <<call, trained, net, episodes, failure>>
    BY DEF Pods, Decide, PlaceUnseen, Finish, decider, learner
  <2>3. Poll \/ ReadPolled \/ UNCHANGED vars => UNCHANGED <<call, updates, trained, net, episodes, failure>>
    BY DEF Poll, ReadPolled, vars, decider, policy, learner
  <2> QED BY <2>1, <2>2, <2>3
<1> QED BY <1>1, <1>2 DEF Counted, Unsent, Sent, AllDone, Without, Updates, Told

Numbered == Past /\ (Calm => Counted)

LEMMA NumberedInvariant == Spec => []Numbered
<1>1. Init => Numbered
  <2> SUFFICES ASSUME Init PROVE Numbered
    OBVIOUS
  <2>1. episode = {} /\ updates = <<>> /\ trained = <<>> /\ net = <<>> /\ stage = "idle"
    BY DEF Init, LearnerInit
  <2> QED BY <2>1 DEF Numbered, Past, LearnedUpTo, Counted
<1>2. Settled /\ Undisturbed /\ Numbered /\ [Next]_vars => Numbered'
  <2> SUFFICES ASSUME Settled, Undisturbed, Numbered, [Next]_vars PROVE Numbered'
    OBVIOUS
  <2>1. Past'
    BY PastNext DEF Settled, Numbered
  <2>2. ASSUME Calm' PROVE Counted'
    <3>1. Calm /\ restarts = 0 /\ ~Restart /\ CallsOver /\ Past /\ Counted
      BY <2>2, CalmBack DEF Settled, Core, Undisturbed, Numbered, Calm
    <3>2. UNCHANGED vars => UNCHANGED kexp
      BY DEF vars
    <3> QED BY <3>1, <3>2, CountedKexp, CountedLearner, CountedSettle, CountedRest, StepCases
  <2> QED BY <2>1, <2>2 DEF Numbered
<1> QED BY <1>1, <1>2, UndisturbedInvariant, PTL DEF Spec

\* kexp.py 455-462: as long as the decider has not restarted and kexp has given up no settle call, the
\* count of updates is proof enough: a run accepted has been learned from once if it was a training run,
\* and not at all if it was frozen, and the estimates have every pod of the training.
THEOREM AcceptedLearned == Spec /\ []Calm => AcceptedMeansLearned
<1>1. ASSUME Settled, Undisturbed, Numbered, Calm, [Next]_vars,
             stage = "learning", stage' = "leaving", status'[run] = "complete"
      PROVE  /\ Updates(run) = IF run \in Frozen THEN 0 ELSE 1
             /\ run \in Frozen \/ \A p \in PodsOf(run) : known[p] = 1
  <2>. Before \in Call /\ After \in Call /\ run \in Run /\ TypeOK
    BY <1>1, TurnCalls DEF Settled, Core
  <2>1. Kexp
    BY <1>1, StepCases DEF kexp, vars
  <2>2. run' = run
    BY <1>1, <2>1 DEF Kexp, StartRun, CreatePods, Refuse, EndPods, Cancel, CheckLearned, Unsettled, Leave
  <2>3. status[run] = "complete" /\ At(After, "returned") /\ call[After].episodes = Expected
    <3>1. PICK r \in Run : r = run
      OBVIOUS
    <3>2. Accepted(r)'
      BY <1>1, <2>2, <3>1 DEF Accepted
    <3>3. ~Accepted(r)
      BY <1>1, <3>1, TurnCalls DEF Accepted
    <3> QED BY <1>1, <2>1, <3>2, <3>3, AcceptedKexp DEF Settled, Core
  <2>4. run \in Frozen => Updates(run) = 0
    <3>1. run \in Frozen => {k \in DOMAIN net : net[k] = run} = {}
      <4>1. \A k \in DOMAIN net : net[k] \in Run \ Frozen
        BY DEF TypeOK
      <4> QED BY <4>1
    <3> QED BY <3>1, FS_EmptySet DEF Updates
  <2>5. run \notin Frozen => Updates(run) = 1
    <3>1. SUFFICES ASSUME run \notin Frozen PROVE Updates(run) = 1
      OBVIOUS
    <3>2. AllDone /\ ~failure /\ (Unsent \/ Sent) /\ call[After].episodes = episodes
      BY <1>1, <2>3, <3>1 DEF Numbered, Counted, At
    <3>3. episodes = Told + 1 /\ Told \in Nat
      <4>1. before = Told /\ before \in Nat
        BY <1>1 DEF Settled, Window, TypeOK
      <4> QED BY <2>3, <3>1, <3>2, <4>1 DEF Expected
    <3>4. Sent
      BY <3>2, <3>3 DEF Unsent
    <3>5. updates[Len(updates)].status = "done"
      <4>1. Len(updates) \in DOMAIN updates
        BY <3>4 DEF Sent, TypeOK
      <4> QED BY <3>2, <4>1 DEF AllDone
    <3> QED BY <3>4, <3>5 DEF Sent
  <2>6. run \notin Frozen => \A p \in PodsOf(run) : known[p] = 1
    <3>1. run \notin Frozen => Teaches(run)
      BY LearnerAssumption DEF Teaches
    <3> QED BY <1>1, <2>3, <3>1, ReadWhenAccepted DEF Undisturbed
  <2> QED BY <2>4, <2>5, <2>6
<1>2. Settled /\ Undisturbed /\ Numbered /\ Calm /\ [Next]_vars =>
        [stage = "learning" /\ stage' = "leaving" /\ status'[run] = "complete" =>
            /\ Updates(run) = IF run \in Frozen THEN 0 ELSE 1
            /\ run \in Frozen \/ \A p \in PodsOf(run) : known[p] = 1]_vars
  BY <1>1
<1> QED BY <1>2, UndisturbedInvariant, NumberedInvariant, PTL DEF Spec, AcceptedMeansLearned

=============================================================================
