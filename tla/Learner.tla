--------------------------------- MODULE Learner ---------------------------------
(***************************************************************************)
(* The decider's learning policy (bridge/strategies/kaptain.py): class     *)
(* Kaptain, the observer it starts (class Cluster), and the settle route   *)
(* of bridge/app.py.                                                       *)
(*                                                                         *)
(* Four kinds of threads meet here: decisions, settle calls, the observer  *)
(* that polls the pods every two seconds, and the learner, which takes one *)
(* update at a time. Each action is what a thread does under a lock, or    *)
(* between two. A network is the sequence of runs it has learned from; an  *)
(* estimate is how often each pod's runtime went into it.                  *)
(***************************************************************************)
EXTENDS Integers, Sequences, FiniteSets

CONSTANTS
    Run,            \* the runs, in their order: 1 .. Runs
    Frozen,         \* the runs whose pods are labelled valid or eval
    Valid,          \* those labelled valid
    Slot,           \* the pods of one run
    NoKept, NoPoll, NoCall,
    MaxFailures,    \* bound: how many updates raise
    MaxRestarts     \* bound: how often the decider restarts

ASSUME LearnerAssumption ==
    /\ IsFiniteSet(Run) /\ Run # {} /\ Run = 1 .. Cardinality(Run)
    /\ Valid \subseteq Frozen /\ Frozen \subseteq Run
    /\ IsFiniteSet(Slot)
    /\ MaxFailures \in Nat /\ MaxRestarts \in Nat

Pod == Run \X Slot

\* The settle calls a run makes, and the phase each passes.
Moment == {"before", "after"}
Call == Run \X Moment

\* A settle call: where it is, the list it polled, the update it waits for, what it answers.
CallState ==
    [at : {"polling", "reading", "closing", "waiting", "finishing", "returned", "failed"},
     listed : SUBSET Pod, update : Nat, episodes : Nat, kept : BOOLEAN]

ASSUME AbsenceAssumption ==
    /\ NoKept \notin [Pod -> Nat]
    /\ \A list \in SUBSET Pod : NoPoll # list
    /\ NoCall \notin CallState

VARIABLES
    pod,         \* pod[p]: none, pending, running, succeeded, or gone with its namespace
    started,     \* whether self.cluster exists
    episode,     \* self.episode: the pods decided in the training run under way
    updates,     \* every update submitted: its run and status; the last is self.update
    trained,     \* the learner's own network
    net,         \* the network that decides
    episodes,    \* self.episodes
    failure,     \* self.failure is set
    known,       \* known[p]: how many times p's runtime is in the estimates
    kept,        \* self.kept: the training's estimates during valid runs
    seen,        \* cluster.seen: the pods learned from
    polled,      \* the list the observer holds between its poll and its read
    call,        \* call[c]: where a settle call is
    models,      \* models[r]: the networks that decided in the frozen run r (history)
    forgotten,   \* the runs the deciding network had learned from when a restart lost it (history)
    failures, restarts

observer == <<known, seen, polled>>
learner  == <<trained, net, episodes, failure, failures>>
policy   == <<started, episode, updates, kept, models>>
decider  == <<observer, learner, policy, call, restarts, forgotten>>

Nothing == [p \in Pod |-> 0]

LearnerInit ==
    /\ pod = [p \in Pod |-> "none"]
    /\ started = FALSE
    /\ known = Nothing /\ seen = {} /\ polled = NoPoll
    /\ trained = <<>> /\ net = <<>> /\ episodes = 0 /\ failure = FALSE
    /\ episode = {} /\ updates = <<>> /\ kept = NoKept
    /\ call = [c \in Call |-> NoCall]
    /\ models = [r \in Run |-> {}]
    /\ failures = 0
    /\ restarts = 0
    /\ forgotten = {}

-----------------------------------------------------------------------------
(* The observer.                                                           *)

Succeeded == {p \in Pod : pod[p] = "succeeded"}

\* Cluster.read without the set of the pods already learned from.
ReadAll(listed) ==
    /\ known' = [p \in Pod |-> known[p] + (IF p \in listed THEN 1 ELSE 0)]
    /\ seen' = seen \cup listed

\* Cluster.read: every pod of the list that has finished and is not seen goes into the estimates.
Read(listed) ==
    /\ known' = [p \in Pod |-> known[p] + (IF p \in listed \ seen THEN 1 ELSE 0)]
    /\ seen' = seen \cup listed

Poll ==
    /\ started /\ polled = NoPoll
    /\ polled' = Succeeded
    /\ UNCHANGED <<pod, known, seen, learner, policy, call, restarts, forgotten>>

ReadPolled ==
    /\ polled # NoPoll
    /\ Read(polled)
    /\ polled' = NoPoll
    /\ UNCHANGED <<pod, learner, policy, call, restarts, forgotten>>

-----------------------------------------------------------------------------
(* Decisions.                                                              *)

RunOf(pods) == CHOOSE r \in Run : \E p \in pods : p[1] = r

\* Ends the training run: its episode goes to the learner.
Closed == Append(updates, [run |-> RunOf(episode), status |-> "queued"])

\* scores that keeps the decisions of a frozen run too.
DecideAndKeep(p) ==
    LET stale == episode # {} /\ RunOf(episode) # p[1]
    IN  /\ pod[p] = "pending"
        /\ started' = TRUE
        /\ updates' = IF stale THEN Closed ELSE updates
        /\ episode' = (IF stale THEN {} ELSE episode) \cup {p}
        /\ models' = IF p[1] \in Frozen THEN [models EXCEPT ![p[1]] = @ \cup {net}] ELSE models
        /\ pod' = [pod EXCEPT ![p] = "running"]
        /\ UNCHANGED <<observer, learner, kept, call, restarts, forgotten>>

\* scores: an episode of another run, or of a run that has ended, is closed first.
Decide(p) ==
    LET r == p[1]
        stale == episode # {} /\ (r \in Frozen \/ RunOf(episode) # r)
        open == IF stale THEN {} ELSE episode
    IN  /\ pod[p] = "pending"
        /\ started' = TRUE
        /\ updates' = IF stale THEN Closed ELSE updates
        /\ episode' = IF r \in Frozen THEN open ELSE open \cup {p}
        /\ models' = IF r \in Frozen THEN [models EXCEPT ![r] = @ \cup {net}] ELSE models
        /\ \/ pod' = [pod EXCEPT ![p] = "running"]
           \/ UNCHANGED pod       \* the binding fails, and the pod is decided again
        /\ UNCHANGED <<observer, learner, kept, call, restarts, forgotten>>

\* The plugin's own fallback places the pod: the policy saw no call, or failed it.
PlaceUnseen(p) ==
    /\ pod[p] = "pending"
    /\ pod' = [pod EXCEPT ![p] = "running"]
    /\ UNCHANGED decider

Finish(p) ==
    /\ pod[p] = "running"
    /\ pod' = [pod EXCEPT ![p] = "succeeded"]
    /\ UNCHANGED decider

-----------------------------------------------------------------------------
(* The learner: a pool of one thread, the updates in their order.          *)

Turn(k, status) ==
    /\ k \in DOMAIN updates
    /\ updates[k].status = status
    /\ \A j \in 1 .. (k - 1) : updates[j].status \in {"done", "failed"}

Advance(k, status) == updates' = [updates EXCEPT ![k].status = status]

\* learn, up to the lock: the learner's own copy has changed.
Learn(k) ==
    /\ Turn(k, "queued")
    /\ trained' = Append(trained, updates[k].run)
    /\ Advance(k, "learned")
    /\ UNCHANGED <<pod, observer, net, episodes, failure, failures, started, episode, kept, models, call, restarts, forgotten>>

\* The weights handed over under the lock, and the update's lines logged.
HandOver(k) ==
    /\ Turn(k, "learned")
    /\ net' = trained
    /\ episodes' = episodes + 1
    /\ Advance(k, "done")
    /\ UNCHANGED <<pod, observer, trained, failure, failures, started, episode, kept, models, call, restarts, forgotten>>

\* learn_safely: the update raises, before, during or after the optimizer's steps.
UpdateFails(k) ==
    /\ failures < MaxFailures
    /\ failures' = failures + 1
    /\ Turn(k, "queued") \/ Turn(k, "learned")
    /\ failure' = TRUE
    /\ Advance(k, "failed")
    /\ UNCHANGED <<pod, observer, trained, net, episodes, started, episode, kept, models, call, restarts, forgotten>>

-----------------------------------------------------------------------------
(* settle, step by step; r is the run whose kexp calls.                    *)

Phase(r, m) ==
    IF m = "after" THEN "" ELSE IF r \in Valid THEN "valid" ELSE IF r \in Frozen THEN "eval" ELSE "train"

At(c, step) == call[c] # NoCall /\ call[c].at = step

Goes(c, step) == call' = [call EXCEPT ![c].at = step]

\* Without a cluster there is nothing to settle: no decision was ever asked. The call fails when
\* the decider does not answer, or its refresh raises: the API server missed once.
SettleStart(c) ==
    /\ call[c] = NoCall
    /\ \E at \in {IF started THEN "polling" ELSE "returned", "failed"} :
          call' = [call EXCEPT ![c] = [at |-> at, listed |-> {}, update |-> 0,
                                       episodes |-> episodes, kept |-> FALSE]]

SettlePoll(c) ==
    /\ At(c, "polling")
    /\ call' = [call EXCEPT ![c].at = "reading", ![c].listed = Succeeded]
    /\ UNCHANGED <<pod, observer, learner, policy, restarts, forgotten>>

SettleRead(c) ==
    /\ At(c, "reading")
    /\ Read(call[c].listed)
    /\ call' = [call EXCEPT ![c].at = "closing", ![c].listed = {}]
    /\ UNCHANGED <<pod, polled, learner, policy, restarts, forgotten>>

SettleClose(c) ==
    /\ At(c, "closing")
    /\ updates' = IF episode # {} THEN Closed ELSE updates
    /\ episode' = {}
    /\ call' = [call EXCEPT ![c].at = "waiting", ![c].update = Len(updates')]
    /\ UNCHANGED <<pod, observer, learner, started, kept, models, restarts, forgotten>>

\* settle that asks only for its own update's outcome.
AwaitsOne(c) ==
    /\ At(c, "waiting")
    /\ LET k == call[c].update
       IN  /\ k # 0 => updates[k].status \in {"done", "failed"}
           /\ Goes(c, IF k # 0 /\ updates[k].status = "failed" THEN "failed" ELSE "finishing")
    /\ UNCHANGED <<pod, observer, learner, policy, restarts, forgotten>>

\* settle that waits for an update to succeed.
AwaitsSuccess(c) ==
    /\ At(c, "waiting")
    /\ call[c].update # 0 => updates[call[c].update].status = "done"
    /\ Goes(c, IF failure THEN "failed" ELSE "finishing")
    /\ UNCHANGED <<pod, observer, learner, policy, restarts, forgotten>>

\* settle that does not wait for the update it submitted.
AwaitsNone(c) ==
    /\ At(c, "waiting")
    /\ Goes(c, IF failure THEN "failed" ELSE "finishing")
    /\ UNCHANGED <<pod, observer, learner, policy, restarts, forgotten>>

\* Waits for the last update, then refuses for any that ever failed.
SettleWait(c) ==
    /\ At(c, "waiting")
    /\ call[c].update # 0 => updates[call[c].update].status \in {"done", "failed"}
    /\ Goes(c, IF failure THEN "failed" ELSE "finishing")
    /\ UNCHANGED <<pod, observer, learner, policy, restarts, forgotten>>

\* settle that keeps the estimates the valid runs made.
NeverRestores(c) ==
    LET phase == Phase(c[1], c[2])
    IN  /\ At(c, "finishing")
        /\ kept' = IF phase = "valid" THEN (IF kept = NoKept THEN known ELSE kept)
                   ELSE IF phase = "" THEN kept ELSE NoKept
        /\ call' = [call EXCEPT ![c].at = "returned", ![c].episodes = episodes,
                                ![c].kept = kept' # NoKept]
        /\ UNCHANGED <<pod, observer, learner, started, episode, updates, models, restarts, forgotten>>

\* A valid run starts from the training's estimates; any other goes on from them.
SettleKept(c) ==
    LET phase == Phase(c[1], c[2])
    IN  /\ At(c, "finishing")
        /\ known' = IF kept # NoKept THEN kept ELSE known
        /\ kept' = IF phase = "valid" THEN (IF kept = NoKept THEN known ELSE kept)
                   ELSE IF phase = "" THEN kept ELSE NoKept
        /\ call' = [call EXCEPT ![c].at = "returned", ![c].episodes = episodes,
                                ![c].kept = kept' # NoKept]
        /\ UNCHANGED <<pod, seen, polled, learner, started, episode, updates, models, restarts, forgotten>>

LearnedFrom == {net[k] : k \in DOMAIN net}

\* The container restarts: weights, estimates and calls are lost.
Restart ==
    /\ started /\ restarts < MaxRestarts
    /\ restarts' = restarts + 1
    /\ forgotten' = forgotten \cup LearnedFrom
    /\ started' = FALSE
    /\ known' = Nothing /\ seen' = {} /\ polled' = NoPoll
    /\ trained' = <<>> /\ net' = <<>> /\ episodes' = 0 /\ failure' = FALSE
    /\ episode' = {} /\ updates' = <<>> /\ kept' = NoKept
    /\ call' = [c \in Call |-> IF call[c] # NoCall /\ call[c].at # "returned"
                               THEN [call[c] EXCEPT !.at = "failed", !.listed = {}] ELSE call[c]]
    /\ UNCHANGED <<pod, models, failures>>

SettleStep(c) ==
    SettlePoll(c) \/ SettleRead(c) \/ SettleClose(c) \/ SettleWait(c) \/ SettleKept(c)

LearnerStep == \E k \in DOMAIN updates : Learn(k) \/ HandOver(k)
=============================================================================
