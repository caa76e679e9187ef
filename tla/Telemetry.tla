-------------------------------- MODULE Telemetry --------------------------------
(***************************************************************************)
(* The kubelet collector (plugin/telemetry): one goroutine refreshes the   *)
(* usage of every node, one request after another, and decisions read the  *)
(* samples last published, whatever the refresh is doing.                  *)
(*                                                                         *)
(* Time is counted in units. A sample is when the kubelet measured, which  *)
(* measurement that is being all the code asks of it, and when it reached  *)
(* us; the numbers measured are left out.                                  *)
(***************************************************************************)
EXTENDS Integers, FiniteSets

CONSTANTS
    Node,
    Steady,           \* the nodes always listed, whose kubelet answers at once
    Interval,         \* the ticker's period, and the timeout of a request
    MaxAge,
    MaxSourceStale,
    MaxTime,          \* bound: the time units that pass
    MaxMeasured,      \* bound: the measurements of one kubelet
    MaxMisses         \* bound: the list calls that fail, and the units others take

ASSUME TelemetryAssumption ==
    /\ IsFiniteSet(Node) /\ Steady \subseteq Node
    /\ Interval \in Nat \ {0}
    /\ MaxAge \in Nat /\ MaxSourceStale \in Nat
    /\ MaxTime \in Nat /\ MaxMeasured \in Nat /\ MaxMisses \in Nat

VARIABLES
    now,
    meter,       \* meter[n]: the measurement n's kubelet answers with
    at,          \* where the refresh is: idle, listing or asking
    todo,        \* the listed nodes not asked yet
    updated,     \* the samples of the refresh under way
    since,       \* when the last request ended
    samples,     \* c.samples
    looping,     \* whether the ticker runs: the first refresh comes before it
    timer, due,  \* units to the next tick; whether one waits in the ticker's channel
    misses,
    first        \* first[n]: when each measurement of n reached us first (history)

clock   == <<now, looping, timer, due>>
refresh == <<at, todo, updated, since>>
vars    == <<clock, meter, refresh, samples, misses, first>>

\* The empty map.
Empty == [k \in {} |-> 0]

Init ==
    /\ now = 0 /\ looping = FALSE /\ timer = Interval /\ due = FALSE
    /\ meter = [n \in Node |-> 0]
    /\ at = "listing" /\ todo = {} /\ updated = Empty /\ since = 0
    /\ samples = Empty
    /\ misses = 0
    /\ first = [n \in Node |-> Empty]

\* f with f[k] = v.
With(f, k, v) == [j \in DOMAIN f \cup {k} |-> IF j = k THEN v ELSE f[j]]

-----------------------------------------------------------------------------
(* Time, and the kubelets.                                                 *)

\* A request lasts at most Interval, and a steady kubelet's no time at all.
InFlight ==
    \/ at = "idle" /\ ~due /\ UNCHANGED misses
    \/ at = "listing" /\ misses < MaxMisses /\ misses' = misses + 1
    \/ at = "asking" /\ todo \ Steady # {} /\ now < since + Interval /\ UNCHANGED misses

Tick ==
    /\ now < MaxTime
    /\ InFlight
    /\ now' = now + 1
    /\ timer' = IF looping /\ timer > 1 THEN timer - 1 ELSE Interval
    /\ due' = (due \/ (looping /\ timer = 1))
    /\ UNCHANGED <<looping, meter, refresh, samples, first>>

Measure(n) ==
    /\ meter[n] < MaxMeasured
    /\ meter' = [meter EXCEPT ![n] = @ + 1]
    /\ UNCHANGED <<clock, refresh, samples, misses, first>>

-----------------------------------------------------------------------------
(* The refresh.                                                            *)

Begin ==
    /\ at = "idle" /\ due
    /\ due' = FALSE
    /\ at' = "listing"
    /\ UNCHANGED <<now, looping, timer, meter, todo, updated, since, samples, misses, first>>

List ==
    /\ at = "listing"
    /\ \E L \in SUBSET Node : Steady \subseteq L /\ todo' = L
    /\ at' = "asking"
    /\ updated' = Empty
    /\ since' = now
    /\ UNCHANGED <<clock, meter, samples, misses, first>>

\* The API server does not list: the samples are left as they are.
ListFails ==
    /\ at = "listing"
    /\ misses < MaxMisses
    /\ misses' = misses + 1
    /\ at' = "idle"
    /\ looping' = TRUE
    /\ UNCHANGED <<now, timer, due, meter, todo, updated, since, samples, first>>

\* A repeated measurement that looks new each time it is received.
AlwaysNew(n) == [measuredAt |-> meter[n], receivedAt |-> now, firstSeenAt |-> now]

\* The kubelet's clock taken for ours.
TheirClock(n) == [measuredAt |-> meter[n], receivedAt |-> meter[n], firstSeenAt |-> now]

\* sampleFromSummary, and the instant a repeated measurement first appeared carried over. Only the
\* refresh writes samples, so previous, its copy, is samples itself.
Received(n) ==
    [measuredAt |-> meter[n], receivedAt |-> now,
     firstSeenAt |-> IF n \in DOMAIN samples /\ samples[n].measuredAt = meter[n]
                     THEN samples[n].firstSeenAt ELSE now]

\* The request to n ends.
Asked(n) ==
    /\ at = "asking" /\ n \in todo
    /\ todo' = todo \ {n}
    /\ since' = now

Answer(n) ==
    /\ Asked(n)
    /\ n \in Steady => now = since
    /\ updated' = With(updated, n, Received(n))
    /\ first' = IF meter[n] \in DOMAIN first[n] THEN first
                ELSE [first EXCEPT ![n] = With(@, meter[n], now)]
    /\ UNCHANGED <<clock, meter, at, samples, misses>>

\* A refresh that returns at the first kubelet that fails.
FailsAll(n) ==
    /\ Asked(n) /\ n \notin Steady
    /\ at' = "idle"
    /\ looping' = TRUE
    /\ UNCHANGED <<now, timer, due, meter, updated, samples, misses, first>>

\* No answer in time, an error, or a summary that cannot be used: the previous sample stays.
Fails(n) ==
    /\ Asked(n) /\ n \notin Steady
    /\ updated' = IF n \in DOMAIN samples THEN With(updated, n, samples[n]) ELSE updated
    /\ UNCHANGED <<clock, meter, at, samples, misses, first>>

Publish ==
    /\ at = "asking" /\ todo = {}
    /\ samples' = updated
    /\ first' = [n \in Node |-> IF n \in DOMAIN updated THEN first[n] ELSE Empty]
    /\ at' = "idle"
    /\ looping' = TRUE
    /\ UNCHANGED <<now, timer, due, meter, todo, updated, since, misses>>

Next ==
    \/ Tick \/ Begin \/ List \/ ListFails \/ Publish
    \/ \E n \in Node : Measure(n) \/ Answer(n) \/ Fails(n)

Spec == Init /\ [][Next]_vars

-----------------------------------------------------------------------------
(* What a decision gets.                                                   *)

\* Get without the second count.
ServedWhileReceived(n) == n \in DOMAIN samples /\ now - samples[n].receivedAt <= MaxAge

Served(n) ==
    /\ n \in DOMAIN samples
    /\ now - samples[n].receivedAt <= MaxAge
    /\ MaxSourceStale > 0 => samples[n].receivedAt - samples[n].firstSeenAt <= MaxSourceStale

-----------------------------------------------------------------------------
(* Properties.                                                             *)

Sample == [measuredAt : Nat, receivedAt : 0 .. now, firstSeenAt : 0 .. now]

Sampled(f) == DOMAIN f \subseteq Node /\ \A n \in DOMAIN f : f[n] \in Sample

\* The shape of the state; no sample was received in the future, and none is of a node still to be asked.
TypeOK ==
    /\ now \in 0 .. MaxTime /\ since \in 0 .. now
    /\ looping \in BOOLEAN /\ due \in BOOLEAN /\ timer \in 1 .. Interval
    /\ misses \in 0 .. MaxMisses
    /\ meter \in [Node -> 0 .. MaxMeasured]
    /\ at \in {"idle", "listing", "asking"}
    /\ todo \in SUBSET Node
    /\ Sampled(samples) /\ Sampled(updated)
    /\ at = "asking" => DOMAIN updated \cap todo = {}
    /\ DOMAIN first = Node
    /\ \A n \in Node : \A m \in DOMAIN first[n] : m \in Nat /\ first[n][m] \in 0 .. now

\* telemetry.go:69-72, 227-229: a frozen kubelet that keeps answering is caught: no decision is given a
\* measurement that first reached us longer than MaxAge and MaxSourceStale ago, however often it was
\* received since, and whichever requests in between failed.
FrozenSourceExpires ==
    \A n \in Node : Served(n) /\ MaxSourceStale > 0 =>
        /\ samples[n].measuredAt \in DOMAIN first[n]
        /\ now - first[n][samples[n].measuredAt] <= MaxAge + MaxSourceStale

\* telemetry.go:148-158: the nodes are asked one after another, so every hung kubelet ages the samples of
\* the others by its timeout, twice: with MaxAge above that, a steady node is refused only when its
\* kubelet has really repeated one measurement for longer than MaxSourceStale.
SteadyNodeServed ==
    DOMAIN samples # {} /\ MaxAge >= (2 * Cardinality(Node \ Steady) + 1 + misses) * Interval =>
        \A n \in Steady :
            /\ n \in DOMAIN samples
            /\ ~Served(n) =>
                  samples[n].receivedAt - first[n][samples[n].measuredAt] > MaxSourceStale
=============================================================================
