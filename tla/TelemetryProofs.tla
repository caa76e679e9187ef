------------------------------ MODULE TelemetryProofs ------------------------------
(***************************************************************************)
(* What is proved of Telemetry for every number of nodes, every period and *)
(* every pair of limits: a frozen kubelet is caught, and a steady node is  *)
(* served whatever the others do.                                          *)
(*                                                                         *)
(* FrozenSourceExpires speaks of when a measurement first reached us, the  *)
(* code only of what its last samples say. Two facts make them agree:      *)
(* every sample, published or not, carries the instant its measurement     *)
(* first appeared (Traced), and no measurement older than the last sample  *)
(* of a node can come back, since a kubelet's measurements only move       *)
(* forward (Latest).                                                       *)
(*                                                                         *)
(* SteadyNodeServed counts time: AgeInv bounds the age of a steady node's  *)
(* sample by what a refresh has still to wait for, the list and each node  *)
(* that is not steady.                                                     *)
(***************************************************************************)
EXTENDS Telemetry, FiniteSetTheorems, TLAPS

\* Every sample of f tells the truth about its measurement.
Traced(f) ==
    \A n \in DOMAIN f :
        /\ f[n].measuredAt <= meter[n]
        /\ f[n].measuredAt \in DOMAIN first[n]
        /\ f[n].firstSeenAt = first[n][f[n].measuredAt]

\* Every measurement received of n is at most as recent as the last sample of n.
Latest(n) ==
    \A m \in DOMAIN first[n] :
        IF at = "asking" /\ n \in DOMAIN updated THEN m <= updated[n].measuredAt
        ELSE n \in DOMAIN samples /\ m <= samples[n].measuredAt

Inv ==
    /\ TypeOK
    /\ Traced(samples)
    /\ at = "asking" => Traced(updated)
    /\ \A n \in Node : Latest(n)

-----------------------------------------------------------------------------
(* The invariant holds.                                                    *)

LEMMA InitInv == Init => Inv
<1> SUFFICES ASSUME Init PROVE Inv
  OBVIOUS
<1>1. /\ now = 0 /\ timer = Interval /\ since = 0 /\ misses = 0
      /\ at = "listing" /\ todo = {} /\ looping = FALSE /\ due = FALSE
      /\ meter = [n \in Node |-> 0]
  BY DEF Init
<1>2. /\ DOMAIN samples = {} /\ DOMAIN updated = {}
      /\ DOMAIN first = Node /\ \A n \in Node : DOMAIN first[n] = {}
  BY DEF Init, Empty
<1>3. TypeOK
  <2>1. now \in 0 .. MaxTime /\ since \in 0 .. now /\ misses \in 0 .. MaxMisses
        /\ timer \in 1 .. Interval
    BY <1>1, TelemetryAssumption
  <2>2. meter \in [Node -> 0 .. MaxMeasured]
    BY <1>1, TelemetryAssumption
  <2> QED BY <1>1, <1>2, <2>1, <2>2 DEF TypeOK, Sampled
<1> QED BY <1>1, <1>2, <1>3 DEF Inv, Traced, Latest

LEMMA NextInv == Inv /\ [Next]_vars => Inv'
<1> SUFFICES ASSUME Inv, [Next]_vars PROVE Inv'
  OBVIOUS
<1> USE TelemetryAssumption DEF Inv
<1>1. CASE Tick
  <2>1. /\ now' = now + 1 /\ now' \in 0 .. MaxTime
        /\ UNCHANGED <<meter, at, todo, updated, since, samples, first, looping>>
        /\ timer' \in 1 .. Interval /\ due' \in BOOLEAN /\ misses' \in 0 .. MaxMisses
    BY <1>1 DEF Tick, InFlight, TypeOK, refresh
  <2>2. TypeOK'
    BY <2>1 DEF TypeOK, Sampled, Sample
  <2> QED BY <2>1, <2>2 DEF Traced, Latest
<1>2. ASSUME NEW n \in Node, Measure(n) PROVE Inv'
  <2>1. /\ UNCHANGED <<now, looping, timer, due, at, todo, updated, since, samples, misses, first>>
        /\ meter' \in [Node -> 0 .. MaxMeasured]
        /\ \A m \in Node : meter[m] <= meter'[m]
    BY <1>2 DEF Measure, TypeOK, clock, refresh
  <2>2. TypeOK'
    BY <2>1 DEF TypeOK, Sampled, Sample
  <2>3. ASSUME NEW f, Sampled(f), Traced(f), f' = f PROVE Traced(f)'
    BY <2>1, <2>3 DEF Traced, Sampled, Sample, TypeOK
  <2> QED BY <2>1, <2>2, <2>3 DEF Latest, TypeOK, Traced
<1>3. CASE Begin
  BY <1>3 DEF Begin, TypeOK, Sampled, Sample, Traced, Latest
<1>4. CASE List
  <2>1. /\ UNCHANGED <<now, looping, timer, due, meter, samples, misses, first>>
        /\ at = "listing" /\ at' = "asking" /\ todo' \in SUBSET Node
        /\ DOMAIN updated' = {} /\ since' = now
    BY <1>4 DEF List, clock, Empty
  <2> QED BY <2>1 DEF TypeOK, Sampled, Sample, Traced, Latest
<1>5. CASE ListFails
  BY <1>5 DEF ListFails, TypeOK, Sampled, Sample, Traced, Latest
<1>6. ASSUME NEW n \in Node, Answer(n) PROVE Inv'
  <2> DEFINE e == Received(n)
  <2>1. /\ at = "asking" /\ n \in todo /\ todo' = todo \ {n} /\ since' = now
        /\ updated' = With(updated, n, e)
        /\ UNCHANGED <<now, looping, timer, due, meter, at, samples, misses>>
    BY <1>6 DEF Answer, Asked, clock
  <2>2. n \notin DOMAIN updated
    BY <2>1 DEF TypeOK
  <2>3. e \in Sample /\ e.measuredAt = meter[n]
    BY DEF Received, Sample, TypeOK, Sampled
  <2>4. /\ DOMAIN first' = Node
        /\ \A k \in Node \ {n} : first'[k] = first[k]
        /\ meter[n] \in DOMAIN first[n] => first'[n] = first[n]
        /\ meter[n] \notin DOMAIN first[n] => first'[n] = With(first[n], meter[n], now)
    BY <1>6 DEF Answer, TypeOK
  <2>5. /\ DOMAIN first'[n] = DOMAIN first[n] \cup {meter[n]}
        /\ \A m \in DOMAIN first[n] : first'[n][m] = first[n][m]
        /\ first'[n][meter[n]] = e.firstSeenAt
    <3>1. CASE meter[n] \in DOMAIN first[n]
      \* Received before, so in the last sample of n.
      <4>1. n \in DOMAIN samples /\ meter[n] <= samples[n].measuredAt
        BY <2>1, <2>2, <3>1 DEF Latest
      <4>2. samples[n].measuredAt = meter[n] /\ samples[n].firstSeenAt = first[n][meter[n]]
        BY <4>1 DEF Traced, TypeOK, Sampled, Sample
      <4>3. e.firstSeenAt = samples[n].firstSeenAt
        BY <4>1, <4>2 DEF Received
      <4> QED BY <2>4, <3>1, <4>2, <4>3
    <3>2. CASE meter[n] \notin DOMAIN first[n]
      <4>1. ~(n \in DOMAIN samples /\ samples[n].measuredAt = meter[n])
        BY <3>2 DEF Traced
      <4>2. e.firstSeenAt = now
        BY <4>1 DEF Received
      <4> QED BY <2>4, <3>2, <4>2 DEF With
    <3> QED BY <3>1, <3>2
  <2>6. /\ DOMAIN updated' = DOMAIN updated \cup {n}
        /\ updated'[n] = e
        /\ \A k \in DOMAIN updated : updated'[k] = updated[k]
    BY <2>1, <2>2 DEF With
  <2>7. TypeOK'
    <3>1. Sampled(samples)' /\ Sampled(updated)'
      BY <2>1, <2>3, <2>6 DEF TypeOK, Sampled, Sample
    <3>2. \A k \in Node : \A m \in DOMAIN first'[k] : m \in Nat /\ first'[k][m] \in 0 .. now
      BY <2>3, <2>4, <2>5 DEF TypeOK, Sample
    <3> QED BY <2>1, <2>4, <2>6, <3>1, <3>2 DEF TypeOK
  <2>8. Traced(samples)'
    BY <2>1, <2>4, <2>5 DEF Traced, TypeOK, Sampled
  <2>9. Traced(updated)'
    BY <2>1, <2>2, <2>3, <2>4, <2>5, <2>6 DEF Traced, TypeOK, Sampled
  <2>10. ASSUME NEW k \in Node PROVE Latest(k)'
    <3>1. CASE k = n
      <4>1. \A m \in DOMAIN first[n] : m <= meter[n]
        BY <2>1, <2>2 DEF Latest, Traced, TypeOK, Sampled, Sample
      <4> QED BY <2>1, <2>3, <2>5, <2>6, <3>1, <4>1 DEF Latest, TypeOK
    <3>2. CASE k # n
      BY <2>1, <2>4, <2>6, <3>2 DEF Latest
    <3> QED BY <3>1, <3>2
  <2> QED BY <2>1, <2>7, <2>8, <2>9, <2>10
<1>7. ASSUME NEW n \in Node, Fails(n) PROVE Inv'
  <2>1. /\ at = "asking" /\ n \in todo /\ todo' = todo \ {n} /\ since' = now
        /\ UNCHANGED <<now, looping, timer, due, meter, at, samples, misses, first>>
    BY <1>7 DEF Fails, Asked, clock
  <2>2. n \notin DOMAIN updated
    BY <2>1 DEF TypeOK
  <2>3. CASE n \notin DOMAIN samples
    <3>1. updated' = updated
      BY <1>7, <2>3 DEF Fails
    <3> QED BY <2>1, <3>1 DEF TypeOK, Sampled, Sample, Traced, Latest
  <2>4. CASE n \in DOMAIN samples
    <3>1. /\ DOMAIN updated' = DOMAIN updated \cup {n}
          /\ updated'[n] = samples[n]
          /\ \A k \in DOMAIN updated : updated'[k] = updated[k]
      BY <1>7, <2>2, <2>4 DEF Fails, With
    <3>2. TypeOK'
      BY <2>1, <3>1, <2>4 DEF TypeOK, Sampled, Sample
    <3>3. Traced(samples)' /\ Traced(updated)'
      BY <2>1, <2>4, <3>1 DEF Traced
    <3>4. \A k \in Node : Latest(k)'
      BY <2>1, <2>2, <2>4, <3>1 DEF Latest
    <3> QED BY <3>2, <3>3, <3>4
  <2> QED BY <2>3, <2>4
<1>8. CASE Publish
  <2>1. /\ at = "asking" /\ at' = "idle" /\ todo = {} /\ samples' = updated /\ looping' = TRUE
        /\ UNCHANGED <<now, timer, due, meter, todo, updated, since, misses>>
    BY <1>8 DEF Publish
  <2>2. /\ DOMAIN first' = Node
        /\ \A n \in DOMAIN updated : first'[n] = first[n]
        /\ \A n \in Node \ DOMAIN updated : DOMAIN first'[n] = {}
    BY <1>8 DEF Publish, Empty, TypeOK, Sampled
  <2>3. TypeOK'
    <3>1. Sampled(samples)' /\ Sampled(updated)'
      BY <2>1 DEF TypeOK, Sampled, Sample
    <3>2. \A k \in Node : \A m \in DOMAIN first'[k] : m \in Nat /\ first'[k][m] \in 0 .. now
      BY <2>2 DEF TypeOK
    <3> QED BY <2>1, <2>2, <3>1, <3>2 DEF TypeOK
  <2>4. Traced(samples)'
    BY <2>1, <2>2 DEF Traced
  <2>5. \A k \in Node : Latest(k)'
    BY <2>1, <2>2 DEF Latest
  <2> QED BY <2>1, <2>3, <2>4, <2>5
<1>9. CASE UNCHANGED vars
  BY <1>9 DEF vars, clock, refresh, TypeOK, Sampled, Sample, Traced, Latest
<1> QED BY <1>1, <1>2, <1>3, <1>4, <1>5, <1>6, <1>7, <1>8, <1>9 DEF Next

-----------------------------------------------------------------------------
(* The theorems.                                                           *)

\* The state of the collector keeps its shape, and no sample is received in the future
\* (telemetry.go:134-188).
THEOREM TelemetryTypeCorrect == Spec => []TypeOK
<1>1. Inv => TypeOK
  BY DEF Inv
<1> QED BY <1>1, InitInv, NextInv, PTL DEF Spec

\* Whatever the periods and the limits, no decision is given a measurement that first reached us
\* longer than MaxAge and MaxSourceStale ago (telemetry.go:172-174, 227-232).
THEOREM FrozenSourcesExpire == Spec => []FrozenSourceExpires
<1>1. Inv => FrozenSourceExpires
  <2> SUFFICES ASSUME Inv, NEW n \in Node, Served(n), MaxSourceStale > 0
               PROVE  /\ samples[n].measuredAt \in DOMAIN first[n]
                      /\ now - first[n][samples[n].measuredAt] <= MaxAge + MaxSourceStale
    BY DEF FrozenSourceExpires
  <2>1. /\ n \in DOMAIN samples /\ samples[n] \in Sample
        /\ samples[n].measuredAt \in DOMAIN first[n]
        /\ samples[n].firstSeenAt = first[n][samples[n].measuredAt]
    BY DEF Served, Inv, Traced, TypeOK, Sampled
  <2>2. /\ samples[n].receivedAt \in Nat /\ samples[n].firstSeenAt \in Nat /\ now \in Nat
        /\ now - samples[n].receivedAt <= MaxAge
        /\ samples[n].receivedAt - samples[n].firstSeenAt <= MaxSourceStale
    BY <2>1 DEF Served, Sample, Inv, TypeOK
  <2> QED BY <2>1, <2>2, TelemetryAssumption
<1> QED BY <1>1, InitInv, NextInv, PTL DEF Spec


-----------------------------------------------------------------------------
(* How old the sample of a steady node may be.                             *)

\* How many of T may take the whole timeout of a request.
Slow(T) == Cardinality(T \ Steady)

\* How long the refresh under way may have been asking: a timeout for each node that was slow, and the
\* request it waits for.
Asking == (Slow(Node) - Slow(todo)) * Interval + (now - since)

\* What may pass from the receipt of a sample to the next list, when the ticker and the misses are all
\* the refresh waits for.
UntilListed == (Slow(Node) + misses + 1) * Interval

\* How old the last sample of a steady node may be: the rest of the refresh that received it, the wait
\* for the ticker and for each list that failed, and the refresh under way.
Oldest ==
    IF at = "asking" THEN UntilListed + Asking
    ELSE IF at = "listing" \/ due THEN UntilListed
    ELSE UntilListed - timer

Waits ==
    /\ at = "idle" => looping
    /\ at = "asking" =>
          /\ now - since <= Interval
          /\ Slow(todo) = 0 => now = since

Aged ==
    /\ DOMAIN samples # {} => Steady \subseteq DOMAIN samples
    /\ \A n \in Steady \cap DOMAIN samples : now - samples[n].receivedAt <= Oldest
    /\ at = "asking" =>
          /\ Steady \subseteq todo \cup DOMAIN updated
          /\ \A n \in Steady \cap DOMAIN updated : now - updated[n].receivedAt <= Asking

AgeInv == Waits /\ Aged


LEMMA TimesUp == \A a \in Int : (a + 1) * Interval = a * Interval + Interval
  BY TelemetryAssumption

LEMMA TimesUpTo == \A a, b \in Int : a <= b => a * Interval <= b * Interval
<1> SUFFICES ASSUME NEW a \in Int, NEW b \in Int, a <= b PROVE a * Interval <= b * Interval
  OBVIOUS
<1>1. Interval \in Nat /\ b - a \in Nat
  BY TelemetryAssumption
<1>2. (b - a) * Interval >= 0 /\ b * Interval - a * Interval = (b - a) * Interval
  BY <1>1
<1>3. a * Interval \in Int /\ b * Interval \in Int
  BY <1>1
<1> QED BY <1>2, <1>3

LEMMA SlowIs ==
    ASSUME NEW T \in SUBSET Node
    PROVE  /\ Slow(T) \in Nat /\ Slow(T) <= Slow(Node)
           /\ Slow(T) = 0 => T \subseteq Steady
           /\ T \subseteq Steady => Slow(T) = 0
           /\ \A n \in T : Slow(T \ {n}) = IF n \in Steady THEN Slow(T) ELSE Slow(T) - 1
<1>1. IsFiniteSet(Node \ Steady) /\ T \ Steady \subseteq Node \ Steady
  BY TelemetryAssumption, FS_Subset
<1>2. IsFiniteSet(T \ Steady) /\ Slow(T) \in Nat /\ Slow(T) <= Slow(Node)
  BY <1>1, FS_Subset, FS_CardinalityType DEF Slow
<1>3. Slow(T) = 0 <=> T \ Steady = {}
  BY <1>2, FS_EmptySet DEF Slow
<1>4. ASSUME NEW n \in T, n \in Steady PROVE Slow(T \ {n}) = Slow(T)
  <2>1. (T \ {n}) \ Steady = T \ Steady
    BY <1>4
  <2> QED BY <2>1 DEF Slow
<1>5. ASSUME NEW n \in T, n \notin Steady PROVE Slow(T \ {n}) = Slow(T) - 1
  <2> DEFINE U == T \ Steady
  <2>1. (T \ {n}) \ Steady = U \ {n} /\ n \in U
    BY <1>5
  <2>2. IsFiniteSet(U)
    BY <1>2
  <2> HIDE DEF U
  <2>3. Cardinality(U \ {n}) = Cardinality(U) - 1
    BY <2>1, <2>2, FS_RemoveElement
  <2> QED BY <2>1, <2>3 DEF Slow, U
<1> QED BY <1>2, <1>3, <1>4, <1>5

\* The numbers the ages are made of.
LEMMA AgeTypes ==
    ASSUME TypeOK
    PROVE  /\ now \in Nat /\ since \in Nat /\ misses \in Nat /\ timer \in 1 .. Interval /\ Interval \in Nat \ {0}
           /\ \A n \in DOMAIN samples : samples[n].receivedAt \in Nat
           /\ \A n \in DOMAIN updated : updated[n].receivedAt \in Nat
           /\ UntilListed \in Nat /\ Asking \in Nat
<1>1. /\ now \in Nat /\ since \in 0 .. now /\ misses \in Nat /\ timer \in 1 .. Interval /\ Interval \in Nat \ {0}
      /\ todo \in SUBSET Node
  BY TelemetryAssumption DEF TypeOK
<1>2. Slow(Node) \in Nat /\ Slow(todo) \in Nat /\ Slow(todo) <= Slow(Node)
  BY <1>1, SlowIs
<1>3. Slow(Node) + misses + 1 \in Nat /\ Slow(Node) - Slow(todo) \in Nat /\ now - since \in Nat
  BY <1>1, <1>2
<1>4. \A a, b \in Nat : a * b \in Nat
  OBVIOUS
<1>5. UntilListed \in Nat /\ Asking \in Nat
  <2>1. (Slow(Node) - Slow(todo)) * Interval \in Nat
    BY <1>1, <1>3, <1>4
  <2> QED BY <1>1, <1>3, <1>4, <2>1 DEF UntilListed, Asking
<1> QED BY <1>1, <1>5 DEF TypeOK, Sampled, Sample

LEMMA AgeInit == Init => AgeInv
<1> SUFFICES ASSUME Init PROVE AgeInv
  OBVIOUS
<1>1. DOMAIN samples = {} /\ at = "listing"
  BY DEF Init, Empty
<1> QED BY <1>1 DEF AgeInv, Waits, Aged

LEMMA TickAges == ASSUME TypeOK, TypeOK', AgeInv, Tick PROVE AgeInv'
<1>1. /\ now' = now + 1 /\ UNCHANGED <<looping, at, todo, updated, since, samples>>
      /\ timer' = IF looping /\ timer > 1 THEN timer - 1 ELSE Interval
      /\ due' = (due \/ (looping /\ timer = 1))
  BY DEF Tick, refresh
<1>2. Slow(todo) \in Nat /\ (Slow(todo) = 0 => todo \subseteq Steady) /\ Slow(Node) \in Nat
  BY SlowIs DEF TypeOK
<1>3. at = "asking" => now < since + Interval /\ Slow(todo) # 0 /\ misses' = misses
  BY <1>2 DEF Tick, InFlight
<1>4. at \in {"idle", "listing", "asking"}
  BY DEF TypeOK
<1>5. at = "listing" => misses' = misses + 1
  BY DEF Tick, InFlight
<1>6. at = "idle" => ~due /\ misses' = misses /\ looping
  BY DEF Tick, InFlight, AgeInv, Waits
<1>7. Waits'
  BY <1>1, <1>3, AgeTypes DEF AgeInv, Waits, Slow
<1>8. at = "asking" => Asking' = Asking + 1
  BY <1>1, <1>2, AgeTypes DEF Asking, Slow
<1>9. Oldest' >= Oldest + 1 /\ Oldest \in Int /\ Oldest' \in Int
  <2>1. CASE at = "asking"
    BY <1>1, <1>3, <1>8, <2>1, AgeTypes DEF Oldest, UntilListed, Slow
  <2>2. CASE at = "listing"
    <3>1. UntilListed' = UntilListed + Interval
      <4>1. (Slow(Node) + misses + 1 + 1) * Interval = (Slow(Node) + misses + 1) * Interval + Interval
        BY <1>2, AgeTypes, TimesUp
      <4> QED BY <1>2, <1>5, <2>2, <4>1, AgeTypes DEF UntilListed, Slow
    <3> QED BY <1>1, <2>2, <3>1, AgeTypes DEF Oldest
  <2>3. CASE at = "idle"
    <3>1. UntilListed' = UntilListed
      BY <1>6, <2>3 DEF UntilListed, Slow
    <3>2. CASE timer = 1
      <4>1. due' /\ at' = "idle" /\ ~due
        BY <1>1, <1>6, <2>3, <3>2
      <4>2. Oldest = UntilListed - 1
        BY <2>3, <3>2, <4>1 DEF Oldest
      <4>3. Oldest' = UntilListed'
        BY <4>1 DEF Oldest
      <4> QED BY <3>1, <4>2, <4>3, AgeTypes
    <3>3. CASE timer > 1
      BY <1>1, <1>6, <2>3, <3>1, <3>3, AgeTypes DEF Oldest
    <3> QED BY <3>2, <3>3, AgeTypes
  <2> QED BY <1>4, <2>1, <2>2, <2>3
<1>10. Aged'
  BY <1>1, <1>8, <1>9, AgeTypes DEF AgeInv, Aged
<1> QED BY <1>7, <1>10 DEF AgeInv

LEMMA ListAges ==
    ASSUME TypeOK, TypeOK', AgeInv, Begin \/ List \/ ListFails
    PROVE  AgeInv'
<1>1. Slow(Node) \in Nat
  BY SlowIs
<1>2. CASE Begin
  <2>1. /\ at = "idle" /\ due /\ at' = "listing"
        /\ UNCHANGED <<now, misses, samples>>
    BY <1>2 DEF Begin
  <2> QED BY <2>1 DEF AgeInv, Waits, Aged, Oldest, UntilListed, Slow
<1>3. CASE List
  <2>1. /\ at = "listing" /\ at' = "asking" /\ since' = now /\ DOMAIN updated' = {} /\ Steady \subseteq todo'
        /\ UNCHANGED <<now, misses, samples>>
    BY <1>3 DEF List, clock, Empty
  <2>2. Asking' \in Nat /\ UntilListed' = UntilListed /\ UntilListed \in Nat
    <3>1. (UntilListed \in Nat /\ Asking \in Nat)'
      BY AgeTypes, PTL
    <3> QED BY <2>1, <3>1, AgeTypes DEF UntilListed, Slow
  <2>3. Oldest' >= Oldest /\ Oldest \in Nat /\ Oldest' \in Nat
    <3>1. Oldest = UntilListed
      BY <2>1 DEF Oldest
    <3>2. Oldest' = UntilListed' + Asking'
      BY <2>1 DEF Oldest
    <3>3. \A x, y \in Nat : x + y \in Nat /\ x + y >= x
      OBVIOUS
    <3>4. Oldest' = UntilListed + Asking'
      BY <2>2, <3>2
    <3> QED BY <2>2, <3>1, <3>3, <3>4
  <2> QED BY <2>1, <2>3, AgeTypes DEF AgeInv, Waits, Aged
<1>4. CASE ListFails
  <2>1. /\ at = "listing" /\ at' = "idle" /\ looping' = TRUE /\ misses' = misses + 1
        /\ UNCHANGED <<now, timer, due, samples>>
    BY <1>4 DEF ListFails
  <2>2. UntilListed' = UntilListed + Interval
    <3>1. (Slow(Node) + misses + 1 + 1) * Interval = (Slow(Node) + misses + 1) * Interval + Interval
      BY <1>1, AgeTypes, TimesUp
    <3> QED BY <1>1, <2>1, <3>1, AgeTypes DEF UntilListed, Slow
  <2>3. Oldest' >= Oldest /\ Oldest \in Int /\ Oldest' \in Int
    BY <2>1, <2>2, AgeTypes DEF Oldest
  <2> QED BY <2>1, <2>3, AgeTypes DEF AgeInv, Waits, Aged
<1> QED BY <1>2, <1>3, <1>4


\* The request to n ends: a steady kubelet took no time, and any other no more than a timeout.
LEMMA AskedAges ==
    ASSUME TypeOK, AgeInv, NEW n \in Node, Asked(n), n \in Steady => now = since, UNCHANGED <<now, misses>>
    PROVE  /\ Asking' >= Asking /\ Asking' \in Nat /\ Asking \in Nat
           /\ UntilListed' = UntilListed
           /\ now' - since' = 0
<1>1. at = "asking" /\ n \in todo /\ todo' = todo \ {n} /\ since' = now
  BY DEF Asked
<1>2. /\ Slow(todo) \in Nat /\ Slow(Node) \in Nat /\ Slow(todo) <= Slow(Node)
      /\ Slow(todo \ {n}) = IF n \in Steady THEN Slow(todo) ELSE Slow(todo) - 1
      /\ n \notin Steady => Slow(todo) # 0
  BY <1>1, SlowIs DEF TypeOK
<1>3. now - since <= Interval /\ now \in Nat /\ since \in Nat /\ Interval \in Nat
  BY <1>1, AgeTypes DEF AgeInv, Waits
<1> DEFINE a == Slow(Node) - Slow(todo)
           b == Slow(Node) - Slow(todo \ {n})
<1>4. a \in Nat /\ b = IF n \in Steady THEN a ELSE a + 1
  BY <1>2
<1>5. Asking = a * Interval + (now - since)
  BY DEF Asking
<1>6. Asking' = b * Interval + (now - now)
  BY <1>1 DEF Asking, Slow
<1> HIDE DEF a, b
<1>7. (a + 1) * Interval = a * Interval + Interval
  BY <1>4, TimesUp
<1>8. a * Interval \in Nat /\ Asking \in Nat
  BY <1>4, <1>3, AgeTypes
<1>9. Asking' >= Asking /\ Asking' \in Nat
  <2>1. CASE n \in Steady
    <3>1. b = a /\ now = since
      BY <1>4, <2>1
    <3>2. Asking' = a * Interval /\ Asking = a * Interval
      BY <1>3, <1>5, <1>6, <1>8, <3>1
    <3> QED BY <1>8, <3>2
  <2>2. CASE n \notin Steady
    <3>1. b = a + 1
      BY <1>4, <2>2
    <3>2. Asking' = a * Interval + Interval
      BY <1>3, <1>6, <1>7, <1>8, <3>1
    <3> QED BY <1>3, <1>5, <1>8, <3>2
  <2> QED BY <2>1, <2>2
<1>10. UntilListed' = UntilListed
  BY DEF UntilListed, Slow
<1>11. now' - since' = 0
  BY <1>1, <1>3
<1> QED BY <1>8, <1>9, <1>10, <1>11

LEMMA AnswerAges ==
    ASSUME TypeOK, TypeOK', AgeInv, NEW n \in Node, Answer(n) \/ Fails(n)
    PROVE  AgeInv'
<1>1. /\ at = "asking" /\ n \in todo /\ todo' = todo \ {n} /\ since' = now
      /\ UNCHANGED <<now, misses, at, samples, looping>>
  BY DEF Answer, Fails, Asked, clock
<1>2. /\ Asking' >= Asking /\ Asking' \in Nat /\ Asking \in Nat
      /\ UntilListed' = UntilListed
      /\ now' - since' = 0
  <2>1. Asked(n) /\ (n \in Steady => now = since)
    BY DEF Answer, Fails
  <2> QED BY <1>1, <2>1, AskedAges
<1>3. Oldest = UntilListed + Asking /\ Oldest' = UntilListed' + Asking'
  BY <1>1 DEF Oldest
<1>4. UntilListed \in Nat
  BY AgeTypes
<1>5. Oldest' >= Oldest /\ Oldest \in Nat /\ Oldest' \in Nat
  <2>1. Oldest' = UntilListed + Asking'
    BY <1>2, <1>3
  <2>2. \A u, x, y \in Nat : y >= x => u + y \in Nat /\ u + x \in Nat /\ u + y >= u + x
    OBVIOUS
  <2> QED BY <1>2, <1>3, <1>4, <2>1, <2>2
<1>6. /\ n \in Steady => DOMAIN updated' = DOMAIN updated \cup {n} /\ updated'[n].receivedAt = now
      /\ DOMAIN updated \subseteq DOMAIN updated'
      /\ \A k \in DOMAIN updated' : k = n \/ (k \in DOMAIN updated /\ updated'[k] = updated[k])
  <2>1. CASE Answer(n)
    BY <2>1 DEF Answer, With, Received
  <2>2. CASE Fails(n)
    BY <2>2 DEF Fails, With
  <2> QED BY <2>1, <2>2
<1>7. Waits'
  <2>1. now' \in Nat /\ since' \in Nat /\ Interval \in Nat
    BY <1>1, AgeTypes
  <2>2. now' = since'
    BY <1>1
  <2>3. now' - since' <= Interval
    <3>1. \A x, y \in Nat : x - x <= y
      OBVIOUS
    <3> QED BY <2>1, <2>2, <3>1
  <2> QED BY <1>1, <2>2, <2>3 DEF Waits
<1>8. \A k \in Steady \cap DOMAIN samples' : now' - samples'[k].receivedAt <= Oldest'
  BY <1>1, <1>5, AgeTypes DEF AgeInv, Aged
<1>9. Steady \subseteq todo' \cup DOMAIN updated'
  BY <1>1, <1>6 DEF AgeInv, Aged
<1>10. ASSUME NEW k \in Steady \cap DOMAIN updated' PROVE now' - updated'[k].receivedAt <= Asking'
  <2>1. CASE k = n
    BY <1>1, <1>2, <1>6, <2>1, AgeTypes
  <2>2. CASE k # n
    BY <1>1, <1>2, <1>6, <2>2, AgeTypes DEF AgeInv, Aged
  <2> QED BY <2>1, <2>2
<1> QED BY <1>1, <1>7, <1>8, <1>9, <1>10 DEF AgeInv, Aged

LEMMA PublishAges == ASSUME TypeOK, TypeOK', AgeInv, Publish PROVE AgeInv'
<1>1. /\ at = "asking" /\ todo = {} /\ samples' = updated /\ at' = "idle" /\ looping' = TRUE
      /\ UNCHANGED <<now, timer, due, misses>>
  BY DEF Publish
<1>2. Slow(todo) = 0 /\ Slow(Node) \in Nat
  BY <1>1, SlowIs
<1>3. now = since /\ Steady \subseteq DOMAIN updated
  BY <1>1, <1>2 DEF AgeInv, Waits, Aged
<1>4. /\ now \in Nat /\ misses \in Nat /\ timer \in 1 .. Interval /\ Interval \in Nat
      /\ \A k \in DOMAIN updated : updated[k].receivedAt \in Nat
  BY AgeTypes
<1>5. Asking = Slow(Node) * Interval
  <2>1. Slow(Node) - 0 = Slow(Node) /\ now - now = 0 /\ Slow(Node) * Interval \in Nat
    BY <1>2, <1>4
  <2> QED BY <1>2, <1>3, <2>1 DEF Asking
<1>6. Oldest' >= Asking /\ Oldest' \in Int /\ Asking \in Int
  <2>1. (Slow(Node) + misses + 1) * Interval = (Slow(Node) + misses) * Interval + Interval
    BY <1>2, <1>4, TimesUp
  <2>2. Slow(Node) * Interval <= (Slow(Node) + misses) * Interval
    BY <1>2, <1>4, TimesUpTo
  <2>3. Slow(Node) * Interval \in Nat /\ (Slow(Node) + misses) * Interval \in Nat
    BY <1>2, <1>4
  <2>4. UntilListed' = (Slow(Node) + misses) * Interval + Interval
    BY <1>1, <2>1 DEF UntilListed, Slow
  <2>5. Oldest' \in {UntilListed', UntilListed' - timer}
    BY <1>1 DEF Oldest
  <2> QED BY <1>4, <1>5, <2>2, <2>3, <2>4, <2>5
<1> QED BY <1>1, <1>3, <1>4, <1>6 DEF AgeInv, Waits, Aged

LEMMA AgeStep == TypeOK /\ TypeOK' /\ AgeInv /\ [Next]_vars => AgeInv'
<1> SUFFICES ASSUME TypeOK, TypeOK', AgeInv, [Next]_vars PROVE AgeInv'
  OBVIOUS
<1>1. CASE UNCHANGED vars \/ \E n \in Node : Measure(n)
  <2>1. UNCHANGED <<clock, refresh, samples, misses>>
    BY <1>1 DEF Measure, vars
  <2>2. /\ Oldest' = Oldest /\ Asking' = Asking
        /\ UNCHANGED <<now, looping, at, todo, updated, since, samples>>
    BY <2>1 DEF clock, refresh, Oldest, UntilListed, Asking, Slow
  <2> QED BY <2>2 DEF AgeInv, Waits, Aged, Slow
<1>2. CASE Tick
  BY <1>2, TickAges
<1>3. CASE Begin \/ List \/ ListFails
  BY <1>3, ListAges
<1>4. ASSUME NEW n \in Node, Answer(n) \/ Fails(n) PROVE AgeInv'
  BY <1>4, AnswerAges
<1>5. CASE Publish
  BY <1>5, PublishAges
<1> QED BY <1>1, <1>2, <1>3, <1>4, <1>5 DEF Next

\* No sample of a steady node is ever older than two rounds of timeouts, a period of the ticker, and one
\* more for each list that failed.
LEMMA AgeBound ==
    ASSUME TypeOK, AgeInv, NEW n \in Steady \cap DOMAIN samples
    PROVE  now - samples[n].receivedAt <= (2 * Slow(Node) + 1 + misses) * Interval
<1>1. /\ now \in Nat /\ since \in Nat /\ misses \in Nat /\ timer \in 1 .. Interval /\ Interval \in Nat
      /\ samples[n].receivedAt \in Nat /\ UntilListed \in Nat /\ Asking \in Nat
  BY AgeTypes
<1>2. Slow(Node) \in Nat /\ Slow(todo) \in Nat /\ Slow(todo) <= Slow(Node)
  BY SlowIs DEF TypeOK
<1> DEFINE h == Slow(Node) * Interval
<1>3. h \in Nat
  BY <1>1, <1>2
<1>4. at = "asking" => Asking <= h
  <2> SUFFICES ASSUME at = "asking" PROVE Asking <= h
    OBVIOUS
  <2>1. CASE Slow(todo) = 0
    <3>1. Slow(Node) - Slow(todo) = Slow(Node) /\ now - since = 0
      BY <1>1, <1>2, <2>1 DEF AgeInv, Waits
    <3> QED BY <1>3, <3>1 DEF Asking
  <2>2. CASE Slow(todo) # 0
    <3> DEFINE d == Slow(Node) - Slow(todo)
    <3>1. d \in Nat /\ d + 1 <= Slow(Node) /\ d + 1 \in Int
      BY <1>2, <2>2
    <3>2. Asking = d * Interval + (now - since)
      BY DEF Asking
    <3> HIDE DEF d
    <3>3. (d + 1) * Interval = d * Interval + Interval /\ (d + 1) * Interval <= h /\ d * Interval \in Nat
      BY <1>1, <1>2, <3>1, TimesUp, TimesUpTo
    <3>4. now - since <= Interval
      BY DEF AgeInv, Waits
    <3> HIDE DEF h
    <3> QED BY <1>1, <1>3, <3>2, <3>3, <3>4
  <2> QED BY <2>1, <2>2
<1>5. (2 * Slow(Node) + 1 + misses) * Interval = UntilListed + h
  BY <1>1, <1>2 DEF UntilListed
<1>6. now - samples[n].receivedAt <= Oldest
  BY DEF AgeInv, Aged
<1> HIDE DEF h
<1>7. Oldest <= UntilListed + h /\ Oldest \in Int
  BY <1>1, <1>3, <1>4 DEF Oldest
<1> QED BY <1>1, <1>3, <1>5, <1>6, <1>7

\* The nodes are asked one after another (telemetry.go:148-158), so hung kubelets age the samples of the
\* steady ones, but only by their timeouts: with MaxAge above that, a steady node has a sample, and is refused only when
\* its kubelet has repeated one measurement for longer than MaxSourceStale.
THEOREM SteadyNodesServed == Spec => []SteadyNodeServed
<1>1. Inv /\ AgeInv => SteadyNodeServed
  <2> SUFFICES ASSUME Inv, AgeInv, DOMAIN samples # {},
                      MaxAge >= (2 * Cardinality(Node \ Steady) + 1 + misses) * Interval,
                      NEW n \in Steady
               PROVE  /\ n \in DOMAIN samples
                      /\ ~Served(n) => samples[n].receivedAt - first[n][samples[n].measuredAt] > MaxSourceStale
    BY DEF SteadyNodeServed
  <2>1. n \in DOMAIN samples /\ TypeOK
    BY DEF AgeInv, Aged, Inv
  <2>2. now - samples[n].receivedAt <= (2 * Slow(Node) + 1 + misses) * Interval
    BY <2>1, AgeBound
  <2>3. /\ now \in Nat /\ samples[n].receivedAt \in Nat /\ samples[n].firstSeenAt \in Nat /\ MaxAge \in Nat
        /\ MaxSourceStale \in Nat /\ (2 * Slow(Node) + 1 + misses) * Interval \in Nat
    <3>1. /\ now \in Nat /\ samples[n].receivedAt \in Nat /\ samples[n].firstSeenAt \in Nat /\ misses \in Nat
          /\ MaxAge \in Nat /\ MaxSourceStale \in Nat /\ Interval \in Nat
      BY <2>1, TelemetryAssumption DEF TypeOK, Sampled, Sample
    <3>2. Slow(Node) \in Nat
      BY SlowIs
    <3>3. 2 * Slow(Node) + 1 + misses \in Nat
      BY <3>1, <3>2
    <3>4. \A a, b \in Nat : a * b \in Nat
      OBVIOUS
    <3> QED BY <3>1, <3>3, <3>4
  <2>4. MaxAge >= (2 * Slow(Node) + 1 + misses) * Interval
    BY DEF Slow
  <2>5. now - samples[n].receivedAt <= MaxAge
    <3> DEFINE m == (2 * Slow(Node) + 1 + misses) * Interval
    <3>1. m \in Nat /\ now - samples[n].receivedAt <= m /\ MaxAge >= m
      BY <2>2, <2>3, <2>4
    <3> HIDE DEF m
    <3> QED BY <2>3, <3>1
  <2>6. samples[n].firstSeenAt = first[n][samples[n].measuredAt]
    BY <2>1 DEF Inv, Traced
  <2>7. ~Served(n) => ~(samples[n].receivedAt - samples[n].firstSeenAt <= MaxSourceStale)
    BY <2>1, <2>5 DEF Served
  <2> QED BY <2>1, <2>3, <2>6, <2>7
<1>2. Init => Inv /\ AgeInv
  BY InitInv, AgeInit
<1>3. (Inv /\ AgeInv) /\ [Next]_vars => (Inv /\ AgeInv)'
  BY NextInv, AgeStep DEF Inv
<1> QED BY <1>1, <1>2, <1>3, PTL DEF Spec
=============================================================================
