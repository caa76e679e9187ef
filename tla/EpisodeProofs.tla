------------------------------- MODULE EpisodeProofs -------------------------------
(***************************************************************************)
(* What a training run is charged for, for every number of pods and every  *)
(* discount that follows the law of the exponential. When the run is       *)
(* complete, the CPU of each pod that succeeded is in what is learned      *)
(* from, once; the samples count the time its pods lived, but for what     *)
(* was unseen; and the return of the transitions is the cost of the run.   *)
(*                                                                         *)
(* The pods' logs are read by threads of their own, so the first invariant *)
(* follows a pod from the list that shows it finished to the read under    *)
(* way, and from there to what has been read. The second sorts out what    *)
(* the samples count by pod. The third telescopes.                         *)
(***************************************************************************)
EXTENDS Episode, FiniteSetTheorems, SequenceTheorems, WellFoundedInduction, TLAPS

Succeeded == {p \in Pod : pod[p].phase = "succeeded"}

SucceededIn(l) == {p \in Pod : l.phase[p] = "succeeded"}

Phase == {"none", "pending", "running"} \cup Ended

Usage == [pod : Pod, time : Int, dt : Int, count : Rate \cup {Limit}]

\* Where u has the CPU of p.
Places(u, p) == {i \in DOMAIN u : u[i].pod = p}

\* u has the CPU of each pod of S, once, and of no other.
Charges(u, S) == \A p \in Pod : Cardinality(Places(u, p)) = IF p \in S THEN 1 ELSE 0

Shape ==
    /\ now \in Nat
    /\ pod \in [Pod -> [phase : Phase, created : Nat, started : Nat, finished : Nat]]
    /\ used \in Seq(Usage)
    /\ settling \in {"none", "polled", "read", "closed", "learned"}
    /\ complete \in BOOLEAN
    /\ DOMAIN given = {"samples", "reading", "used", "end"}

\* What the lists, read or not, and the reads under way say of the pods that have succeeded.
Lists ==
    /\ seen \subseteq Succeeded /\ reading \subseteq seen
    /\ polled # NoList => SucceededIn(polled) \subseteq Succeeded
    /\ settling = "polled" => SucceededIn(fresh) \subseteq Succeeded
    /\ Charges(used, seen \ reading)

\* Once kexp settles a complete run, nothing of it moves but the reads under way.
Over ==
    complete =>
        /\ settling # "none"
        /\ \A p \in Pod : pod[p].phase \in {"none"} \cup Ended
        /\ settling = "polled" => SucceededIn(fresh) = Succeeded
        /\ settling \in {"read", "closed", "learned"} => seen = Succeeded
        /\ settling = "closed" => reading \subseteq given.reading
        /\ settling = "learned" => Charges(given.used, Succeeded)

Inv == Shape /\ Lists /\ Over

-----------------------------------------------------------------------------
LEMMA EmptyCharges == Charges(<<>>, {})
<1>1. \A p \in Pod : Places(<<>>, p) = {}
  BY DEF Places
<1> QED BY <1>1, FS_EmptySet DEF Charges

\* A read that ends charges its pod, which was not charged before.
LEMMA AppendCharges ==
    ASSUME NEW u \in Seq(Usage), NEW S, NEW p \in Pod, p \notin S, NEW e \in Usage, e.pod = p, Charges(u, S)
    PROVE  Charges(Append(u, e), S \cup {p})
<1> DEFINE more == Append(u, e)
           z == Len(u)
<1>1. /\ more \in Seq(Usage) /\ Len(more) = z + 1 /\ z \in Nat /\ DOMAIN u = 1 .. z
      /\ \A i \in 1 .. z : more[i] = u[i]
      /\ more[z + 1] = e
  BY AppendProperties
<1>2. DOMAIN more = 1 .. z + 1
  BY <1>1
<1> HIDE DEF more, z
<1>3. ASSUME NEW q \in Pod PROVE Cardinality(Places(more, q)) = IF q \in S \cup {p} THEN 1 ELSE 0
  <2>1. CASE q = p
    <3>1. Cardinality(Places(u, p)) = 0 /\ IsFiniteSet(Places(u, p))
      <4>1. IsFiniteSet(1 .. z)
        BY <1>1, FS_Interval
      <4>2. Places(u, p) \subseteq 1 .. z
        BY <1>1 DEF Places
      <4> QED BY <4>1, <4>2, FS_Subset DEF Charges
    <3>2. Places(u, p) = {}
      BY <3>1, FS_EmptySet
    <3>3. Places(more, p) = {z + 1}
      BY <1>1, <1>2, <3>2 DEF Places
    <3> QED BY <2>1, <3>3, FS_Singleton
  <2>2. CASE q # p
    <3>1. Places(more, q) = Places(u, q)
      BY <1>1, <1>2, <2>2 DEF Places
    <3> QED BY <2>2, <3>1 DEF Charges
  <2> QED BY <2>1, <2>2
<1> QED BY <1>3 DEF Charges, more

LEMMA InitInv == Init => Inv
<1> SUFFICES ASSUME Init PROVE Inv
  OBVIOUS
<1>1. Shape
  <2>1. pod \in [Pod -> [phase : Phase, created : Nat, started : Nat, finished : Nat]]
    BY DEF Init, Absent, Phase
  <2>2. used \in Seq(Usage) /\ DOMAIN given = {"samples", "reading", "used", "end"}
    BY DEF Init
  <2> QED BY <2>1, <2>2 DEF Init, Shape
<1>2. Charges(used, seen \ reading)
  BY EmptyCharges DEF Init
<1> QED BY <1>1, <1>2 DEF Init, Inv, Lists, Over

-----------------------------------------------------------------------------
(* The pods.                                                               *)

\* Before the run is settled a pod may come and be decided, and until it is complete one may finish; none that
\* succeeded moves any more.
LEMMA PodStep ==
    ASSUME Inv, NEW p \in Pod, Arrives(p) \/ Decides(p) \/ Finishes(p)
    PROVE  Inv'
<1>1. /\ UNCHANGED <<now, seen, reading, polled, used, settling, fresh, complete, given>>
      /\ ~complete
      /\ pod[p].phase # "succeeded"
  BY DEF Arrives, Decides, Finishes, observed, call, Inv, Over, Ended
<1>2. /\ pod' \in [Pod -> [phase : Phase, created : Nat, started : Nat, finished : Nat]]
      /\ \A q \in Pod \ {p} : pod'[q] = pod[q]
  <2>1. CASE Arrives(p)
    BY <2>1 DEF Arrives, Inv, Shape, Phase
  <2>2. CASE Decides(p)
    BY <2>2 DEF Decides, Inv, Shape, Phase
  <2>3. CASE Finishes(p)
    <3>1. PICK phase \in Ended : pod' = [pod EXCEPT ![p].phase = phase, ![p].finished = now]
      BY <2>3 DEF Finishes
    <3>2. phase \in Phase /\ now \in Nat
      BY DEF Phase, Inv, Shape
    <3> QED BY <3>1, <3>2 DEF Inv, Shape
  <2> QED BY <2>1, <2>2, <2>3
<1>3. Succeeded \subseteq Succeeded'
  BY <1>1, <1>2 DEF Succeeded
<1>4. Lists'
  BY <1>1, <1>3 DEF Inv, Lists, SucceededIn, Charges, Places
<1> QED BY <1>1, <1>2, <1>4 DEF Inv, Shape, Over

LEMMA ReadsLogStep == ASSUME Inv, NEW p \in Pod, ReadsLog(p) PROVE Inv'
<1>1. /\ p \in reading /\ reading' = reading \ {p}
      /\ UNCHANGED <<now, pod, seen, polled, settling, fresh, complete, given>>
  BY DEF ReadsLog, call
<1>2. PICK rate \in Rate \cup {Limit} :
        used' = Append(used, [pod |-> p, time |-> pod[p].finished, dt |-> pod[p].finished - pod[p].started,
                              count |-> rate])
  BY DEF ReadsLog
<1> DEFINE e == [pod |-> p, time |-> pod[p].finished, dt |-> pod[p].finished - pod[p].started, count |-> rate]
<1>3. e \in Usage /\ e.pod = p
  BY DEF Usage, Inv, Shape
<1> HIDE DEF e
<1>4. used' \in Seq(Usage) /\ used' = Append(used, e)
  BY <1>2, <1>3, AppendProperties DEF Inv, Shape, e
<1>5. Charges(used', (seen \ reading) \cup {p})
  <2>1. p \notin seen \ reading /\ used \in Seq(Usage) /\ Charges(used, seen \ reading)
    BY <1>1 DEF Inv, Shape, Lists
  <2> HIDE DEF Inv
  <2> QED BY <1>3, <1>4, <2>1, AppendCharges
<1>6. (seen \ reading) \cup {p} = seen' \ reading'
  BY <1>1 DEF Inv, Lists
<1>7. Charges(used, seen \ reading)'
  BY <1>5, <1>6 DEF Charges, Places
<1>8. Lists'
  BY <1>1, <1>7 DEF Inv, Lists, Succeeded, SucceededIn
<1> QED BY <1>1, <1>4, <1>8 DEF Inv, Shape, Over, Succeeded, SucceededIn, Charges, Places

-----------------------------------------------------------------------------
(* The observer and the settling.                                          *)

\* What a list that is read adds: the pods that succeeded and were not seen.
LEMMA ReadsIs ==
    ASSUME Inv, NEW found, SucceededIn(found) \subseteq Succeeded, Reads(found), UNCHANGED <<pod, used>>
    PROVE  /\ seen' = seen \cup SucceededIn(found) /\ seen' \subseteq Succeeded'
           /\ reading' \subseteq seen' /\ seen' \ reading' = seen \ reading
           /\ seen = Succeeded => seen' = Succeeded' /\ reading' = reading
<1>1. Succeeded' = Succeeded
  BY DEF Succeeded
<1> QED BY <1>1 DEF Inv, Lists, Reads, SucceededIn

LEMMA ReadsPollStep == ASSUME Inv, ReadsPoll PROVE Inv'
<1>1. /\ polled # NoList /\ Reads(polled) /\ polled' = NoList
      /\ UNCHANGED <<now, pod, used, settling, fresh, complete, given>>
  BY DEF ReadsPoll, call
<1>2. SucceededIn(polled) \subseteq Succeeded
  BY <1>1 DEF Inv, Lists
<1>3. /\ seen' \subseteq Succeeded' /\ reading' \subseteq seen' /\ seen' \ reading' = seen \ reading
      /\ seen = Succeeded => seen' = Succeeded' /\ reading' = reading
  BY <1>1, <1>2, ReadsIs
<1>4. Charges(used, seen \ reading)'
  BY <1>1, <1>3 DEF Inv, Lists, Charges, Places
<1>5. Succeeded' = Succeeded /\ SucceededIn(fresh)' = SucceededIn(fresh)
  BY <1>1 DEF Succeeded, SucceededIn
<1>6. Lists'
  BY <1>1, <1>3, <1>4, <1>5 DEF Inv, Lists
<1>7. Over'
  BY <1>1, <1>3, <1>5 DEF Inv, Over, Charges, Places
<1> QED BY <1>1, <1>6, <1>7 DEF Inv, Shape

LEMMA PhasesAre == \A p \in Pod : Phases[p] = pod[p].phase
  BY DEF Phases

\* A poll, one that fails, and the clock leave what has been read alone.
LEMMA PollStep == ASSUME Inv, Tick \/ Poll \/ PollFails PROVE Inv'
<1>1. /\ UNCHANGED <<pod, seen, reading, used, settling, fresh, complete, given>>
      /\ now' \in Nat
      /\ polled' = polled \/ (polled'.phase = Phases)
  <2>1. CASE Tick
    BY <2>1 DEF Tick, observed, call, Inv, Shape
  <2>2. CASE Poll
    BY <2>2 DEF Poll, observed, call, Inv, Shape
  <2>3. CASE PollFails
    BY <2>3 DEF PollFails, observed, call, Inv, Shape
  <2> QED BY <2>1, <2>2, <2>3
<1>2. SucceededIn(polled)' \subseteq Succeeded \/ polled' = polled
  BY <1>1, PhasesAre DEF SucceededIn, Succeeded
<1>3. Lists'
  BY <1>1, <1>2 DEF Inv, Lists, Succeeded, SucceededIn, Charges, Places
<1> QED BY <1>1, <1>3 DEF Inv, Shape, Over, Succeeded, SucceededIn, Charges, Places

LEMMA SettlesStep == ASSUME Inv, Settles PROVE Inv'
<1>1. /\ settling = "none" /\ settling' = "polled" /\ fresh'.phase = Phases
      /\ complete' = (Unfinished(Phases) = {})
      /\ UNCHANGED <<now, pod, seen, reading, polled, used, given>>
  BY DEF Settles, observed
<1>2. SucceededIn(fresh)' = Succeeded /\ Succeeded' = Succeeded
  BY <1>1, PhasesAre DEF SucceededIn, Succeeded
<1>3. complete' => \A p \in Pod : pod[p].phase \in {"none"} \cup Ended
  BY <1>1, PhasesAre DEF Unfinished, Came, Left
<1>4. complete' \in BOOLEAN
  BY <1>1
<1>5. Lists'
  BY <1>1, <1>2 DEF Inv, Lists, SucceededIn, Charges, Places
<1> QED BY <1>1, <1>2, <1>3, <1>4, <1>5 DEF Inv, Shape, Over

LEMMA RefreshesStep == ASSUME Inv, Refreshes PROVE Inv'
<1>1. /\ settling = "polled" /\ settling' = "read" /\ Reads(fresh)
      /\ UNCHANGED <<now, pod, polled, used, complete, given>>
  BY DEF Refreshes
<1>2. SucceededIn(fresh) \subseteq Succeeded
  BY <1>1 DEF Inv, Lists
<1>3. /\ seen' = seen \cup SucceededIn(fresh)
      /\ seen' \subseteq Succeeded' /\ reading' \subseteq seen' /\ seen' \ reading' = seen \ reading
  BY <1>1, <1>2, ReadsIs
<1>4. Charges(used, seen \ reading)'
  BY <1>1, <1>3 DEF Inv, Lists, Charges, Places
<1>5. Succeeded' = Succeeded /\ SucceededIn(polled)' = SucceededIn(polled)
  BY <1>1 DEF Succeeded, SucceededIn
<1>6. Lists'
  BY <1>1, <1>3, <1>4, <1>5 DEF Inv, Lists
<1>7. Over'
  BY <1>1, <1>3, <1>5 DEF Inv, Over, Lists
<1> QED BY <1>1, <1>6, <1>7 DEF Inv, Shape

LEMMA ClosesStep == ASSUME Inv, Closes PROVE Inv'
<1>1. /\ settling = "read" /\ settling' = "closed" /\ given'.reading = reading
      /\ DOMAIN given' = {"samples", "reading", "used", "end"}
      /\ UNCHANGED <<now, pod, seen, reading, polled, used, fresh, complete>>
  BY DEF Closes, observed
<1>2. Lists'
  BY <1>1 DEF Inv, Lists, Succeeded, SucceededIn, Charges, Places
<1> QED BY <1>1, <1>2 DEF Inv, Shape, Over, Succeeded

\* learn_safely has waited for every read close found under way: of a complete run, for every read.
LEMMA LearnsStep == ASSUME Inv, Learns PROVE Inv'
<1>1. /\ settling = "closed" /\ given.reading \cap reading = {} /\ settling' = "learned"
      /\ given' = [given EXCEPT !.used = used]
      /\ UNCHANGED <<now, pod, seen, reading, polled, used, fresh, complete>>
  BY DEF Learns, observed
<1>2. given'.used = used /\ DOMAIN given' = DOMAIN given
  BY <1>1 DEF Inv, Shape
<1>3. Lists'
  BY <1>1 DEF Inv, Lists, Succeeded, SucceededIn, Charges, Places
<1>4. complete => Charges(used, Succeeded)
  <2> SUFFICES ASSUME complete PROVE Charges(used, Succeeded)
    OBVIOUS
  <2>1. seen = Succeeded /\ reading = {}
    BY <1>1 DEF Inv, Over
  <2>2. seen \ reading = Succeeded
    BY <2>1
  <2> QED BY <2>2 DEF Inv, Lists
<1>5. complete' => Charges(given.used, Succeeded)'
  BY <1>1, <1>2, <1>4 DEF Charges, Places, Succeeded
<1> QED BY <1>1, <1>2, <1>3, <1>5 DEF Inv, Shape, Over, Succeeded

LEMMA NextInv == Inv /\ [Next]_vars => Inv'
<1> SUFFICES ASSUME Inv, [Next]_vars PROVE Inv'
  OBVIOUS
<1>1. CASE UNCHANGED vars
  BY <1>1 DEF vars, observed, call, Inv, Shape, Lists, Over, Succeeded, SucceededIn, Charges, Places
<1>2. ASSUME NEW p \in Pod, Arrives(p) \/ Decides(p) \/ Finishes(p) \/ ReadsLog(p) PROVE Inv'
  BY <1>2, PodStep, ReadsLogStep
<1>3. CASE Tick \/ Poll \/ PollFails
  BY <1>3, PollStep
<1>4. CASE ReadsPoll \/ Settles \/ Refreshes \/ Closes \/ Learns
  BY <1>4, ReadsPollStep, SettlesStep, RefreshesStep, ClosesStep, LearnsStep
<1> QED BY <1>1, <1>2, <1>3, <1>4 DEF Next

\* What a complete run learns the CPU of is every pod that succeeded, each once (finished, close,
\* learn_safely, kaptain.py:327-339 and 671-690), in whatever order the logs are read while the run is
\* being closed.
THEOREM EachPodChargedOnce == Spec => []CpuCharged
<1>1. Inv => CpuCharged
  BY DEF Inv, Over, Charges, Places, Succeeded, CpuCharged, Learned
<1> QED BY <1>1, InitInv, NextInv, PTL DEF Spec

-----------------------------------------------------------------------------
(* Sums. SumFunction picks the elements of its domain in an order nobody   *)
(* knows; the lemmas say that no order matters, and all a sum needs.       *)

\* Induction, of a set: the naturals are well founded.
LEMMA MemberInduction ==
    ASSUME NEW S, 0 \in S, \A n \in Nat : n \in S => n + 1 \in S
    PROVE  Nat \subseteq S
<1> DEFINE R == {ss \in Nat \X Nat : ss[1] < ss[2]}
           T == Nat \ S
<1>1. SUFFICES ASSUME T # {} PROVE FALSE
  BY DEF T
<1>2. IsWellFoundedOn(R, Nat)
  BY NatLessThanWellFounded, Zenon DEF OpToRel
<1>3. \A x, y \in Nat : x < y => <<x, y>> \in R
  BY DEF R
<1>4. T \subseteq Nat
  BY DEF T
<1> HIDE DEF R
<1>5. PICK x \in T : \A y \in T : ~ (<<y, x>> \in R)
  <2> HIDE DEF T
  <2> QED BY <1>1, <1>2, <1>4, WFMin
<1>6. x # 0 /\ x - 1 \in Nat /\ x - 1 < x /\ x \in Nat
  BY <1>5
<1>7. x - 1 \notin T
  BY <1>3, <1>5, <1>6
<1> QED BY <1>5, <1>6, <1>7

\* The same, over the subsets of a finite set.
LEMMA SubsetInduction ==
    ASSUME NEW D, IsFiniteSet(D), NEW Q, {} \in Q,
           \A s \in SUBSET D : s # {} /\ (\A x \in s : s \ {x} \in Q) => s \in Q
    PROVE  \A s \in SUBSET D : s \in Q
<1> DEFINE S == {n \in Nat : \A s \in SUBSET D : Cardinality(s) = n => s \in Q}
<1>1. \A s \in SUBSET D : IsFiniteSet(s) /\ Cardinality(s) \in Nat
  BY FS_Subset, FS_CardinalityType
<1>2. 0 \in S
  BY <1>1, FS_EmptySet
<1>3. ASSUME NEW n \in Nat, n \in S PROVE n + 1 \in S
  <2> SUFFICES ASSUME NEW s \in SUBSET D, Cardinality(s) = n + 1 PROVE s \in Q
    OBVIOUS
  <2>1. s # {}
    <3>1. n + 1 # 0
      OBVIOUS
    <3> QED BY <3>1, FS_EmptySet
  <2>2. ASSUME NEW x \in s PROVE s \ {x} \in Q
    <3>1. Cardinality(s \ {x}) = Cardinality(s) - 1
      BY <1>1, FS_RemoveElement
    <3>2. Cardinality(s \ {x}) = n
      BY <3>1
    <3> QED BY <1>3, <3>2
  <2> QED BY <2>1, <2>2
<1>4. Nat \subseteq S
  <2> HIDE DEF S
  <2> QED BY <1>2, <1>3, MemberInduction
<1> QED BY <1>1, <1>4

Pick(s) == CHOOSE x \in s : TRUE

\* g has the sum of f over each subset of D, in the order in which they are picked.
SumsUp(g, f, D) == g = [s \in SUBSET D |-> IF s = {} THEN 0 ELSE f[Pick(s)] + g[s \ {Pick(s)}]]

SumsOf(f, D) == CHOOSE g : SumsUp(g, f, D)

LEMMA SumIsFold == \A f, D : SumFunctionOnSet(f, D) = SumsOf(f, D)[D]
  BY DEF SumFunctionOnSet, FoldFunctionOnSet, MapThenFoldSet, SumsOf, SumsUp, Pick

\* The subsets of D of no more than n elements.
Upto(D, n) == {s \in SUBSET D : Cardinality(s) <= n}

LEMMA SumsExist ==
    ASSUME NEW D, IsFiniteSet(D), NEW f, \A x \in D : f[x] \in Int
    PROVE  SumsUp(SumsOf(f, D), f, D) /\ SumsOf(f, D) \in [SUBSET D -> Int]
<1> DEFINE Sum(g, s) == IF s = {} THEN 0 ELSE f[Pick(s)] + g[s \ {Pick(s)}]
           S == {n \in Nat : \E g \in [Upto(D, n) -> Int] : \A s \in Upto(D, n) : g[s] = Sum(g, s)}
<1>1. \A s \in SUBSET D : IsFiniteSet(s) /\ Cardinality(s) \in Nat /\ Cardinality(s) <= Cardinality(D)
  BY FS_Subset, FS_CardinalityType
<1>2. ASSUME NEW n \in Nat, NEW s \in Upto(D, n + 1), s # {}
      PROVE  Pick(s) \in s /\ f[Pick(s)] \in Int /\ s \ {Pick(s)} \in Upto(D, n)
  <2>1. Pick(s) \in s
    BY <1>2 DEF Pick
  <2>2. Cardinality(s \ {Pick(s)}) = Cardinality(s) - 1
    <3>1. IsFiniteSet(s)
      BY <1>1 DEF Upto
    <3> QED BY <2>1, <3>1, FS_RemoveElement
  <2>3. Cardinality(s) \in Nat /\ Cardinality(s) <= n + 1
    BY <1>1 DEF Upto
  <2> QED BY <2>1, <2>2, <2>3 DEF Upto
<1>3. 0 \in S
  <2>1. \A s \in Upto(D, 0) : s = {}
    <3>1. \A s \in SUBSET D : Cardinality(s) <= 0 => Cardinality(s) = 0
      BY <1>1
    <3> QED BY <1>1, <3>1, FS_EmptySet DEF Upto
  <2>2. PICK g : g = [s \in Upto(D, 0) |-> 0]
    OBVIOUS
  <2>3. g \in [Upto(D, 0) -> Int] /\ \A s \in Upto(D, 0) : g[s] = Sum(g, s)
    BY <2>1, <2>2
  <2> QED BY <2>3
<1>4. ASSUME NEW n \in Nat, n \in S PROVE n + 1 \in S
  <2>1. PICK g \in [Upto(D, n) -> Int] : \A s \in Upto(D, n) : g[s] = Sum(g, s)
    BY <1>4
  <2>2. PICK h : h = [s \in Upto(D, n + 1) |-> Sum(g, s)]
    OBVIOUS
  <2>3. ASSUME NEW s \in Upto(D, n + 1) PROVE h[s] \in Int /\ h[s] = Sum(h, s)
    <3>1. CASE s = {}
      BY <2>2, <3>1
    <3>2. CASE s # {}
      <4>1. Pick(s) \in s /\ f[Pick(s)] \in Int /\ s \ {Pick(s)} \in Upto(D, n)
        BY <1>2, <3>2
      <4>2. s \ {Pick(s)} \in Upto(D, n + 1)
        BY <1>1, <4>1 DEF Upto
      <4>3. h[s \ {Pick(s)}] = g[s \ {Pick(s)}] /\ g[s \ {Pick(s)}] \in Int
        BY <2>1, <2>2, <4>1, <4>2
      <4> QED BY <2>2, <3>2, <4>1, <4>3
    <3> QED BY <3>1, <3>2
  <2>4. h \in [Upto(D, n + 1) -> Int]
    BY <2>2, <2>3
  <2>5. \A s \in Upto(D, n + 1) : h[s] = Sum(h, s)
    BY <2>3
  <2>6. n + 1 \in Nat /\ \E e \in [Upto(D, n + 1) -> Int] : \A s \in Upto(D, n + 1) : e[s] = Sum(e, s)
    BY <2>4, <2>5
  <2> QED BY <2>6
<1>5. Cardinality(D) \in S
  <2>1. Nat \subseteq S
    <3> HIDE DEF S
    <3> QED BY <1>3, <1>4, MemberInduction
  <2> QED BY <1>1, <2>1
<1>6. Upto(D, Cardinality(D)) = SUBSET D
  BY <1>1 DEF Upto
<1>7. PICK g \in [SUBSET D -> Int] : \A s \in SUBSET D : g[s] = Sum(g, s)
  BY <1>5, <1>6
<1>8. SumsUp(g, f, D)
  BY <1>7 DEF SumsUp
<1>9. SumsUp(SumsOf(f, D), f, D)
  BY <1>8 DEF SumsOf
<1>10. \A s \in SUBSET D : SumsOf(f, D)[s] \in Int
  <2> DEFINE Q == {s \in SUBSET D : SumsOf(f, D)[s] \in Int}
  <2>1. \A s \in SUBSET D : SumsOf(f, D)[s] = Sum(SumsOf(f, D), s)
    BY <1>9 DEF SumsUp
  <2>2. {} \in Q
    <3>1. {} \in SUBSET D
      OBVIOUS
    <3>2. SumsOf(f, D)[{}] = 0
      BY <2>1, <3>1
    <3> QED BY <3>1, <3>2
  <2>3. ASSUME NEW s \in SUBSET D, s # {}, \A x \in s : s \ {x} \in Q PROVE s \in Q
    <3>1. Pick(s) \in s
      BY <2>3 DEF Pick
    <3>2. f[Pick(s)] \in Int /\ SumsOf(f, D)[s \ {Pick(s)}] \in Int
      BY <2>3, <3>1
    <3> QED BY <2>1, <2>3, <3>2
  <2> HIDE DEF Q
  <2>4. \A s \in SUBSET D : s \in Q
    BY <2>2, <2>3, SubsetInduction
  <2> QED BY <2>4 DEF Q
<1>11. DOMAIN SumsOf(f, D) = SUBSET D
  BY <1>9 DEF SumsUp
<1>12. SumsOf(f, D) = [s \in SUBSET D |-> SumsOf(f, D)[s]]
  BY <1>9 DEF SumsUp
<1> QED BY <1>9, <1>10, <1>12

LEMMA SumsAre ==
    ASSUME NEW D, IsFiniteSet(D), NEW f, \A x \in D : f[x] \in Int
    PROVE  /\ SumsOf(f, D)[{}] = 0
           /\ \A s \in SUBSET D :
                 /\ SumsOf(f, D)[s] \in Int
                 /\ s # {} => SumsOf(f, D)[s] = f[Pick(s)] + SumsOf(f, D)[s \ {Pick(s)}]
<1> DEFINE g == SumsOf(f, D)
<1>1. SumsUp(g, f, D) /\ g \in [SUBSET D -> Int]
  BY SumsExist
<1> HIDE DEF g
<1>2. g = [s \in SUBSET D |-> IF s = {} THEN 0 ELSE f[Pick(s)] + g[s \ {Pick(s)}]]
  BY <1>1 DEF SumsUp
<1>3. {} \in SUBSET D
  OBVIOUS
<1>4. g[{}] = 0
  BY <1>2, <1>3
<1>5. \A s \in SUBSET D : s # {} => g[s] = f[Pick(s)] + g[s \ {Pick(s)}]
  BY <1>2
<1> QED BY <1>1, <1>4, <1>5 DEF g

\* A sum is made of any of its elements and the rest.
LEMMA AnyOrder ==
    ASSUME NEW D, IsFiniteSet(D), NEW f, \A x \in D : f[x] \in Int
    PROVE  \A s \in SUBSET D : \A x \in s : SumsOf(f, D)[s] = f[x] + SumsOf(f, D)[s \ {x}]
<1> DEFINE g == SumsOf(f, D)
           Q == {s \in SUBSET D : \A x \in s : g[s] = f[x] + g[s \ {x}]}
<1>1. \A s \in SUBSET D : g[s] \in Int /\ (s # {} => g[s] = f[Pick(s)] + g[s \ {Pick(s)}])
  BY SumsAre
<1> HIDE DEF g
<1>2. {} \in Q
  OBVIOUS
<1>3. ASSUME NEW s \in SUBSET D, s # {}, \A x \in s : s \ {x} \in Q PROVE s \in Q
  <2> SUFFICES ASSUME NEW x \in s, x # Pick(s) PROVE g[s] = f[x] + g[s \ {x}]
    BY <1>1, <1>3
  <2>1. PICK y \in s : y = Pick(s)
    BY DEF Pick
  <2>2. g[s] = f[y] + g[s \ {y}] /\ y # x
    BY <1>1, <2>1
  <2>3. g[s \ {y}] = f[x] + g[(s \ {y}) \ {x}]
    BY <1>3, <2>1, <2>2
  <2>4. g[s \ {x}] = f[y] + g[(s \ {x}) \ {y}]
    BY <1>3, <2>1, <2>2
  <2> DEFINE rest == g[(s \ {y}) \ {x}]
  <2>5. g[s \ {x}] = f[y] + rest
    <3>1. (s \ {x}) \ {y} = (s \ {y}) \ {x}
      OBVIOUS
    <3> QED BY <2>4, <3>1
  <2>6. f[x] \in Int /\ f[y] \in Int /\ rest \in Int
    BY <1>1, <2>1
  <2>7. g[s \ {y}] = f[x] + rest
    BY <2>3
  <2> HIDE DEF rest
  <2> QED BY <2>2, <2>5, <2>6, <2>7
<1> HIDE DEF Q
<1>4. \A s \in SUBSET D : s \in Q
  BY <1>2, <1>3, SubsetInduction
<1> QED BY <1>4 DEF Q, g

\* A sum over a part does not hang on the whole.
LEMMA SumOfPart ==
    ASSUME NEW D, IsFiniteSet(D), NEW f, \A x \in D : f[x] \in Int, NEW C \in SUBSET D
    PROVE  SumsOf(f, D)[C] = SumFunctionOnSet(f, C)
<1> DEFINE g == SumsOf(f, D)
           h == SumsOf(f, C)
           Q == {s \in SUBSET C : g[s] = h[s]}
<1>1. IsFiniteSet(C) /\ \A x \in C : f[x] \in Int
  BY FS_Subset
<1>2. g[{}] = 0 /\ \A s \in SUBSET D : s # {} => g[s] = f[Pick(s)] + g[s \ {Pick(s)}]
  BY SumsAre
<1>3. h[{}] = 0 /\ \A s \in SUBSET C : s # {} => h[s] = f[Pick(s)] + h[s \ {Pick(s)}]
  BY <1>1, SumsAre
<1>4. g[{}] = h[{}]
  BY <1>2, <1>3
<1> HIDE DEF g, h
<1>5. {} \in Q
  BY <1>4
<1>6. ASSUME NEW s \in SUBSET C, s # {}, \A x \in s : s \ {x} \in Q PROVE s \in Q
  <2>1. Pick(s) \in s /\ s \in SUBSET D
    BY <1>6 DEF Pick
  <2>2. g[s \ {Pick(s)}] = h[s \ {Pick(s)}]
    BY <1>6, <2>1
  <2> QED BY <1>2, <1>3, <1>6, <2>1, <2>2
<1>7. C \in Q
  <2> HIDE DEF Q
  <2>1. \A s \in SUBSET C : s \in Q
    BY <1>1, <1>5, <1>6, SubsetInduction
  <2> QED BY <2>1
<1> QED BY <1>7, SumIsFold DEF g, h

LEMMA SumEmpty == ASSUME NEW f PROVE SumFunctionOnSet(f, {}) = 0
<1>1. IsFiniteSet({}) /\ \A x \in {} : f[x] \in Int
  BY FS_EmptySet
<1>2. SumsOf(f, {})[{}] = 0
  BY <1>1, SumsAre
<1> QED BY <1>2, SumIsFold

LEMMA SumStep ==
    ASSUME NEW D, IsFiniteSet(D), NEW f, \A x \in D : f[x] \in Int
    PROVE  /\ SumFunctionOnSet(f, D) \in Int
           /\ \A x \in D : SumFunctionOnSet(f, D) = f[x] + SumFunctionOnSet(f, D \ {x})
<1>1. D \in SUBSET D
  OBVIOUS
<1>2. SumFunctionOnSet(f, D) = SumsOf(f, D)[D] /\ SumsOf(f, D)[D] \in Int
  BY <1>1, SumIsFold, SumsAre
<1>3. ASSUME NEW x \in D PROVE SumFunctionOnSet(f, D) = f[x] + SumFunctionOnSet(f, D \ {x})
  <2>1. D \ {x} \in SUBSET D
    OBVIOUS
  <2>2. SumsOf(f, D)[D \ {x}] = SumFunctionOnSet(f, D \ {x})
    BY <2>1, SumOfPart
  <2>3. SumsOf(f, D)[D] = f[x] + SumsOf(f, D)[D \ {x}]
    BY <1>1, AnyOrder
  <2> QED BY <1>2, <2>2, <2>3
<1> QED BY <1>2, <1>3

Total(f, D) == SumFunctionOnSet(f, D)

Ints(f, D) == \A x \in D : f[x] \in Int

\* Over every part of D, the sum is a number, and is made of any element and the rest.
Adds(f, D) ==
    \A s \in SUBSET D : Total(f, s) \in Int /\ \A x \in s : Total(f, s) = f[x] + Total(f, s \ {x})

LEMMA TotalParts == ASSUME NEW D, IsFiniteSet(D), NEW f, Ints(f, D) PROVE Total(f, {}) = 0 /\ Adds(f, D)
<1>1. \A s \in SUBSET D : IsFiniteSet(s) /\ \A x \in s : f[x] \in Int
  BY FS_Subset DEF Ints
<1> QED BY <1>1, SumEmpty, SumStep DEF Total, Adds

LEMMA TotalPlus ==
    ASSUME NEW D, IsFiniteSet(D), NEW f, NEW g, NEW h,
           \A x \in D : f[x] \in Int /\ g[x] \in Int /\ h[x] = f[x] + g[x]
    PROVE  Total(h, D) = Total(f, D) + Total(g, D)
<1> DEFINE Q == {s \in SUBSET D : Total(h, s) = Total(f, s) + Total(g, s)}
<1>1. Ints(f, D) /\ Ints(g, D) /\ Ints(h, D)
  BY DEF Ints
<1>2. Total(f, {}) = 0 /\ Total(g, {}) = 0 /\ Total(h, {}) = 0
  BY <1>1, TotalParts
<1>3. \A s \in SUBSET D : /\ Total(f, s) \in Int /\ Total(g, s) \in Int /\ Total(h, s) \in Int
                          /\ \A x \in s : /\ Total(f, s) = f[x] + Total(f, s \ {x})
                                          /\ Total(g, s) = g[x] + Total(g, s \ {x})
                                          /\ Total(h, s) = h[x] + Total(h, s \ {x})
  <2>1. Adds(f, D)
    BY <1>1, TotalParts
  <2>2. Adds(g, D)
    BY <1>1, TotalParts
  <2>3. Adds(h, D)
    BY <1>1, TotalParts
  <2> QED BY <2>1, <2>2, <2>3 DEF Adds
<1>4. {} \in Q
  BY <1>2
<1>5. ASSUME NEW s \in SUBSET D, s # {}, \A x \in s : s \ {x} \in Q PROVE s \in Q
  <2>1. PICK x \in s : TRUE
    BY <1>5
  <2>2. Total(h, s \ {x}) = Total(f, s \ {x}) + Total(g, s \ {x})
    BY <1>5, <2>1
  <2>3. s \ {x} \in SUBSET D /\ x \in D
    BY <2>1
  <2>4. Total(f, s \ {x}) \in Int /\ Total(g, s \ {x}) \in Int
    BY <1>3, <2>3
  <2>5. /\ Total(f, s) = f[x] + Total(f, s \ {x}) /\ Total(g, s) = g[x] + Total(g, s \ {x})
        /\ Total(h, s) = h[x] + Total(h, s \ {x})
    BY <1>3, <2>1
  <2>6. Total(h, s) = Total(f, s) + Total(g, s)
    BY <2>2, <2>3, <2>4, <2>5
  <2> QED BY <2>6
<1> HIDE DEF Q
<1>6. \A s \in SUBSET D : s \in Q
  BY <1>4, <1>5, SubsetInduction
<1> QED BY <1>6 DEF Q

LEMMA TotalTimes ==
    ASSUME NEW D, IsFiniteSet(D), NEW c \in Int, NEW f, NEW h, \A x \in D : f[x] \in Int /\ h[x] = c * f[x]
    PROVE  Total(h, D) = c * Total(f, D)
<1> DEFINE Q == {s \in SUBSET D : Total(h, s) = c * Total(f, s)}
<1>1. Ints(f, D) /\ Ints(h, D)
  BY DEF Ints
<1>2. Total(f, {}) = 0 /\ Total(h, {}) = 0
  BY <1>1, TotalParts
<1>3. \A s \in SUBSET D : /\ Total(f, s) \in Int /\ Total(h, s) \in Int
                          /\ \A x \in s : /\ Total(f, s) = f[x] + Total(f, s \ {x})
                                          /\ Total(h, s) = h[x] + Total(h, s \ {x})
  <2>1. Adds(f, D)
    BY <1>1, TotalParts
  <2>2. Adds(h, D)
    BY <1>1, TotalParts
  <2> QED BY <2>1, <2>2 DEF Adds
<1>4. {} \in Q
  BY <1>2
<1>5. ASSUME NEW s \in SUBSET D, s # {}, \A x \in s : s \ {x} \in Q PROVE s \in Q
  <2>1. PICK x \in s : TRUE
    BY <1>5
  <2>2. Total(h, s \ {x}) = c * Total(f, s \ {x})
    BY <1>5, <2>1
  <2>3. s \ {x} \in SUBSET D /\ x \in D
    BY <2>1
  <2>4. Total(f, s \ {x}) \in Int /\ f[x] \in Int
    BY <1>3, <2>3
  <2>5. Total(f, s) = f[x] + Total(f, s \ {x}) /\ Total(h, s) = c * f[x] + Total(h, s \ {x})
    BY <1>3, <2>1, <2>3
  <2>6. \A a, b \in Int : c * (a + b) = c * a + c * b
    OBVIOUS
  <2>7. Total(h, s) = c * Total(f, s)
    BY <2>2, <2>4, <2>5, <2>6
  <2> QED BY <2>7
<1> HIDE DEF Q
<1>6. \A s \in SUBSET D : s \in Q
  BY <1>4, <1>5, SubsetInduction
<1> QED BY <1>6 DEF Q

LEMMA TotalLess ==
    ASSUME NEW D, IsFiniteSet(D), NEW f, NEW h, \A x \in D : f[x] \in Int /\ h[x] \in Int /\ f[x] <= h[x]
    PROVE  Total(f, D) <= Total(h, D)
<1> DEFINE Q == {s \in SUBSET D : Total(f, s) <= Total(h, s)}
<1>1. Ints(f, D) /\ Ints(h, D)
  BY DEF Ints
<1>2. Total(f, {}) = 0 /\ Total(h, {}) = 0
  BY <1>1, TotalParts
<1>3. \A s \in SUBSET D : /\ Total(f, s) \in Int /\ Total(h, s) \in Int
                          /\ \A x \in s : /\ Total(f, s) = f[x] + Total(f, s \ {x})
                                          /\ Total(h, s) = h[x] + Total(h, s \ {x})
  <2>1. Adds(f, D)
    BY <1>1, TotalParts
  <2>2. Adds(h, D)
    BY <1>1, TotalParts
  <2> QED BY <2>1, <2>2 DEF Adds
<1>4. {} \in Q
  BY <1>2
<1>5. ASSUME NEW s \in SUBSET D, s # {}, \A x \in s : s \ {x} \in Q PROVE s \in Q
  <2>1. PICK x \in s : TRUE
    BY <1>5
  <2>2. Total(f, s \ {x}) <= Total(h, s \ {x})
    BY <1>5, <2>1
  <2>3. s \ {x} \in SUBSET D /\ x \in D
    BY <2>1
  <2>4. Total(f, s \ {x}) \in Int /\ Total(h, s \ {x}) \in Int
    BY <1>3, <2>3
  <2>5. Total(f, s) = f[x] + Total(f, s \ {x}) /\ Total(h, s) = h[x] + Total(h, s \ {x})
    BY <1>3, <2>1
  <2>6. Total(f, s) <= Total(h, s)
    BY <2>2, <2>3, <2>4, <2>5
  <2> QED BY <2>6
<1> HIDE DEF Q
<1>6. \A s \in SUBSET D : s \in Q
  BY <1>4, <1>5, SubsetInduction
<1> QED BY <1>6 DEF Q

LEMMA TotalSame ==
    ASSUME NEW D, IsFiniteSet(D), NEW f, NEW h, \A x \in D : f[x] \in Int /\ h[x] = f[x]
    PROVE  Total(h, D) = Total(f, D)
<1>1. Total(h, D) \in Int /\ Total(f, D) \in Int
  <2>1. Adds(f, D) /\ Adds(h, D) /\ D \in SUBSET D
    BY TotalParts DEF Ints
  <2> QED BY <2>1 DEF Adds
<1>2. \A x \in D : f[x] \in Int /\ h[x] \in Int /\ f[x] <= h[x] /\ h[x] <= f[x]
  OBVIOUS
<1>3. Total(f, D) <= Total(h, D) /\ Total(h, D) <= Total(f, D)
  BY <1>2, TotalLess
<1> QED BY <1>1, <1>3

\* What is zero outside C sums up to what it does over C.
LEMMA TotalPart ==
    ASSUME NEW D, IsFiniteSet(D), NEW C \in SUBSET D, NEW f,
           \A x \in D : f[x] \in Int /\ (x \notin C => f[x] = 0)
    PROVE  Total(f, D) = Total(f, C)
<1> DEFINE Q == {s \in SUBSET D : Total(f, s) = Total(f, s \cap C)}
<1>1. Ints(f, D)
  BY DEF Ints
<1>2. \A s \in SUBSET D : Total(f, s) \in Int /\ \A x \in s : Total(f, s) = f[x] + Total(f, s \ {x})
  BY <1>1, TotalParts DEF Adds
<1>3. {} \in Q
  <2>1. {} \cap C = {}
    OBVIOUS
  <2> QED BY <2>1
<1>4. ASSUME NEW s \in SUBSET D, s # {}, \A x \in s : s \ {x} \in Q PROVE s \in Q
  <2>1. CASE s \subseteq C
    <3>1. s \cap C = s
      BY <2>1
    <3> QED BY <3>1
  <2>2. CASE ~(s \subseteq C)
    <3>1. PICK x \in s : x \notin C
      BY <2>2
    <3>2. s \ {x} \in SUBSET D /\ f[x] = 0 /\ (s \ {x}) \cap C = s \cap C
      BY <3>1
    <3>3. Total(f, s \ {x}) = Total(f, s \cap C)
      <4>1. s \ {x} \in Q
        BY <1>4, <3>1
      <4>2. Total(f, s \ {x}) = Total(f, (s \ {x}) \cap C)
        BY <4>1
      <4> QED BY <3>2, <4>2
    <3>4. Total(f, s) = f[x] + Total(f, s \ {x}) /\ Total(f, s \ {x}) \in Int
      BY <1>2, <3>1, <3>2
    <3>5. Total(f, s) = Total(f, s \cap C)
      BY <3>2, <3>3, <3>4
    <3> QED BY <3>5
  <2> QED BY <2>1, <2>2
<1> HIDE DEF Q
<1>5. \A s \in SUBSET D : s \in Q
  BY <1>3, <1>4, SubsetInduction
<1>6. D \cap C = C
  OBVIOUS
<1> QED BY <1>5, <1>6 DEF Q

\* As many times k as there are members of T.
LEMMA TotalCount ==
    ASSUME NEW D, IsFiniteSet(D), NEW T \in SUBSET D, NEW k \in Int, NEW f,
           \A x \in D : f[x] = IF x \in T THEN k ELSE 0
    PROVE  Total(f, D) = Cardinality(T) * k
<1> DEFINE Q == {s \in SUBSET T : Total(f, s) = Cardinality(s) * k}
<1>1. IsFiniteSet(T) /\ \A s \in SUBSET T : IsFiniteSet(s) /\ Cardinality(s) \in Nat
  BY FS_Subset, FS_CardinalityType
<1>2. \A x \in D : f[x] \in Int /\ (x \notin T => f[x] = 0)
  OBVIOUS
<1>3. Total(f, {}) = 0 /\ \A s \in SUBSET T : /\ Total(f, s) \in Int
                                              /\ \A x \in s : Total(f, s) = f[x] + Total(f, s \ {x})
  <2>1. Total(f, {}) = 0 /\ Adds(f, D)
    BY <1>2, TotalParts DEF Ints
  <2> QED BY <2>1 DEF Adds
<1>4. {} \in Q
  BY <1>3, FS_EmptySet
<1>5. ASSUME NEW s \in SUBSET T, s # {}, \A x \in s : s \ {x} \in Q PROVE s \in Q
  <2>1. PICK x \in s : TRUE
    BY <1>5
  <2>2. Total(f, s \ {x}) = Cardinality(s \ {x}) * k
    BY <1>5, <2>1
  <2>3. Cardinality(s \ {x}) = Cardinality(s) - 1 /\ Cardinality(s) \in Nat
    BY <1>1, <2>1, FS_RemoveElement
  <2>4. Total(f, s) = k + Total(f, s \ {x})
    <3>1. f[x] = k
      BY <2>1
    <3> QED BY <1>3, <2>1, <3>1
  <2>5. \A n \in Int : (n - 1) * k = n * k - k /\ n * k \in Int
    OBVIOUS
  <2>6. Total(f, s) = Cardinality(s) * k
    BY <2>2, <2>3, <2>4, <2>5
  <2> QED BY <2>6
<1> HIDE DEF Q
<1>6. \A s \in SUBSET T : s \in Q
  BY <1>1, <1>4, <1>5, SubsetInduction
<1>7. Total(f, D) = Total(f, T)
  BY <1>2, TotalPart
<1> QED BY <1>6, <1>7 DEF Q

-----------------------------------------------------------------------------
(* What the lists say, and when.                                           *)

Listing == [phase : [Pod -> Phase], at : Nat]

Taken == [time : Nat, dt : Nat, count : Nat]

Decision == [time : Nat, phi : Phi \cup {NoPhi}]

Clocked ==
    /\ now <= MaxTime /\ last \in 0 .. now /\ unseen \in Nat
    /\ list \in Listing /\ list.at <= now
    /\ polled # NoList => polled \in Listing /\ last < polled.at /\ polled.at <= now
    /\ settling = "polled" => fresh \in Listing /\ fresh.at <= now
    /\ samples \in Seq(Taken) /\ \A i \in DOMAIN samples : samples[i].dt <= samples[i].time /\ samples[i].time <= now
    /\ episode \in Seq(Decision) /\ \A k \in DOMAIN episode : episode[k].time <= now
    /\ settling # "none" => episode # <<>>
    /\ \A p \in Pod : /\ pod[p].created <= now /\ pod[p].started <= now /\ pod[p].finished <= now
                      /\ pod[p].phase \in Ended => pod[p].created <= pod[p].finished

\* What l says of a pod is what the pod was when l was polled.
TellsOf(l, p) ==
    /\ l.phase[p] # "none" => pod[p].phase # "none" /\ pod[p].created <= l.at
    /\ l.phase[p] = "none" /\ pod[p].phase # "none" => l.at <= pod[p].created
    /\ l.phase[p] \in Ended => pod[p].phase \in Ended /\ pod[p].finished <= l.at
    /\ l.phase[p] \notin Ended /\ pod[p].phase \in Ended => l.at <= pod[p].finished

Tells(l) == \A p \in Pod : TellsOf(l, p)

Told == Tells(list) /\ (polled # NoList => Tells(polled)) /\ (settling = "polled" => Tells(fresh))

\* l lacks nothing that has come or gone.
Whole(l) == \A p \in Pod : /\ pod[p].phase # "none" => l.phase[p] # "none"
                           /\ pod[p].phase \in Ended => l.phase[p] \in Ended

\* The last list is not newer than the last sample, but for the one that settle read.
Ahead ==
    /\ settling \in {"none", "polled"} => list.at <= last
    /\ complete /\ settling = "polled" => Whole(fresh)
    /\ complete /\ settling = "read" => list.at <= last \/ Whole(list)

Held == Inv /\ Clocked /\ Told /\ Ahead

LEMMA ClockedInit == Init => Clocked /\ Told /\ Ahead
<1> SUFFICES ASSUME Init PROVE Clocked /\ Told /\ Ahead
  OBVIOUS
<1>1. /\ now = 0 /\ last = 0 /\ unseen = 0 /\ polled = NoList /\ settling = "none" /\ ~complete
      /\ samples = <<>> /\ episode = <<>> /\ pod = [p \in Pod |-> Absent]
      /\ list = [phase |-> [p \in Pod |-> "none"], at |-> 0]
  BY DEF Init, Phases, Absent
<1>2. list \in Listing /\ MaxTime \in Nat
  BY <1>1, EpisodeAssumption DEF Listing, Phase
<1>3. Clocked
  BY <1>1, <1>2 DEF Clocked, Absent, Ended
<1>4. Told
  BY <1>1 DEF Told, Tells, TellsOf, Absent, Ended
<1> QED BY <1>1, <1>3, <1>4 DEF Ahead

\* What happens to a pod happens now, after any list was polled.
LEMMA StillTells ==
    ASSUME Inv, Clocked, NEW p \in Pod, Arrives(p) \/ Decides(p) \/ Finishes(p), NEW l \in Listing, l.at <= now,
           Tells(l)
    PROVE  Tells(l)'
<1>1. pod \in [Pod -> [phase : Phase, created : Nat, started : Nat, finished : Nat]] /\ now \in Nat /\ l.at \in Nat
  BY DEF Inv, Shape, Listing
<1>2. \A q \in Pod \ {p} : pod'[q] = pod[q]
  BY <1>1 DEF Arrives, Decides, Finishes
<1>3. ASSUME NEW q \in Pod, q # p PROVE TellsOf(l, q)'
  BY <1>2, <1>3 DEF Tells, TellsOf
<1>4. TellsOf(l, p)'
  <2>0. TellsOf(l, p)
    BY DEF Tells
  <2>1. CASE Arrives(p)
    <3>1. /\ pod[p].phase = "none" /\ pod'[p].phase = "pending" /\ pod'[p].created = now
          /\ pod'[p].finished = pod[p].finished
      BY <1>1, <2>1 DEF Arrives
    <3> QED BY <2>0, <3>1 DEF TellsOf, Ended
  <2>2. CASE Decides(p)
    <3>1. /\ pod[p].phase = "pending" /\ pod'[p].phase = "running" /\ pod'[p].created = pod[p].created
          /\ pod'[p].finished = pod[p].finished
      BY <1>1, <2>2 DEF Decides
    <3> QED BY <2>0, <3>1 DEF TellsOf, Ended
  <2>3. CASE Finishes(p)
    <3>1. /\ pod[p].phase = "running" /\ pod'[p].phase \in Ended /\ pod'[p].created = pod[p].created
          /\ pod'[p].finished = now
      BY <1>1, <2>3 DEF Finishes
    <3> QED BY <2>0, <3>1 DEF TellsOf, Ended
  <2> QED BY <2>1, <2>2, <2>3
<1> QED BY <1>3, <1>4 DEF Tells

\* What a pod does changes no list and, once the run is complete, no longer happens.
LEMMA PodHolds ==
    ASSUME Held, NEW p \in Pod, Arrives(p) \/ Decides(p) \/ Finishes(p)
    PROVE  (Clocked /\ Told /\ Ahead)'
<1>1. /\ UNCHANGED <<now, list, last, samples, polled, settling, fresh, complete, unseen>>
      /\ ~complete /\ pod \in [Pod -> [phase : Phase, created : Nat, started : Nat, finished : Nat]] /\ now \in Nat
  BY DEF Arrives, Decides, Finishes, observed, call, Held, Inv, Over, Shape, Ended
<1>2. \A l \in Listing : l.at <= now /\ Tells(l) => Tells(l)'
  BY StillTells DEF Held
<1>3. Told'
  <2>1. Tells(list)'
    BY <1>1, <1>2 DEF Held, Told, Clocked, Tells, TellsOf
  <2>2. polled # NoList => Tells(polled)'
    BY <1>1, <1>2 DEF Held, Told, Clocked, Tells, TellsOf
  <2>3. settling = "polled" => Tells(fresh)'
    BY <1>1, <1>2 DEF Held, Told, Clocked, Tells, TellsOf
  <2> QED BY <1>1, <2>1, <2>2, <2>3 DEF Told
<1>4. \A q \in Pod : /\ pod'[q].created <= now /\ pod'[q].started <= now /\ pod'[q].finished <= now
                     /\ pod'[q].phase \in Ended => pod'[q].created <= pod'[q].finished
  <2>1. \A q \in Pod : /\ pod[q].created <= now /\ pod[q].started <= now /\ pod[q].finished <= now
                       /\ pod[q].phase \in Ended => pod[q].created <= pod[q].finished
    BY DEF Held, Clocked
  <2>2. CASE Arrives(p)
    BY <1>1, <2>1, <2>2 DEF Arrives, Ended
  <2>3. CASE Decides(p)
    BY <1>1, <2>1, <2>3 DEF Decides, Ended
  <2>4. CASE Finishes(p)
    BY <1>1, <2>1, <2>4 DEF Finishes, Ended
  <2> QED BY <2>2, <2>3, <2>4
<1>5. /\ episode' \in Seq(Decision) /\ \A k \in DOMAIN episode' : episode'[k].time <= now
      /\ settling # "none" => episode' # <<>>
  <2>1. /\ episode \in Seq(Decision) /\ \A k \in DOMAIN episode : episode[k].time <= now
        /\ settling # "none" => episode # <<>>
    BY DEF Held, Clocked
  <2>2. CASE Decides(p)
    <3>1. PICK phi \in Phi \cup {NoPhi} : episode' = Append(episode, [time |-> now, phi |-> phi])
      BY <2>2 DEF Decides
    <3> DEFINE e == [time |-> now, phi |-> phi]
    <3>2. e \in Decision /\ e.time = now
      BY <1>1 DEF Decision
    <3> HIDE DEF e
    <3>3. /\ episode' \in Seq(Decision) /\ Len(episode') = Len(episode) + 1 /\ Len(episode) \in Nat
          /\ \A k \in 1 .. Len(episode) : episode'[k] = episode[k]
          /\ episode'[Len(episode) + 1] = e
      BY <2>1, <3>1, <3>2, AppendProperties DEF e
    <3>4. episode' # <<>> /\ DOMAIN episode' = 1 .. Len(episode) + 1 /\ DOMAIN episode = 1 .. Len(episode)
      BY <2>1, <3>3
    <3>5. ASSUME NEW k \in DOMAIN episode' PROVE episode'[k].time <= now
      <4>1. CASE k \in 1 .. Len(episode)
        BY <2>1, <3>3, <3>4, <4>1
      <4>2. CASE k = Len(episode) + 1
        BY <1>1, <3>2, <3>3, <4>2
      <4> QED BY <3>3, <3>4, <3>5, <4>1, <4>2
    <3> QED BY <3>3, <3>4, <3>5
  <2>3. CASE ~Decides(p)
    <3>1. episode' = episode
      BY <2>3 DEF Arrives, Finishes
    <3> QED BY <2>1, <3>1
  <2> QED BY <2>2, <2>3
<1>6. Clocked'
  BY <1>1, <1>4, <1>5 DEF Held, Clocked
<1> QED BY <1>1, <1>3, <1>6 DEF Held, Ahead

LEMMA PhasesListing == Inv => Phases \in [Pod -> Phase]
  BY PhasesAre DEF Inv, Shape, Phases

\* A list polled now tells of every pod, and lacks nothing.
LEMMA FreshTells ==
    ASSUME Inv, Clocked
    PROVE  LET l == [phase |-> Phases, at |-> now] IN l \in Listing /\ Tells(l) /\ Whole(l)
<1> DEFINE l == [phase |-> Phases, at |-> now]
<1>1. l \in Listing
  BY PhasesListing DEF Listing, Inv, Shape
<1>2. l.at = now /\ \A p \in Pod : l.phase[p] = pod[p].phase
  BY PhasesAre
<1> HIDE DEF l
<1>3. \A p \in Pod : pod[p].created <= now /\ pod[p].finished <= now
  BY DEF Clocked
<1>4. Tells(l) /\ Whole(l)
  BY <1>2, <1>3 DEF Tells, TellsOf, Whole
<1> QED BY <1>1, <1>4 DEF l

LEMMA TickHolds == ASSUME Held, Tick PROVE (Clocked /\ Told /\ Ahead)'
<1>1. /\ now < MaxTime /\ now' = now + 1 /\ now \in Nat /\ MaxTime \in Nat
      /\ UNCHANGED <<pod, list, last, samples, polled, episode, settling, fresh, complete, unseen>>
  BY EpisodeAssumption DEF Tick, observed, call, Held, Inv, Shape
<1>2. Told'
  BY <1>1 DEF Held, Told, Tells, TellsOf
<1>3. Ahead'
  BY <1>1 DEF Held, Ahead, Whole
<1>4. \A p \in Pod : pod[p].created \in Nat /\ pod[p].started \in Nat /\ pod[p].finished \in Nat
  BY DEF Held, Inv, Shape
<1>5. /\ \A i \in DOMAIN samples : samples[i].time \in Nat /\ samples[i].time <= now
      /\ \A k \in DOMAIN episode : episode[k].time \in Nat /\ episode[k].time <= now
  <2>1. \A s \in Seq(Taken) : \A i \in DOMAIN s : s[i] \in Taken
    OBVIOUS
  <2>2. \A s \in Seq(Decision) : \A i \in DOMAIN s : s[i] \in Decision
    OBVIOUS
  <2> QED BY <2>1, <2>2 DEF Held, Clocked, Taken, Decision
<1>6. /\ last' \in 0 .. now' /\ list'.at <= now' /\ now' <= MaxTime
      /\ polled' # NoList => polled' \in Listing /\ last' < polled'.at /\ polled'.at <= now'
      /\ settling' = "polled" => fresh' \in Listing /\ fresh'.at <= now'
  BY <1>1 DEF Held, Clocked, Listing
<1>7. \A p \in Pod : /\ pod'[p].created <= now' /\ pod'[p].started <= now' /\ pod'[p].finished <= now'
                     /\ pod'[p].phase \in Ended => pod'[p].created <= pod'[p].finished
  BY <1>1, <1>4 DEF Held, Clocked
<1>8. /\ \A i \in DOMAIN samples' : samples'[i].dt <= samples'[i].time /\ samples'[i].time <= now'
      /\ \A k \in DOMAIN episode' : episode'[k].time <= now'
  BY <1>1, <1>5 DEF Held, Clocked
<1>9. Clocked'
  BY <1>1, <1>6, <1>7, <1>8 DEF Held, Clocked
<1> QED BY <1>2, <1>3, <1>9

LEMMA PollHolds == ASSUME Held, Poll PROVE (Clocked /\ Told /\ Ahead)'
<1> DEFINE l == [phase |-> Phases, at |-> now]
<1>1. /\ polled' = l /\ last < now
      /\ UNCHANGED <<now, pod, list, last, samples, episode, settling, fresh, complete, unseen>>
  BY DEF Poll, observed, call, Held, Inv, Shape, Clocked
<1>2. l \in Listing /\ l.at = now /\ Tells(l)
  BY FreshTells DEF Held
<1> HIDE DEF l
<1>3. Told'
  BY <1>1, <1>2 DEF Held, Told, Tells, TellsOf
<1>4. polled' \in Listing /\ last < polled'.at /\ polled'.at <= now /\ now \in Nat
  BY <1>1, <1>2 DEF Held, Inv, Shape
<1>5. Clocked'
  BY <1>1, <1>4 DEF Held, Clocked
<1> QED BY <1>1, <1>3, <1>5 DEF Held, Ahead, Whole

LEMMA SettlesHolds == ASSUME Held, Settles PROVE (Clocked /\ Told /\ Ahead)'
<1> DEFINE l == [phase |-> Phases, at |-> now]
<1>1. /\ fresh' = l /\ settling = "none" /\ settling' = "polled" /\ episode # <<>>
      /\ UNCHANGED <<now, pod, list, last, samples, polled, episode, unseen>>
  BY DEF Settles, observed
<1>2. l \in Listing /\ l.at = now /\ Tells(l) /\ Whole(l) /\ now \in Nat
  BY FreshTells DEF Held, Inv, Shape
<1> HIDE DEF l
<1>3. Told'
  BY <1>1, <1>2 DEF Held, Told, Tells, TellsOf
<1>4. Clocked'
  BY <1>1, <1>2 DEF Held, Clocked
<1> QED BY <1>1, <1>2, <1>3, <1>4 DEF Held, Ahead, Whole

\* Closing, learning and a log that is read leave the lists and the samples alone.
LEMMA LearningHolds ==
    ASSUME Held, (\E p \in Pod : ReadsLog(p)) \/ Learns \/ UNCHANGED vars
    PROVE  (Clocked /\ Told /\ Ahead)'
<1>1. /\ UNCHANGED <<now, pod, list, last, samples, polled, episode, fresh, complete, unseen>>
      /\ settling' = settling \/ (settling = "closed" /\ settling' = "learned")
  BY DEF ReadsLog, Learns, vars, observed, call
<1>2. settling' \in {"none", "polled", "read"} => settling' = settling
  BY <1>1
<1>3. settling' # "none" => settling # "none"
  BY <1>1
<1>4. Told' /\ Ahead'
  BY <1>1, <1>2 DEF Held, Told, Tells, TellsOf, Ahead, Whole
<1>5. Clocked'
  BY <1>1, <1>2, <1>3 DEF Held, Clocked
<1> QED BY <1>4, <1>5

-----------------------------------------------------------------------------
(* Reading a list, and taking a sample.                                    *)

Earlier(a, b) == IF a < b THEN a ELSE b

LEMMA MinOfTwo == ASSUME NEW a \in Int, NEW b \in Int PROVE Min({a, b}) = Earlier(a, b)
<1>1. Earlier(a, b) \in {a, b} /\ \A y \in {a, b} : Earlier(a, b) <= y
  BY DEF Earlier
<1>2. \A x \in {a, b} : (\A y \in {a, b} : x <= y) => x = Earlier(a, b)
  BY DEF Earlier
<1> QED BY <1>1, <1>2 DEF Min

\* How long what found newly shows, or no longer, went unseen at most.
Late(found) == now - Earlier(found.at, list.at)

LEMMA PodParts ==
    \A T \in SUBSET Pod : IsFiniteSet(T) /\ Cardinality(T) \in Nat
  BY EpisodeAssumption, FS_Subset, FS_CardinalityType

LEMMA ChangesCount ==
    ASSUME NEW phase
    PROVE  /\ Changes(phase) = Cardinality(SymDiff(Came(phase), Came(list.phase)))
                                   + Cardinality(SymDiff(Left(phase), Left(list.phase)))
           /\ Changes(phase) \in Nat
           /\ SymDiff(Came(phase), Came(list.phase)) \in SUBSET Pod
           /\ SymDiff(Left(phase), Left(list.phase)) \in SUBSET Pod
<1>1. /\ SymDiff(Came(phase), Came(list.phase)) \in SUBSET Pod
      /\ SymDiff(Left(phase), Left(list.phase)) \in SUBSET Pod
  BY DEF SymDiff, Came, Left
<1> QED BY <1>1, PodParts DEF Changes

\* What Reads does to unseen: no less than zero is added.
LEMMA LateCounts ==
    ASSUME Clocked, now \in Nat, NEW found \in Listing, found.at <= now
    PROVE  /\ Late(found) \in Nat /\ Late(found) = now - Min({found.at, list.at})
           /\ Changes(found.phase) * Late(found) \in Nat
<1>1. found.at \in Nat /\ list.at \in Nat /\ list.at <= now
  BY DEF Listing, Clocked
<1>2. Late(found) \in Nat
  BY <1>1 DEF Late, Earlier
<1>3. Late(found) = now - Min({found.at, list.at})
  BY <1>1, MinOfTwo DEF Late
<1>4. \A a, b \in Nat : a * b \in Nat
  OBVIOUS
<1> QED BY <1>2, <1>3, <1>4, ChangesCount

LEMMA UnfinishedCount == \A phase : Cardinality(Unfinished(phase)) \in Nat
<1>1. \A phase : Unfinished(phase) \in SUBSET Pod
  BY DEF Unfinished, Came
<1> QED BY <1>1, PodParts

\* The sample that is appended runs from the last one to now.
LEMMA SampleTaken ==
    ASSUME Held, last < now, Sample
    PROVE  LET z == Len(samples)
               e == [time |-> now, dt |-> now - last, count |-> Cardinality(Unfinished(list'.phase))]
           IN  /\ z \in Nat /\ DOMAIN samples = 1 .. z /\ DOMAIN samples' = 1 .. z + 1
               /\ \A i \in 1 .. z : samples'[i] = samples[i] /\ samples[i] \in Taken
               /\ samples'[z + 1] = e /\ e \in Taken
               /\ samples' \in Seq(Taken)
               /\ \A i \in DOMAIN samples' : samples'[i].dt <= samples'[i].time /\ samples'[i].time <= now
<1> DEFINE z == Len(samples)
           e == [time |-> now, dt |-> now - last, count |-> Cardinality(Unfinished(list'.phase))]
<1>1. now \in Nat /\ last \in Nat /\ samples \in Seq(Taken) /\ samples' = Append(samples, e)
  BY DEF Held, Inv, Shape, Clocked, Sample
<1>2. e \in Taken /\ e.time = now /\ e.dt <= e.time
  BY <1>1, UnfinishedCount DEF Taken
<1> HIDE DEF e
<1>3. /\ samples' \in Seq(Taken) /\ Len(samples') = z + 1 /\ z \in Nat /\ DOMAIN samples = 1 .. z
      /\ \A i \in 1 .. z : samples'[i] = samples[i]
      /\ samples'[z + 1] = e
  BY <1>1, <1>2, AppendProperties
<1>4. DOMAIN samples' = 1 .. z + 1
  BY <1>3
<1>5. \A i \in 1 .. z : samples[i] \in Taken
  BY <1>1, <1>3
<1>6. \A i \in 1 .. z : samples[i].dt <= samples[i].time /\ samples[i].time <= now
  BY <1>3 DEF Held, Clocked
<1> HIDE DEF z
<1>7. \A i \in DOMAIN samples' : samples'[i].dt <= samples'[i].time /\ samples'[i].time <= now
  <2> SUFFICES ASSUME NEW i \in 1 .. z + 1
               PROVE  samples'[i].dt <= samples'[i].time /\ samples'[i].time <= now
    BY <1>4
  <2>1. CASE i \in 1 .. z
    BY <1>3, <1>6, <2>1
  <2>2. CASE i = z + 1
    BY <1>1, <1>2, <1>3, <2>2
  <2> QED BY <1>3, <2>1, <2>2
<1> QED BY <1>2, <1>3, <1>4, <1>5, <1>7 DEF z, e

LEMMA ReadsPollHolds == ASSUME Held, ReadsPoll PROVE (Clocked /\ Told /\ Ahead)'
<1>1. /\ polled # NoList /\ Reads(polled) /\ Sample /\ last' = now /\ polled' = NoList
      /\ UNCHANGED <<now, pod, episode, settling, fresh, complete>>
  BY DEF ReadsPoll, call
<1>2. /\ polled \in Listing /\ last < polled.at /\ polled.at <= now /\ Tells(polled)
      /\ now \in Nat /\ last \in Nat /\ polled.at \in Nat
  BY <1>1 DEF Held, Clocked, Told, Inv, Shape, Listing
<1>3. list' = polled /\ unseen' = unseen + Changes(polled.phase) * Late(polled)
  BY <1>1, <1>2, LateCounts DEF Reads, Held
<1>4. unseen' \in Nat
  <2>1. Changes(polled.phase) * Late(polled) \in Nat
    BY <1>2, LateCounts DEF Held
  <2>2. unseen \in Nat
    BY DEF Held, Clocked
  <2> QED BY <1>3, <2>1, <2>2
<1>5. Told'
  BY <1>1, <1>2, <1>3 DEF Held, Told, Tells, TellsOf
<1>6. last < now
  BY <1>2
<1>7. samples' \in Seq(Taken) /\ \A i \in DOMAIN samples' : samples'[i].dt <= samples'[i].time /\ samples'[i].time <= now
  BY <1>1, <1>6, SampleTaken
<1>8. Clocked'
  BY <1>1, <1>2, <1>3, <1>4, <1>7 DEF Held, Clocked
<1>9. list'.at <= last'
  BY <1>1, <1>2, <1>3
<1> QED BY <1>1, <1>5, <1>8, <1>9 DEF Held, Ahead, Whole

LEMMA PollFailsHolds == ASSUME Held, PollFails PROVE (Clocked /\ Told /\ Ahead)'
<1>1. /\ last < now /\ Sample /\ last' = now /\ now \in Nat /\ polled = NoList
      /\ UNCHANGED <<now, pod, list, polled, episode, settling, fresh, complete, unseen>>
  BY DEF PollFails, call, Held, Inv, Shape, Clocked
<1>2. Told'
  BY <1>1 DEF Held, Told, Tells, TellsOf
<1>3. samples' \in Seq(Taken) /\ \A i \in DOMAIN samples' : samples'[i].dt <= samples'[i].time /\ samples'[i].time <= now
  BY <1>1, SampleTaken
<1>4. Clocked'
  BY <1>1, <1>3 DEF Held, Clocked
<1>5. list'.at <= last'
  BY <1>1 DEF Held, Clocked
<1> QED BY <1>1, <1>2, <1>4, <1>5 DEF Held, Ahead, Whole

LEMMA RefreshesHolds == ASSUME Held, Refreshes PROVE (Clocked /\ Told /\ Ahead)'
<1>1. /\ settling = "polled" /\ settling' = "read" /\ Reads(fresh)
      /\ UNCHANGED <<now, pod, last, samples, polled, episode, complete>>
  BY DEF Refreshes
<1>2. fresh \in Listing /\ fresh.at <= now /\ Tells(fresh) /\ now \in Nat /\ (complete => Whole(fresh))
  BY <1>1 DEF Held, Clocked, Told, Inv, Shape, Ahead
<1>3. list' = fresh /\ unseen' = unseen + Changes(fresh.phase) * Late(fresh)
  BY <1>1, <1>2, LateCounts DEF Reads, Held
<1>4. unseen' \in Nat
  <2>1. Changes(fresh.phase) * Late(fresh) \in Nat
    BY <1>2, LateCounts DEF Held
  <2>2. unseen \in Nat
    BY DEF Held, Clocked
  <2> QED BY <1>3, <2>1, <2>2
<1>5. Told'
  BY <1>1, <1>2, <1>3 DEF Held, Told, Tells, TellsOf
<1>6. Clocked'
  BY <1>1, <1>2, <1>3, <1>4 DEF Held, Clocked
<1> QED BY <1>1, <1>2, <1>3, <1>5, <1>6 DEF Ahead, Whole

LEMMA ClosesHolds == ASSUME Held, Closes PROVE (Clocked /\ Told /\ Ahead)'
<1>1. /\ settling = "read" /\ settling' = "closed"
      /\ unseen' = unseen + Changes(Phases) * (now - list.at)
      /\ UNCHANGED <<now, pod, list, last, samples, polled, episode, fresh, complete>>
  BY DEF Closes, observed
<1>2. unseen' \in Nat
  <2>1. now - list.at \in Nat /\ Changes(Phases) \in Nat /\ unseen \in Nat
    BY ChangesCount DEF Held, Clocked, Inv, Shape, Listing
  <2>2. \A a, b \in Nat : a * b \in Nat
    OBVIOUS
  <2> QED BY <1>1, <2>1, <2>2
<1>3. Told'
  BY <1>1 DEF Held, Told, Tells, TellsOf
<1>4. Clocked'
  BY <1>1, <1>2 DEF Held, Clocked
<1> QED BY <1>1, <1>3, <1>4 DEF Ahead

LEMMA HeldNext == Held /\ [Next]_vars => Held'
<1> SUFFICES ASSUME Held, [Next]_vars PROVE Held'
  OBVIOUS
<1>1. Inv'
  BY NextInv DEF Held
<1>2. (Clocked /\ Told /\ Ahead)'
  BY PodHolds, TickHolds, PollHolds, SettlesHolds, LearningHolds, ReadsPollHolds, PollFailsHolds,
     RefreshesHolds, ClosesHolds DEF Next
<1> QED BY <1>1, <1>2 DEF Held

-----------------------------------------------------------------------------
(* The time that is counted. Of each pod, the samples count the time from  *)
(* when it came, less that from when it left.                              *)

\* What a run that starts at b is charged of the time from f to t.
Charged(b, f, t) == Larger(t, b) - Larger(f, b)

LEMMA ChargedLaws ==
    ASSUME NEW b \in Int, NEW f \in Int, NEW t \in Int
    PROVE  /\ Charged(b, f, t) \in Int /\ Charged(b, t, f) = -Charged(b, f, t) /\ Charged(b, f, f) = 0
           /\ f <= t => 0 <= Charged(b, f, t) /\ Charged(b, f, t) <= t - f
           /\ \A m \in Int : Charged(b, f, m) + Charged(b, m, t) = Charged(b, f, t)
  BY DEF Charged, Larger

\* Of the pods of H, each from at[p] on, the list shows those of X. w has what was counted of each up to l,
\* and u how much may be missing or be too much.
Follows(w, u, X, H, at, b, l) ==
    /\ w \in [Pod -> Int] /\ u \in [Pod -> Nat]
    /\ \A p \in Pod : /\ p \notin X => w[p] = 0
                      /\ w[p] # 0 => p \in H /\ at[p] <= l
                      /\ p \in X => p \in H /\ w[p] - Charged(b, at[p], l) \in -u[p] .. u[p]

\* A list shows Y instead of X, and a sample of it is taken, from l to n; or none, and n is l. What it newly
\* shows is of no more than k before or after l.
Turns(w, u, X, Y, H, at, b, l, n, k) ==
    /\ X \in SUBSET Pod /\ H \in SUBSET Pod /\ Y \in SUBSET H /\ at \in [Pod -> Int]
    /\ b \in Int /\ l \in Int /\ n \in Int /\ l <= n /\ k \in Nat
    /\ Follows(w, u, X, H, at, b, l)
    /\ l < n => \A p \in Y : at[p] <= n
    /\ \A p \in X \ Y : l < at[p]
    /\ \A p \in Y \ X : at[p] - l <= k /\ l - at[p] <= k

LEMMA FollowsOn ==
    ASSUME NEW w, NEW u, NEW X, NEW Y, NEW H, NEW at, NEW b, NEW l, NEW n, NEW late,
           Turns(w, u, X, Y, H, at, b, l, n, late)
    PROVE  \E more, over :
              /\ Follows(more, over, Y, H, at, b, n)
              /\ Total(more, Pod) = Total(w, Pod) + Cardinality(Y) * Charged(b, l, n)
              /\ Total(over, Pod) = Total(u, Pod) + Cardinality(SymDiff(Y, X)) * late
<1> DEFINE T == SymDiff(Y, X)
           k == Charged(b, l, n)
           c == [p \in Pod |-> IF p \in Y THEN k ELSE 0]
           d == [p \in Pod |-> IF p \in T THEN late ELSE 0]
           more == [p \in Pod |-> w[p] + c[p]]
           over == [p \in Pod |-> u[p] + d[p]]
<1>0. /\ X \in SUBSET Pod /\ H \in SUBSET Pod /\ Y \in SUBSET H /\ at \in [Pod -> Int]
      /\ b \in Int /\ l \in Int /\ n \in Int /\ l <= n /\ late \in Nat
      /\ Follows(w, u, X, H, at, b, l)
      /\ l < n => \A p \in Y : at[p] <= n
      /\ \A p \in X \ Y : l < at[p]
      /\ \A p \in Y \ X : at[p] - l <= late /\ l - at[p] <= late
  BY DEF Turns
<1> USE <1>0
<1>1. T \in SUBSET Pod /\ k \in Int /\ (l = n => k = 0) /\ IsFiniteSet(Pod)
  <2>1. T \in SUBSET Pod
    BY DEF SymDiff
  <2>2. k \in Int
    BY ChargedLaws
  <2>3. Charged(b, l, l) = 0
    BY ChargedLaws
  <2> QED BY <2>1, <2>2, <2>3, EpisodeAssumption
<1>2. w \in [Pod -> Int] /\ u \in [Pod -> Nat]
  BY DEF Follows
<1>3. \A p \in Pod : p \in Y \ X => p \in T
  BY DEF SymDiff
<1> HIDE DEF T, k
<1>4. ASSUME NEW p \in Pod
      PROVE  /\ p \notin Y => more[p] = 0
             /\ more[p] # 0 => p \in H /\ at[p] <= n
             /\ p \in Y => p \in H /\ more[p] - Charged(b, at[p], n) \in -over[p] .. over[p]
  <2>1. /\ p \notin X => w[p] = 0
        /\ w[p] # 0 => p \in H /\ at[p] <= l
        /\ p \in X => p \in H /\ w[p] - Charged(b, at[p], l) \in -u[p] .. u[p]
    BY DEF Follows
  <2>2. w[p] \in Int /\ u[p] \in Nat /\ at[p] \in Int
    BY <1>2
  <2>3. more[p] = w[p] + (IF p \in Y THEN k ELSE 0) /\ over[p] = u[p] + (IF p \in T THEN late ELSE 0)
    OBVIOUS
  <2> HIDE DEF more, over
  <2>4. p \notin Y => more[p] = 0
    BY <2>1, <2>2, <2>3
  <2>5. more[p] # 0 => p \in H /\ at[p] <= n
    BY <1>1, <2>1, <2>2, <2>3
  <2>6. ASSUME p \in Y PROVE p \in H /\ more[p] - Charged(b, at[p], n) \in -over[p] .. over[p]
    <3>1. /\ Charged(b, at[p], l) + k = Charged(b, at[p], n) /\ Charged(b, at[p], l) \in Int
          /\ at[p] <= l => 0 <= Charged(b, at[p], l) /\ Charged(b, at[p], l) <= l - at[p]
          /\ l <= at[p] => Charged(b, at[p], l) <= 0 /\ l - at[p] <= Charged(b, at[p], l)
      <4>1. Charged(b, at[p], l) = -Charged(b, l, at[p]) /\ Charged(b, l, at[p]) \in Int
        BY <2>2, ChargedLaws
      <4>2. Charged(b, at[p], l) + Charged(b, l, n) = Charged(b, at[p], n)
        BY <2>2, ChargedLaws
      <4>3. at[p] <= l => 0 <= Charged(b, at[p], l) /\ Charged(b, at[p], l) <= l - at[p]
        BY <2>2, ChargedLaws
      <4>4. l <= at[p] => 0 <= Charged(b, l, at[p]) /\ Charged(b, l, at[p]) <= at[p] - l
        BY <2>2, ChargedLaws
      <4> QED BY <2>2, <4>1, <4>2, <4>3, <4>4 DEF k
    <3>2. CASE p \in X
      <4>1. w[p] - Charged(b, at[p], l) \in -u[p] .. u[p] /\ over[p] >= u[p] /\ over[p] \in Nat
        BY <2>1, <2>2, <2>3, <3>2
      <4>2. more[p] = w[p] + k
        BY <2>3, <2>6
      <4> QED BY <1>1, <2>2, <2>6, <3>1, <4>1, <4>2
    <3>3. CASE p \notin X
      <4>1. w[p] = 0 /\ more[p] = k /\ over[p] = u[p] + late
        BY <1>1, <1>3, <2>1, <2>2, <2>3, <2>6, <3>3
      <4>2. at[p] - l <= late /\ l - at[p] <= late
        BY <2>6, <3>3
      <4> QED BY <1>1, <2>2, <2>6, <3>1, <4>1, <4>2
    <3> QED BY <3>2, <3>3
  <2> QED BY <2>4, <2>5, <2>6
<1>5. more \in [Pod -> Int] /\ over \in [Pod -> Nat]
  BY <1>1, <1>2
<1>6. Follows(more, over, Y, H, at, b, n)
  BY <1>4, <1>5 DEF Follows
<1>7. Total(more, Pod) = Total(w, Pod) + Cardinality(Y) * k
  <2>1. Total(c, Pod) = Cardinality(Y) * k
    BY <1>1, TotalCount
  <2>2. \A p \in Pod : w[p] \in Int /\ c[p] \in Int /\ more[p] = w[p] + c[p]
    BY <1>1, <1>2
  <2> QED BY <1>1, <2>1, <2>2, TotalPlus
<1>8. Total(over, Pod) = Total(u, Pod) + Cardinality(T) * late
  <2>1. Total(d, Pod) = Cardinality(T) * late
    BY <1>1, TotalCount
  <2>2. \A p \in Pod : u[p] \in Int /\ d[p] \in Int /\ over[p] = u[p] + d[p]
    BY <1>2
  <2> QED BY <1>1, <2>1, <2>2, TotalPlus
<1> QED BY <1>6, <1>7, <1>8 DEF T, k

\* More pods happen, and the first decision may be one of now.
LEMMA FollowsMore ==
    ASSUME NEW w, NEW u, NEW X \in SUBSET Pod, NEW H, NEW G, NEW at, NEW after, NEW b, NEW a, NEW l,
           Follows(w, u, X, H, at, b, l),
           H \subseteq G, \A p \in H : after[p] = at[p],
           \A p \in X : p \in H => Charged(a, at[p], l) = Charged(b, at[p], l)
    PROVE  Follows(w, u, X, G, after, a, l)
<1>1. \A p \in Pod : /\ p \notin X => w[p] = 0
                     /\ w[p] # 0 => p \in H /\ at[p] <= l
                     /\ p \in X => p \in H /\ w[p] - Charged(b, at[p], l) \in -u[p] .. u[p]
  BY DEF Follows
<1>2. ASSUME NEW p \in X PROVE p \in G /\ w[p] - Charged(a, after[p], l) \in -u[p] .. u[p]
  <2>1. p \in Pod /\ p \in H /\ p \in G
    BY <1>1
  <2>2. after[p] = at[p] /\ Charged(a, at[p], l) = Charged(b, at[p], l)
    BY <2>1
  <2> QED BY <1>1, <2>1, <2>2
<1>3. \A p \in Pod : w[p] # 0 => p \in G /\ after[p] <= l
  BY <1>1
<1> QED BY <1>1, <1>2, <1>3 DEF Follows

\* What would be counted of the pods of H.
Since(b, H, at, l) == [p \in Pod |-> IF p \in H THEN Charged(b, at[p], l) ELSE 0]

\* Once the list shows every pod, what was counted is what happened, but for u.
LEMMA FollowsAll ==
    ASSUME NEW w, NEW u, NEW H \in SUBSET Pod, NEW at \in [Pod -> Int], NEW b \in Int, NEW l \in Int,
           Follows(w, u, H, H, at, b, l)
    PROVE  LET v == Since(b, H, at, l)
           IN  /\ Total(w, Pod) \in Int /\ Total(u, Pod) \in Nat /\ Total(v, Pod) \in Int
               /\ Total(w, Pod) - Total(v, Pod) <= Total(u, Pod)
               /\ Total(v, Pod) - Total(w, Pod) <= Total(u, Pod)
<1> DEFINE v == Since(b, H, at, l)
<1>0. \A p \in Pod : v[p] = IF p \in H THEN Charged(b, at[p], l) ELSE 0
  BY DEF Since
<1> HIDE DEF v
<1>1. IsFiniteSet(Pod) /\ w \in [Pod -> Int] /\ u \in [Pod -> Nat]
  BY EpisodeAssumption DEF Follows
<1>2. ASSUME NEW p \in Pod PROVE v[p] \in Int /\ w[p] \in Int /\ u[p] \in Nat /\ v[p] - u[p] <= w[p] /\ w[p] <= v[p] + u[p]
  <2>1. w[p] \in Int /\ u[p] \in Nat /\ at[p] \in Int
    BY <1>1
  <2>2. Charged(b, at[p], l) \in Int
    BY <2>1, ChargedLaws
  <2>3. (p \notin H => w[p] = 0) /\ (p \in H => w[p] - Charged(b, at[p], l) \in -u[p] .. u[p])
    BY DEF Follows
  <2> QED BY <1>0, <2>1, <2>2, <2>3
<1> DEFINE low == [p \in Pod |-> w[p] + u[p]]
           high == [p \in Pod |-> v[p] + u[p]]
           none == [p \in Pod |-> 0]
<1>3. Ints(w, Pod) /\ Ints(u, Pod) /\ Ints(v, Pod)
  BY <1>2 DEF Ints
<1>4. Total(w, Pod) \in Int /\ Total(u, Pod) \in Int /\ Total(v, Pod) \in Int
  <2>1. Pod \in SUBSET Pod
    OBVIOUS
  <2> QED BY <1>1, <1>3, <2>1, TotalParts DEF Adds
<1>5. Total(low, Pod) = Total(w, Pod) + Total(u, Pod)
  <2>1. \A p \in Pod : w[p] \in Int /\ u[p] \in Int /\ low[p] = w[p] + u[p]
    BY <1>2
  <2> QED BY <1>1, <2>1, TotalPlus
<1>6. Total(high, Pod) = Total(v, Pod) + Total(u, Pod)
  <2>1. \A p \in Pod : v[p] \in Int /\ u[p] \in Int /\ high[p] = v[p] + u[p]
    BY <1>2
  <2> QED BY <1>1, <2>1, TotalPlus
<1>7. Total(w, Pod) <= Total(high, Pod)
  <2>1. \A p \in Pod : w[p] \in Int /\ high[p] \in Int /\ w[p] <= high[p]
    BY <1>2
  <2> QED BY <1>1, <2>1, TotalLess
<1>8. Total(v, Pod) <= Total(low, Pod)
  <2>1. \A p \in Pod : v[p] \in Int /\ low[p] \in Int /\ v[p] <= low[p]
    BY <1>2
  <2> QED BY <1>1, <2>1, TotalLess
<1>9. 0 <= Total(u, Pod)
  <2>1. \A p \in Pod : none[p] \in Int /\ u[p] \in Int /\ none[p] <= u[p]
    BY <1>2
  <2>2. Total(none, Pod) <= Total(u, Pod)
    BY <1>1, <2>1, TotalLess
  <2>3. \A p \in Pod : none[p] = IF p \in {} THEN 0 ELSE 0
    OBVIOUS
  <2>4. Total(none, Pod) = Cardinality({}) * 0
    BY <1>1, <2>3, TotalCount
  <2> QED BY <2>2, <2>4, FS_EmptySet
<1> HIDE DEF low, high
<1> QED BY <1>4, <1>5, <1>6, <1>7, <1>8, <1>9 DEF v

-----------------------------------------------------------------------------
(* The books of a run: what its samples count, pod by pod.                 *)

\* When the run begins; before its first decision, at the end of the clock.
Start == IF episode = <<>> THEN MaxTime ELSE Began

Created == [p \in Pod |-> pod[p].created]

Finished == [p \in Pod |-> pod[p].finished]

Counted == [i \in DOMAIN samples |->
               samples[i].count * Charged(Start, samples[i].time - samples[i].dt, samples[i].time)]

\* The samples count, of each pod, came[p] from when it came, and left[p] less from when it left; early and
\* late account for what was unseen of each.
Books(came, early, left, late) ==
    /\ Follows(came, early, Came(list.phase), Came(Phases), Created, Start, last)
    /\ Follows(left, late, Left(list.phase), Left(Phases), Finished, Start, last)
    /\ Total(Counted, DOMAIN samples) = Total(came, Pod) - Total(left, Pod)
    /\ unseen = Total(early, Pod) + Total(late, Pod)

\* The runs whose samples will be what happened: those that are not settled, and the complete ones.
Open == settling = "none" \/ (complete /\ settling \in {"polled", "read"})

Ledger == Open => \E came, early, left, late : Books(came, early, left, late)

LEMMA StartIs == Held => Start \in Nat /\ (episode = <<>> => Start = MaxTime)
<1> SUFFICES ASSUME Held PROVE Start \in Nat
  BY DEF Start
<1>1. \A s \in Seq(Decision) : s # <<>> => s[1].time \in Nat
  <2>1. \A s \in Seq(Decision) : s # <<>> => s[1] \in Decision
    OBVIOUS
  <2> QED BY <2>1 DEF Decision
<1> QED BY <1>1, EpisodeAssumption DEF Held, Clocked, Start, Began

\* The parts of Pod that the books are about.
LEMMA PartsOf ==
    \A phase : /\ Came(phase) \in SUBSET Pod /\ Left(phase) \in SUBSET Pod
               /\ Left(phase) \subseteq Came(phase)
               /\ Cardinality(Unfinished(phase)) = Cardinality(Came(phase)) - Cardinality(Left(phase))
               /\ Cardinality(Came(phase)) \in Nat /\ Cardinality(Left(phase)) \in Nat
<1> SUFFICES ASSUME NEW phase
             PROVE  /\ Came(phase) \in SUBSET Pod /\ Left(phase) \in SUBSET Pod
                    /\ Left(phase) \subseteq Came(phase)
                    /\ Cardinality(Unfinished(phase)) = Cardinality(Came(phase)) - Cardinality(Left(phase))
                    /\ Cardinality(Came(phase)) \in Nat /\ Cardinality(Left(phase)) \in Nat
  OBVIOUS
<1>1. Came(phase) \in SUBSET Pod /\ Left(phase) \in SUBSET Pod /\ Left(phase) \subseteq Came(phase)
  BY DEF Came, Left, Ended
<1>2. IsFiniteSet(Came(phase)) /\ Cardinality(Came(phase)) \in Nat /\ Cardinality(Left(phase)) \in Nat
  BY <1>1, PodParts
<1>3. Cardinality(Came(phase) \ Left(phase)) = Cardinality(Came(phase)) - Cardinality(Came(phase) \cap Left(phase))
  BY <1>2, FS_Difference
<1>4. Came(phase) \cap Left(phase) = Left(phase)
  BY <1>1
<1> QED BY <1>1, <1>2, <1>3, <1>4 DEF Unfinished

LEMMA TotalAppend ==
    ASSUME NEW z \in Nat, NEW f, NEW g, \A i \in 1 .. z : f[i] \in Int /\ g[i] = f[i], g[z + 1] \in Int
    PROVE  Total(g, 1 .. z + 1) = Total(f, 1 .. z) + g[z + 1]
<1>1. IsFiniteSet(1 .. z) /\ IsFiniteSet(1 .. z + 1)
  BY FS_Interval
<1>2. \A i \in 1 .. z + 1 : g[i] \in Int
  <2>1. \A i \in 1 .. z + 1 : i \in 1 .. z \/ i = z + 1
    OBVIOUS
  <2> QED BY <2>1
<1>3. Total(g, 1 .. z + 1) = g[z + 1] + Total(g, (1 .. z + 1) \ {z + 1})
  <2>1. 1 .. z + 1 \in SUBSET (1 .. z + 1) /\ z + 1 \in 1 .. z + 1
    OBVIOUS
  <2>2. Adds(g, 1 .. z + 1)
    BY <1>1, <1>2, TotalParts DEF Ints
  <2> QED BY <2>1, <2>2 DEF Adds
<1>4. (1 .. z + 1) \ {z + 1} = 1 .. z
  OBVIOUS
<1>5. Total(g, 1 .. z) = Total(f, 1 .. z)
  BY <1>1, TotalSame
<1>6. Total(f, 1 .. z) \in Int
  <2>1. 1 .. z \in SUBSET (1 .. z)
    OBVIOUS
  <2>2. Adds(f, 1 .. z)
    BY <1>1, TotalParts DEF Ints
  <2> QED BY <2>1, <2>2 DEF Adds
<1>7. Total(g, 1 .. z + 1) = g[z + 1] + Total(f, 1 .. z)
  BY <1>3, <1>4, <1>5
<1> QED BY <1>6, <1>7

\* Each sample counts a number.
LEMMA CountedInts ==
    ASSUME NEW s \in Seq(Taken), NEW b \in Int, NEW i \in DOMAIN s
    PROVE  s[i].count * Charged(b, s[i].time - s[i].dt, s[i].time) \in Int
<1>1. s[i] \in Taken
  OBVIOUS
<1>2. s[i].time \in Int /\ s[i].time - s[i].dt \in Int /\ s[i].count \in Int
  BY <1>1 DEF Taken
<1>3. Charged(b, s[i].time - s[i].dt, s[i].time) \in Int
  BY <1>2, ChargedLaws
<1>4. \A x, y \in Int : x * y \in Int
  OBVIOUS
<1> QED BY <1>2, <1>3, <1>4

LEMMA SamplesAdd ==
    ASSUME Held, last < now, Sample, UNCHANGED episode
    PROVE  Total(Counted, DOMAIN samples)'
               = Total(Counted, DOMAIN samples) + Cardinality(Unfinished(list'.phase)) * Charged(Start, last, now)
<1> DEFINE z == Len(samples)
           n == Cardinality(Unfinished(list'.phase))
           g == [i \in DOMAIN samples' |->
                    samples'[i].count * Charged(Start, samples'[i].time - samples'[i].dt, samples'[i].time)]
<1>1. /\ z \in Nat /\ DOMAIN samples = 1 .. z /\ DOMAIN samples' = 1 .. z + 1
      /\ \A i \in 1 .. z : samples'[i] = samples[i]
      /\ samples'[z + 1] = [time |-> now, dt |-> now - last, count |-> n]
      /\ samples' \in Seq(Taken)
  BY SampleTaken
<1>2. Start \in Int /\ samples \in Seq(Taken) /\ now \in Nat /\ last \in Nat
  BY StartIs DEF Held, Clocked, Inv, Shape
<1> HIDE DEF z, n
<1>3. \A i \in 1 .. z : Counted[i] \in Int /\ g[i] = Counted[i]
  BY <1>1, <1>2, CountedInts DEF Counted
<1>4. g[z + 1] = n * Charged(Start, last, now)
  <2>1. now - (now - last) = last
    BY <1>2
  <2>2. z + 1 \in 1 .. z + 1
    BY <1>1
  <2> QED BY <1>1, <2>1, <2>2
<1>5. g[z + 1] \in Int
  <2>1. z + 1 \in DOMAIN samples'
    BY <1>1
  <2> QED BY <1>1, <1>2, <2>1, CountedInts
<1>6. Counted' = g
  BY DEF Counted, Start, Began
<1> HIDE DEF g
<1>7. Total(g, 1 .. z + 1) = Total(Counted, 1 .. z) + g[z + 1]
  BY <1>1, <1>3, <1>5, TotalAppend
<1> QED BY <1>1, <1>4, <1>6, <1>7 DEF n


\* What another list shows newly came between the two, and so did what it no longer shows.
LEMMA Toggled ==
    ASSUME NEW found \in Listing, Tells(found), Tells(list), NEW p \in Pod
    PROVE  /\ p \in Came(found.phase) \ Came(list.phase) => list.at <= pod[p].created /\ pod[p].created <= found.at
           /\ p \in Came(list.phase) \ Came(found.phase) => found.at <= pod[p].created
           /\ p \in Left(found.phase) \ Left(list.phase) => list.at <= pod[p].finished /\ pod[p].finished <= found.at
           /\ p \in Left(list.phase) \ Left(found.phase) => found.at <= pod[p].finished
  BY DEF Tells, TellsOf, Came, Left

LEMMA ShowsWhatIs ==
    ASSUME NEW l \in Listing, Tells(l)
    PROVE  /\ Came(l.phase) \subseteq Came(Phases) /\ Left(l.phase) \subseteq Left(Phases)
           /\ \A p \in Came(l.phase) : pod[p].created <= l.at
           /\ \A p \in Left(l.phase) : pod[p].finished <= l.at
  BY DEF Tells, TellsOf, Came, Left, Phases

LEMMA WholeShowsAll ==
    ASSUME NEW l, Whole(l)
    PROVE  Came(Phases) \subseteq Came(l.phase) /\ Left(Phases) \subseteq Left(l.phase)
  BY DEF Whole, Came, Left, Phases

LEMMA TimesAre == Held => Created \in [Pod -> Int] /\ Finished \in [Pod -> Int]
  BY DEF Held, Inv, Shape, Created, Finished

\* A list is read, with a sample of it or without, late after what it newly shows.
LEMMA BooksOn ==
    ASSUME Held, NEW came, NEW early, NEW left, NEW late, Books(came, early, left, late),
           UNCHANGED <<pod, episode>>, list' \in Listing, Tells(list'),
           NEW n \in Int, last' = n, last <= n, last < n => list'.at <= n,
           NEW k \in Nat, unseen' = unseen + Changes(list'.phase) * k,
           \A p \in Came(list.phase) \ Came(list'.phase) : last < pod[p].created,
           \A p \in Left(list.phase) \ Left(list'.phase) : last < pod[p].finished,
           \A p \in Came(list'.phase) \ Came(list.phase) : pod[p].created - last <= k /\ last - pod[p].created <= k,
           \A p \in Left(list'.phase) \ Left(list.phase) : pod[p].finished - last <= k /\ last - pod[p].finished <= k,
           Total(Counted, DOMAIN samples)'
               = Total(Counted, DOMAIN samples) + Cardinality(Unfinished(list'.phase)) * Charged(Start, last, n)
    PROVE  (\E c, e, l, o : Books(c, e, l, o))'
<1> DEFINE X1 == Came(list.phase)
           X2 == Left(list.phase)
           Y1 == Came(list'.phase)
           Y2 == Left(list'.phase)
           H1 == Came(Phases)
           H2 == Left(Phases)
           d == Charged(Start, last, n)
<1>1. /\ X1 \in SUBSET Pod /\ X2 \in SUBSET Pod /\ Y1 \in SUBSET Pod /\ Y2 \in SUBSET Pod
      /\ H1 \in SUBSET Pod /\ H2 \in SUBSET Pod
  BY PartsOf
<1>2. Start \in Int /\ last \in Int /\ Created \in [Pod -> Int] /\ Finished \in [Pod -> Int]
  BY StartIs, TimesAre DEF Held, Clocked, Inv, Shape
<1>3. /\ Y1 \subseteq H1 /\ Y2 \subseteq H2
      /\ \A p \in Y1 : pod[p].created <= list'.at
      /\ \A p \in Y2 : pod[p].finished <= list'.at
  BY ShowsWhatIs
<1>4. \A p \in Pod : Created[p] = pod[p].created /\ Finished[p] = pod[p].finished
  BY DEF Created, Finished
<1>5. list'.at \in Int /\ \A p \in Pod : pod[p].created \in Int /\ pod[p].finished \in Int
  BY DEF Listing, Held, Inv, Shape
<1>6. /\ last < n => \A p \in Y1 : Created[p] <= n
      /\ last < n => \A p \in Y2 : Finished[p] <= n
  BY <1>1, <1>3, <1>4, <1>5
<1>7. /\ \A p \in X1 \ Y1 : last < Created[p]
      /\ \A p \in Y1 \ X1 : Created[p] - last <= k /\ last - Created[p] <= k
  BY <1>1, <1>4
<1>8. /\ \A p \in X2 \ Y2 : last < Finished[p]
      /\ \A p \in Y2 \ X2 : Finished[p] - last <= k /\ last - Finished[p] <= k
  BY <1>1, <1>4
<1>9. /\ Follows(came, early, X1, H1, Created, Start, last)
      /\ Follows(left, late, X2, H2, Finished, Start, last)
      /\ Total(Counted, DOMAIN samples) = Total(came, Pod) - Total(left, Pod)
      /\ unseen = Total(early, Pod) + Total(late, Pod)
  BY DEF Books
<1> HIDE DEF X1, X2, Y1, Y2, H1, H2
<1>10. PICK c, e : /\ Follows(c, e, Y1, H1, Created, Start, n)
                   /\ Total(c, Pod) = Total(came, Pod) + Cardinality(Y1) * d
                   /\ Total(e, Pod) = Total(early, Pod) + Cardinality(SymDiff(Y1, X1)) * k
  <2>1. Turns(came, early, X1, Y1, H1, Created, Start, last, n, k)
    BY <1>1, <1>2, <1>3, <1>6, <1>7, <1>9 DEF Turns
  <2> QED BY <2>1, FollowsOn
<1>11. PICK l, o : /\ Follows(l, o, Y2, H2, Finished, Start, n)
                   /\ Total(l, Pod) = Total(left, Pod) + Cardinality(Y2) * d
                   /\ Total(o, Pod) = Total(late, Pod) + Cardinality(SymDiff(Y2, X2)) * k
  <2>1. Turns(left, late, X2, Y2, H2, Finished, Start, last, n, k)
    BY <1>1, <1>2, <1>3, <1>6, <1>8, <1>9 DEF Turns
  <2> QED BY <2>1, FollowsOn
<1>12. /\ Came(list.phase)' = Y1 /\ Left(list.phase)' = Y2 /\ Came(Phases)' = H1 /\ Left(Phases)' = H2
       /\ Created' = Created /\ Finished' = Finished /\ Start' = Start
  BY DEF Y1, Y2, H1, H2, Came, Left, Phases, Created, Finished, Start, Began
<1>13. /\ Total(came, Pod) \in Int /\ Total(left, Pod) \in Int /\ Total(early, Pod) \in Int /\ Total(late, Pod) \in Int
  <2>1. Ints(came, Pod) /\ Ints(left, Pod) /\ Ints(early, Pod) /\ Ints(late, Pod)
    BY <1>9 DEF Follows, Ints
  <2>2. Pod \in SUBSET Pod
    OBVIOUS
  <2> QED BY <2>1, <2>2, EpisodeAssumption, TotalParts DEF Adds
<1>14. Total(Counted, DOMAIN samples)' = Total(c, Pod) - Total(l, Pod)
  <2>1. Cardinality(Unfinished(list'.phase)) = Cardinality(Y1) - Cardinality(Y2)
    BY PartsOf DEF Y1, Y2
  <2>2. Cardinality(Y1) \in Nat /\ Cardinality(Y2) \in Nat /\ d \in Int
    BY <1>1, <1>2, PodParts, ChargedLaws
  <2> HIDE DEF d
  <2>3. \A x, y, z \in Int : (x - y) * z = x * z - y * z /\ x * z \in Int
    OBVIOUS
  <2>4. (Cardinality(Y1) - Cardinality(Y2)) * d = Cardinality(Y1) * d - Cardinality(Y2) * d
        /\ Cardinality(Y1) * d \in Int /\ Cardinality(Y2) * d \in Int
    BY <2>2, <2>3
  <2>5. Total(Counted, DOMAIN samples)'
            = Total(came, Pod) - Total(left, Pod) + (Cardinality(Y1) * d - Cardinality(Y2) * d)
    BY <1>9, <2>1, <2>4 DEF d
  <2> QED BY <1>10, <1>11, <1>13, <2>4, <2>5
<1>15. unseen' = Total(e, Pod) + Total(o, Pod)
  <2>1. Changes(list'.phase) = Cardinality(SymDiff(Y1, X1)) + Cardinality(SymDiff(Y2, X2))
    BY DEF Changes, Y1, Y2, X1, X2
  <2>2. Cardinality(SymDiff(Y1, X1)) \in Nat /\ Cardinality(SymDiff(Y2, X2)) \in Nat
    BY ChangesCount, PodParts DEF Y1, Y2, X1, X2
  <2>3. \A x, y, z \in Int : (x + y) * z = x * z + y * z /\ x * z \in Int
    OBVIOUS
  <2>4. Changes(list'.phase) * k = Cardinality(SymDiff(Y1, X1)) * k + Cardinality(SymDiff(Y2, X2)) * k
        /\ Cardinality(SymDiff(Y1, X1)) * k \in Int /\ Cardinality(SymDiff(Y2, X2)) * k \in Int
    BY <2>1, <2>2, <2>3
  <2> QED BY <1>9, <1>10, <1>11, <1>13, <2>4
<1>16. Books(c, e, l, o)'
  BY <1>10, <1>11, <1>12, <1>14, <1>15 DEF Books
<1> QED BY <1>16


LEMMA LedgerInit == Init => Ledger
<1> SUFFICES ASSUME Init PROVE \E came, early, left, late : Books(came, early, left, late)
  BY DEF Ledger
<1> DEFINE none == [p \in Pod |-> 0]
<1>1. /\ list.phase = [p \in Pod |-> "none"] /\ samples = <<>> /\ unseen = 0
  BY DEF Init, Phases, Absent
<1>2. Came(list.phase) = {} /\ Left(list.phase) = {}
  BY <1>1 DEF Came, Left, Ended
<1>3. \A H, at, b, l : Follows(none, none, {}, H, at, b, l)
  BY DEF Follows
<1>4. Total(none, Pod) = 0
  <2>1. \A p \in Pod : none[p] = IF p \in {} THEN 0 ELSE 0
    OBVIOUS
  <2> HIDE DEF none
  <2>2. Total(none, Pod) = Cardinality({}) * 0
    BY <2>1, EpisodeAssumption, TotalCount
  <2> QED BY <2>2, FS_EmptySet
<1>5. Total(Counted, DOMAIN samples) = 0
  BY <1>1, SumEmpty DEF Total
<1> HIDE DEF none
<1>6. Books(none, none, none, none)
  <2>1. /\ Follows(none, none, Came(list.phase), Came(Phases), Created, Start, last)
        /\ Follows(none, none, Left(list.phase), Left(Phases), Finished, Start, last)
    BY <1>2, <1>3
  <2>2. 0 = 0 - 0 /\ 0 = 0 + 0
    OBVIOUS
  <2> QED BY <1>1, <1>4, <1>5, <2>1, <2>2 DEF Books
<1> QED BY <1>6

\* What no pod, list, sample or decision changes leaves the books as they are.
LEMMA LedgerStays ==
    ASSUME Held, Ledger, UNCHANGED <<pod, list, last, samples, episode, unseen>>, Open' => Open
    PROVE  Ledger'
<1> SUFFICES ASSUME Open' PROVE (\E came, early, left, late : Books(came, early, left, late))'
  BY DEF Ledger
<1>1. PICK came, early, left, late : Books(came, early, left, late)
  BY DEF Ledger
<1>2. /\ Came(list.phase)' = Came(list.phase) /\ Left(list.phase)' = Left(list.phase)
      /\ Came(Phases)' = Came(Phases) /\ Left(Phases)' = Left(Phases)
      /\ Created' = Created /\ Finished' = Finished /\ Start' = Start /\ Counted' = Counted
  BY DEF Came, Left, Phases, Created, Finished, Start, Began, Counted
<1>3. Books(came, early, left, late)'
  BY <1>1, <1>2 DEF Books
<1> QED BY <1>3

\* Before a decision, and at one, nothing has been charged.
LEMMA StartMoves ==
    ASSUME Held, NEW p \in Pod, Decides(p), NEW f \in Int, f <= now, NEW t \in Int, t <= now
    PROVE  Charged(Start', f, t) = Charged(Start, f, t)
<1>1. now \in Nat /\ MaxTime \in Nat /\ now <= MaxTime /\ episode \in Seq(Decision)
  BY EpisodeAssumption DEF Held, Inv, Shape, Clocked
<1>2. PICK phi \in Phi \cup {NoPhi} : episode' = Append(episode, [time |-> now, phi |-> phi])
  BY DEF Decides
<1>3. [time |-> now, phi |-> phi] \in Decision
  BY <1>1 DEF Decision
<1>4. episode' # <<>> /\ (episode # <<>> => episode'[1] = episode[1]) /\ (episode = <<>> => episode'[1].time = now)
  BY <1>1, <1>2, <1>3, AppendProperties
<1>5. CASE episode # <<>>
  BY <1>4, <1>5 DEF Start, Began
<1>6. CASE episode = <<>>
  <2>1. Start = MaxTime /\ Start' = now
    BY <1>4, <1>6 DEF Start, Began
  <2>2. Charged(MaxTime, f, t) = 0 /\ Charged(now, f, t) = 0
    BY <1>1 DEF Charged, Larger
  <2> QED BY <2>1, <2>2
<1> QED BY <1>5, <1>6

LEMMA LedgerPods ==
    ASSUME Held, Ledger, NEW p \in Pod, Arrives(p) \/ Decides(p) \/ Finishes(p)
    PROVE  Ledger'
<1> SUFFICES ASSUME Open' PROVE (\E c, e, l, o : Books(c, e, l, o))'
  BY DEF Ledger
<1>1. /\ UNCHANGED <<now, list, last, samples, settling, complete, unseen>>
      /\ pod \in [Pod -> [phase : Phase, created : Nat, started : Nat, finished : Nat]]
      /\ list \in Listing /\ list.at \in Nat /\ list.at <= now /\ now \in Nat /\ last \in Nat /\ last <= now
  BY DEF Arrives, Decides, Finishes, observed, call, Held, Inv, Shape, Clocked, Listing
<1>2. PICK came, early, left, late : Books(came, early, left, late)
  BY <1>1 DEF Ledger, Open
<1>3. \A f, t \in Int : f <= now /\ t <= now => Charged(Start', f, t) = Charged(Start, f, t)
  <2>1. CASE Decides(p)
    BY <2>1, StartMoves
  <2>2. CASE ~Decides(p)
    <3>1. episode' = episode
      BY <2>2 DEF Arrives, Finishes
    <3> QED BY <3>1 DEF Start, Began
  <2> QED BY <2>1, <2>2
<1>4. /\ \A q \in Pod : pod[q].phase # "none" => pod'[q].phase # "none" /\ pod'[q].created = pod[q].created
      /\ \A q \in Pod : pod[q].phase \in Ended => pod'[q].phase \in Ended /\ pod'[q].finished = pod[q].finished
  <2>1. CASE Arrives(p)
    BY <1>1, <2>1 DEF Arrives, Ended
  <2>2. CASE Decides(p)
    BY <1>1, <2>2 DEF Decides, Ended
  <2>3. CASE Finishes(p)
    BY <1>1, <2>3 DEF Finishes, Ended
  <2> QED BY <2>1, <2>2, <2>3
<1>5. \A q \in Pod : Phases[q] = pod[q].phase /\ Phases'[q] = pod'[q].phase
  BY DEF Phases
<1>6. Came(Phases) \subseteq Came(Phases') /\ \A q \in Came(Phases) : Created'[q] = Created[q]
  BY <1>4, <1>5 DEF Came, Created
<1>7. Left(Phases) \subseteq Left(Phases') /\ \A q \in Left(Phases) : Finished'[q] = Finished[q]
  BY <1>4, <1>5 DEF Left, Finished
<1>8. /\ Came(list.phase) \in SUBSET Pod /\ Left(list.phase) \in SUBSET Pod
      /\ \A q \in Came(list.phase) : Created[q] \in Int /\ Created[q] <= now
      /\ \A q \in Left(list.phase) : Finished[q] \in Int /\ Finished[q] <= now
  <2>1. /\ Came(list.phase) \in SUBSET Pod /\ Left(list.phase) \in SUBSET Pod
    BY PartsOf
  <2>2. \A q \in Pod : Created[q] = pod[q].created /\ Finished[q] = pod[q].finished
    BY DEF Created, Finished
  <2>3. \A q \in Pod : pod[q].created \in Nat /\ pod[q].finished \in Nat
    BY <1>1
  <2>4. \A q \in Pod : pod[q].created <= now /\ pod[q].finished <= now
    BY DEF Held, Clocked
  <2> QED BY <2>1, <2>2, <2>3, <2>4
<1>9. Follows(came, early, Came(list.phase), Came(Phases'), Created', Start', last)
  <2>1. Follows(came, early, Came(list.phase), Came(Phases), Created, Start, last)
    BY <1>2 DEF Books
  <2>2. \A q \in Came(list.phase) : Charged(Start', Created[q], last) = Charged(Start, Created[q], last)
    BY <1>1, <1>3, <1>8
  <2> QED BY <1>6, <1>8, <2>1, <2>2, FollowsMore
<1>10. Follows(left, late, Left(list.phase), Left(Phases'), Finished', Start', last)
  <2>1. Follows(left, late, Left(list.phase), Left(Phases), Finished, Start, last)
    BY <1>2 DEF Books
  <2>2. \A q \in Left(list.phase) : Charged(Start', Finished[q], last) = Charged(Start, Finished[q], last)
    BY <1>1, <1>3, <1>8
  <2> QED BY <1>7, <1>8, <2>1, <2>2, FollowsMore
<1>11. Counted' = Counted
  <2>1. samples \in Seq(Taken)
    BY DEF Held, Clocked
  <2>2. ASSUME NEW i \in DOMAIN samples
        PROVE  Charged(Start', samples[i].time - samples[i].dt, samples[i].time)
                   = Charged(Start, samples[i].time - samples[i].dt, samples[i].time)
    <3>1. samples[i] \in Taken
      BY <2>1
    <3>2. samples[i].time \in Nat /\ samples[i].dt \in Nat
      BY <3>1 DEF Taken
    <3>3. samples[i].time <= now /\ now \in Nat
      BY <1>1 DEF Held, Clocked
    <3>4. samples[i].time - samples[i].dt \in Int /\ samples[i].time - samples[i].dt <= now
      BY <3>2, <3>3
    <3> QED BY <1>3, <3>2, <3>3, <3>4
  <2> QED BY <1>1, <2>2 DEF Counted
<1>12. Books(came, early, left, late)'
  <2>1. Came(list.phase)' = Came(list.phase) /\ Left(list.phase)' = Left(list.phase)
    BY <1>1 DEF Came, Left
  <2>2. Came(Phases)' = Came(Phases') /\ Left(Phases)' = Left(Phases')
    BY DEF Came, Left
  <2> QED BY <1>1, <1>2, <1>9, <1>10, <1>11, <2>1, <2>2 DEF Books
<1> QED BY <1>12


LEMMA LedgerReadsPoll == ASSUME Held, Ledger, ReadsPoll PROVE Ledger'
<1> SUFFICES ASSUME Open' PROVE (\E c, e, l, o : Books(c, e, l, o))'
  BY DEF Ledger
<1>1. /\ polled # NoList /\ Reads(polled) /\ Sample /\ last' = now
      /\ UNCHANGED <<now, pod, episode, settling, complete>>
  BY DEF ReadsPoll, call
<1>2. /\ polled \in Listing /\ last < polled.at /\ polled.at <= now /\ Tells(polled)
      /\ now \in Nat /\ last \in Nat /\ polled.at \in Nat /\ list \in Listing /\ list.at \in Nat /\ list.at <= now
      /\ Tells(list)
  BY <1>1 DEF Held, Clocked, Told, Inv, Shape, Listing
<1>3. PICK came, early, left, late : Books(came, early, left, late)
  BY <1>1 DEF Ledger, Open
<1>4. list.at <= last \/ Whole(list)
  BY <1>1 DEF Open, Held, Ahead
<1> DEFINE k == Late(polled)
<1>5. k \in Nat /\ k = now - Min({polled.at, list.at})
  BY <1>2, LateCounts DEF Held
<1>6. list' = polled /\ unseen' = unseen + Changes(polled.phase) * k
  BY <1>1, <1>5 DEF Reads
<1>7. /\ \A p \in Came(list.phase) \ Came(polled.phase) : last < pod[p].created
      /\ \A p \in Left(list.phase) \ Left(polled.phase) : last < pod[p].finished
  <2>1. \A p \in Pod : pod[p].created \in Nat /\ pod[p].finished \in Nat
    BY DEF Held, Inv, Shape
  <2>2. Came(list.phase) \in SUBSET Pod /\ Left(list.phase) \in SUBSET Pod
    BY PartsOf
  <2> QED BY <1>2, <2>1, <2>2, Toggled
<1>8. list.at <= last => now - list.at <= k
  BY <1>2 DEF Earlier, Late
<1> HIDE DEF k
<1>9. \A p \in Came(polled.phase) \ Came(list.phase) : pod[p].created - last <= k /\ last - pod[p].created <= k
  <2> SUFFICES ASSUME NEW p \in Came(polled.phase) \ Came(list.phase)
               PROVE  pod[p].created - last <= k /\ last - pod[p].created <= k
    OBVIOUS
  <2>1. p \in Pod /\ pod[p].created \in Nat
    BY DEF Came, Held, Inv, Shape
  <2>2. list.at <= pod[p].created /\ pod[p].created <= now
    <3>1. list.at <= pod[p].created /\ pod[p].created <= polled.at
      BY <1>2, <2>1, Toggled
    <3> QED BY <1>2, <2>1, <3>1
  <2>3. list.at <= last
    BY <1>2, <1>4, ShowsWhatIs, WholeShowsAll
  <2> QED BY <1>2, <1>5, <1>8, <2>1, <2>2, <2>3
<1>10. \A p \in Left(polled.phase) \ Left(list.phase) : pod[p].finished - last <= k /\ last - pod[p].finished <= k
  <2> SUFFICES ASSUME NEW p \in Left(polled.phase) \ Left(list.phase)
               PROVE  pod[p].finished - last <= k /\ last - pod[p].finished <= k
    OBVIOUS
  <2>1. p \in Pod /\ pod[p].finished \in Nat
    BY DEF Left, Held, Inv, Shape
  <2>2. list.at <= pod[p].finished /\ pod[p].finished <= now
    <3>1. list.at <= pod[p].finished /\ pod[p].finished <= polled.at
      BY <1>2, <2>1, Toggled
    <3> QED BY <1>2, <2>1, <3>1
  <2>3. list.at <= last
    BY <1>2, <1>4, ShowsWhatIs, WholeShowsAll
  <2> QED BY <1>2, <1>5, <1>8, <2>1, <2>2, <2>3
<1>11. last < now
  BY <1>2
<1>12. Total(Counted, DOMAIN samples)'
           = Total(Counted, DOMAIN samples) + Cardinality(Unfinished(list'.phase)) * Charged(Start, last, now)
  BY <1>1, <1>11, SamplesAdd
<1>13. /\ list' \in Listing /\ Tells(list') /\ now \in Int /\ last <= now /\ list'.at <= now
       /\ UNCHANGED <<pod, episode>>
  <2>1. list' \in Listing /\ list'.at <= now /\ now \in Int /\ last <= now /\ UNCHANGED <<pod, episode>>
    BY <1>1, <1>2, <1>6
  <2>2. Tells(list')
    BY <1>2, <1>6
  <2> QED BY <2>1, <2>2
<1> QED BY <1>1, <1>3, <1>5, <1>6, <1>7, <1>9, <1>10, <1>12, <1>13, BooksOn

LEMMA LedgerPollFails == ASSUME Held, Ledger, PollFails PROVE Ledger'
<1> SUFFICES ASSUME Open' PROVE (\E c, e, l, o : Books(c, e, l, o))'
  BY DEF Ledger
<1>1. /\ last < now /\ Sample /\ last' = now /\ now \in Int
      /\ UNCHANGED <<now, pod, list, episode, settling, complete, unseen>>
  BY DEF PollFails, call, Held, Inv, Shape, Clocked
<1>2. PICK came, early, left, late : Books(came, early, left, late)
  BY <1>1 DEF Ledger, Open
<1>3. Total(Counted, DOMAIN samples)'
          = Total(Counted, DOMAIN samples) + Cardinality(Unfinished(list'.phase)) * Charged(Start, last, now)
  BY <1>1, SamplesAdd
<1>4. list \in Listing /\ Tells(list) /\ list.at <= now /\ unseen \in Nat /\ last <= now
  BY <1>1 DEF Held, Clocked, Told
<1>5. Tells(list')
  BY <1>1, <1>4
<1>6. unseen' = unseen + Changes(list'.phase) * 0
  BY <1>1, <1>4, ChangesCount
<1>7. 0 \in Nat
  OBVIOUS
<1>8. /\ \A p \in Came(list.phase) \ Came(list'.phase) : last < pod[p].created
      /\ \A p \in Left(list.phase) \ Left(list'.phase) : last < pod[p].finished
      /\ \A p \in Came(list'.phase) \ Came(list.phase) : pod[p].created - last <= 0 /\ last - pod[p].created <= 0
      /\ \A p \in Left(list'.phase) \ Left(list.phase) : pod[p].finished - last <= 0 /\ last - pod[p].finished <= 0
  BY <1>1
<1> QED BY <1>1, <1>2, <1>3, <1>4, <1>5, <1>6, <1>7, <1>8, BooksOn

\* What came and what left before settle polled shows in its list, which takes no sample.
LEMMA LedgerRefreshes == ASSUME Held, Ledger, Refreshes PROVE Ledger'
<1> SUFFICES ASSUME Open' PROVE (\E c, e, l, o : Books(c, e, l, o))'
  BY DEF Ledger
<1>1. /\ settling = "polled" /\ settling' = "read" /\ Reads(fresh)
      /\ UNCHANGED <<now, pod, last, samples, episode, complete>>
  BY DEF Refreshes
<1>2. complete
  BY <1>1 DEF Open
<1>3. /\ fresh \in Listing /\ fresh.at <= now /\ Tells(fresh) /\ Whole(fresh)
      /\ now \in Nat /\ last \in Nat /\ fresh.at \in Nat /\ list \in Listing /\ list.at \in Nat
      /\ list.at <= last /\ last <= now /\ Tells(list)
  BY <1>1, <1>2 DEF Held, Clocked, Told, Inv, Shape, Listing, Ahead
<1>4. PICK came, early, left, late : Books(came, early, left, late)
  BY <1>1, <1>2 DEF Ledger, Open
<1> DEFINE k == Late(fresh)
<1>5. k \in Nat /\ k = now - Min({fresh.at, list.at}) /\ now - list.at <= k
  <2>1. k \in Nat /\ k = now - Min({fresh.at, list.at})
    BY <1>3, LateCounts DEF Held
  <2>2. now - list.at <= k
    BY <1>3 DEF Late, Earlier
  <2> QED BY <2>1, <2>2
<1> HIDE DEF k
<1>6. list' = fresh /\ unseen' = unseen + Changes(fresh.phase) * k
  BY <1>1, <1>5 DEF Reads
<1>7. /\ \A p \in Came(list.phase) \ Came(fresh.phase) : last < pod[p].created
      /\ \A p \in Left(list.phase) \ Left(fresh.phase) : last < pod[p].finished
  BY <1>3, ShowsWhatIs, WholeShowsAll
<1>8. \A p \in Came(fresh.phase) \ Came(list.phase) : pod[p].created - last <= k /\ last - pod[p].created <= k
  <2> SUFFICES ASSUME NEW p \in Came(fresh.phase) \ Came(list.phase)
               PROVE  pod[p].created - last <= k /\ last - pod[p].created <= k
    OBVIOUS
  <2>1. p \in Pod /\ pod[p].created \in Nat
    BY DEF Came, Held, Inv, Shape
  <2>2. list.at <= pod[p].created /\ pod[p].created <= fresh.at
    BY <1>3, <2>1, Toggled
  <2> QED BY <1>3, <1>5, <2>1, <2>2
<1>9. \A p \in Left(fresh.phase) \ Left(list.phase) : pod[p].finished - last <= k /\ last - pod[p].finished <= k
  <2> SUFFICES ASSUME NEW p \in Left(fresh.phase) \ Left(list.phase)
               PROVE  pod[p].finished - last <= k /\ last - pod[p].finished <= k
    OBVIOUS
  <2>1. p \in Pod /\ pod[p].finished \in Nat
    BY DEF Left, Held, Inv, Shape
  <2>2. list.at <= pod[p].finished /\ pod[p].finished <= fresh.at
    BY <1>3, <2>1, Toggled
  <2> QED BY <1>3, <1>5, <2>1, <2>2
<1>10. Total(Counted, DOMAIN samples)'
           = Total(Counted, DOMAIN samples) + Cardinality(Unfinished(list'.phase)) * Charged(Start, last, last)
  <2>1. Counted' = Counted
    BY <1>1 DEF Counted, Start, Began
  <2>2. Charged(Start, last, last) = 0
    BY <1>3, StartIs, ChargedLaws
  <2>3. Cardinality(Unfinished(list'.phase)) \in Nat
    BY UnfinishedCount
  <2>4. Total(Counted, DOMAIN samples) \in Int
    <3>1. samples \in Seq(Taken) /\ Start \in Int
      BY StartIs DEF Held, Clocked
    <3>2. IsFiniteSet(DOMAIN samples)
      BY <3>1, FS_Interval
    <3>3. Ints(Counted, DOMAIN samples)
      BY <3>1, CountedInts DEF Ints, Counted
    <3>4. DOMAIN samples \in SUBSET DOMAIN samples
      OBVIOUS
    <3>5. Adds(Counted, DOMAIN samples)
      BY <3>2, <3>3, TotalParts
    <3> QED BY <3>4, <3>5 DEF Adds
  <2> QED BY <1>1, <2>1, <2>2, <2>3, <2>4
<1>11. /\ list' \in Listing /\ Tells(list') /\ last \in Int /\ last <= last /\ (last < last => list'.at <= last)
       /\ UNCHANGED <<pod, episode>> /\ last' = last
  <2>1. Tells(list')
    BY <1>3, <1>6
  <2> QED BY <1>1, <1>3, <1>6, <2>1
<1> QED BY <1>4, <1>5, <1>6, <1>7, <1>8, <1>9, <1>10, <1>11, BooksOn

LEMMA LedgerNext == Held /\ Ledger /\ [Next]_vars => Ledger'
<1> SUFFICES ASSUME Held, Ledger, [Next]_vars PROVE Ledger'
  OBVIOUS
<1>1. CASE Tick \/ Poll \/ UNCHANGED vars
  <2>1. UNCHANGED <<pod, list, last, samples, episode, unseen, settling, complete>>
    BY <1>1 DEF Tick, Poll, vars, observed, call
  <2> QED BY <2>1, LedgerStays DEF Open
<1>2. CASE Settles
  <2>1. UNCHANGED <<pod, list, last, samples, episode, unseen>> /\ settling = "none"
    BY <1>2 DEF Settles, observed
  <2> QED BY <2>1, LedgerStays DEF Open
<1>3. CASE \E p \in Pod : ReadsLog(p)
  <2>1. UNCHANGED <<pod, list, last, samples, episode, unseen, settling, complete>>
    BY <1>3 DEF ReadsLog, call
  <2> QED BY <2>1, LedgerStays DEF Open
<1>4. CASE Closes \/ Learns
  BY <1>4 DEF Closes, Learns, Ledger, Open
<1> QED BY <1>1, <1>2, <1>3, <1>4, LedgerPods, LedgerReadsPoll, LedgerPollFails, LedgerRefreshes DEF Next

-----------------------------------------------------------------------------
(* Closing: what the samples count is what was lived, but for what was     *)
(* unseen.                                                                 *)

\* What the samples that closing gives count, of the time from the first decision on.
LEMMA SampledAtClose ==
    ASSUME Held, Closes
    PROVE  Sampled' = Total(Counted, DOMAIN samples)
<1> DEFINE A == {i \in DOMAIN samples : samples[i].time > Began}
           g == [i \in A |-> samples[i].count * Larger(0, Smaller(samples[i].time, now)
                                                             - Larger(samples[i].time - samples[i].dt, Began))]
<1>1. /\ given' = [samples |-> Restrict(samples, A), reading |-> reading, used |-> <<>>, end |-> now]
      /\ episode # <<>> /\ UNCHANGED episode
  <2>1. settling = "read" /\ (settling # "none" => episode # <<>>)
    BY DEF Closes, Held, Clocked
  <2> QED BY <2>1 DEF Closes, Began
<1>2. given'.samples = [i \in A |-> samples[i]] /\ given'.end = now
  BY <1>1 DEF Restrict
<1>3. DOMAIN given'.samples = A /\ \A i \in A : given'.samples[i] = samples[i]
  BY <1>2
<1>4. Sampled' = SumFunction(g)
  BY <1>1, <1>2, <1>3 DEF Sampled, Overlap, Began
<1>5. Sampled' = Total(g, A)
  <2>1. DOMAIN g = A
    OBVIOUS
  <2> QED BY <1>4, <2>1 DEF SumFunction, Total
<1>6. samples \in Seq(Taken) /\ Start \in Int /\ Start = Began /\ now \in Int
  BY <1>1, StartIs DEF Held, Clocked, Start, Inv, Shape
<1>7. ASSUME NEW i \in DOMAIN samples
      PROVE  /\ samples[i].time \in Int /\ samples[i].time - samples[i].dt \in Int /\ samples[i].count \in Int
             /\ samples[i].time <= now /\ samples[i].time - samples[i].dt <= samples[i].time
  <2>1. samples[i] \in Taken
    BY <1>6
  <2>2. samples[i].dt \in Nat /\ samples[i].time \in Nat /\ samples[i].count \in Nat
    BY <2>1 DEF Taken
  <2> QED BY <2>2 DEF Held, Clocked
<1>8. ASSUME NEW i \in DOMAIN samples PROVE Counted[i] \in Int
  BY <1>6, CountedInts DEF Counted
<1>9. ASSUME NEW i \in A PROVE g[i] = Counted[i]
  <2> DEFINE t == samples[i].time
             f == samples[i].time - samples[i].dt
  <2>1. t \in Int /\ f \in Int /\ t <= now /\ f <= t /\ t > Began
    BY <1>7
  <2>2. g[i] = samples[i].count * Larger(0, Smaller(t, now) - Larger(f, Began))
    OBVIOUS
  <2>3. Counted[i] = samples[i].count * Charged(Began, f, t)
    BY <1>6 DEF Counted
  <2> HIDE DEF t, f
  <2>4. Larger(0, Smaller(t, now) - Larger(f, Began)) = Charged(Began, f, t)
    BY <1>6, <2>1 DEF Larger, Smaller, Charged
  <2> QED BY <2>2, <2>3, <2>4
<1>10. ASSUME NEW i \in DOMAIN samples, i \notin A PROVE Counted[i] = 0
  <2> DEFINE t == samples[i].time
             f == samples[i].time - samples[i].dt
  <2>1. t \in Int /\ f \in Int /\ f <= t /\ t <= Began /\ samples[i].count \in Int
    BY <1>6, <1>7, <1>10
  <2>2. Counted[i] = samples[i].count * Charged(Began, f, t)
    BY <1>6 DEF Counted
  <2> HIDE DEF t, f
  <2>3. Charged(Began, f, t) = 0
    BY <1>6, <2>1 DEF Larger, Charged
  <2> QED BY <2>1, <2>2, <2>3
<1>11. IsFiniteSet(DOMAIN samples) /\ A \in SUBSET DOMAIN samples
  BY <1>6, FS_Interval
<1>12. IsFiniteSet(A)
  BY <1>11, FS_Subset
<1> HIDE DEF A, g
<1>13. Total(Counted, DOMAIN samples) = Total(Counted, A)
  BY <1>8, <1>10, <1>11, TotalPart
<1>14. Total(g, A) = Total(Counted, A)
  BY <1>8, <1>9, <1>11, <1>12, TotalSame
<1> QED BY <1>5, <1>13, <1>14

\* What the pods of a complete run lived, as the time from when they came less that from when they left.
LEMMA LivedAtClose ==
    ASSUME Held, Closes, complete
    PROVE  /\ Lived' = Total(Since(Start, Came(Phases), Created, last), Pod)
                           - Total(Since(Start, Left(Phases), Finished, last), Pod)
           /\ Lived' \in Int
<1> DEFINE K == Came(Phases)
           v == Since(Start, K, Created, last)
           w == Since(Start, K, Finished, last)
           d == [p \in Pod |-> v[p] - w[p]]
           h == [p \in K |-> Larger(0, Smaller(pod[p].finished, now) - Larger(pod[p].created, Began))]
<1>1. given'.end = now /\ episode # <<>> /\ UNCHANGED <<episode, pod>>
  BY DEF Closes, Held, Clocked
<1>2. \A p \in Pod : Phases[p] = pod[p].phase
  BY DEF Phases
<1>3. K = {q \in Pod : pod'[q].phase # "none"} /\ Left(Phases) = K
  BY <1>1, <1>2 DEF Came, Left, Held, Inv, Over, Ended
<1>4. Lived' = Total(h, K)
  <2>1. h = [p \in {q \in Pod : pod'[q].phase # "none"} |->
                Larger(0, Smaller(pod'[p].finished, now) - Larger(pod'[p].created, Began))]
    BY <1>1, <1>3
  <2>2. Lived' = SumFunction(h)
    BY <1>1, <2>1 DEF Lived, Overlap, Began
  <2>3. DOMAIN h = K
    OBVIOUS
  <2> QED BY <2>2, <2>3 DEF SumFunction, Total
<1>5. Start \in Int /\ Start = Began /\ now \in Int /\ last \in Int
  BY <1>1, StartIs DEF Held, Clocked, Start, Inv, Shape
<1>6. ASSUME NEW p \in Pod
      PROVE  /\ pod[p].created \in Int /\ pod[p].finished \in Int /\ pod[p].finished <= now
             /\ p \in K => pod[p].created <= pod[p].finished
             /\ Created[p] = pod[p].created /\ Finished[p] = pod[p].finished
  <2>1. pod[p].created \in Int /\ pod[p].finished \in Int
    BY DEF Held, Inv, Shape
  <2>2. pod[p].finished <= now /\ (p \in K => pod[p].created <= pod[p].finished)
    BY <1>2, <1>3 DEF Held, Clocked, Left
  <2> QED BY <2>1, <2>2 DEF Created, Finished
<1>7. ASSUME NEW p \in Pod
      PROVE  /\ v[p] \in Int /\ w[p] \in Int /\ d[p] \in Int /\ v[p] = w[p] + d[p]
             /\ p \in K => h[p] = d[p]
             /\ p \notin K => d[p] = 0
  <2> DEFINE f == pod[p].created
             t == pod[p].finished
  <2>1. f \in Int /\ t \in Int /\ t <= now /\ (p \in K => f <= t)
    BY <1>6
  <2>2. /\ v[p] = IF p \in K THEN Charged(Start, f, last) ELSE 0
        /\ w[p] = IF p \in K THEN Charged(Start, t, last) ELSE 0
        /\ d[p] = v[p] - w[p]
    BY <1>6 DEF Since
  <2>3. p \in K => h[p] = Larger(0, Smaller(t, now) - Larger(f, Start))
    BY <1>5
  <2> HIDE DEF f, t, v, w, d, h, K
  <2>4. /\ Charged(Start, f, last) \in Int /\ Charged(Start, t, last) \in Int
        /\ Charged(Start, f, last) - Charged(Start, t, last) = Charged(Start, f, t)
    BY <1>5, <2>1 DEF Charged, Larger
  <2>5. f <= t => Larger(0, Smaller(t, now) - Larger(f, Start)) = Charged(Start, f, t)
    BY <1>5, <2>1 DEF Charged, Larger, Smaller
  <2> QED BY <2>1, <2>2, <2>3, <2>4, <2>5
<1>8. K \in SUBSET Pod /\ IsFiniteSet(K) /\ IsFiniteSet(Pod)
  BY PartsOf, PodParts
<1> HIDE DEF K, v, w, d, h
<1>9. Total(v, Pod) = Total(w, Pod) + Total(d, Pod)
  <2>1. \A p \in Pod : w[p] \in Int /\ d[p] \in Int /\ v[p] = w[p] + d[p]
    BY <1>7
  <2> QED BY <1>8, <2>1, TotalPlus
<1>10. Total(d, Pod) = Total(d, K)
  BY <1>7, <1>8, TotalPart
<1>11. Total(h, K) = Total(d, K)
  <2>1. \A p \in K : d[p] \in Int /\ h[p] = d[p]
    BY <1>7, <1>8
  <2> QED BY <1>8, <2>1, TotalSame
<1>12. Total(w, Pod) \in Int /\ Total(d, Pod) \in Int
  <2>1. Ints(w, Pod) /\ Ints(d, Pod) /\ Pod \in SUBSET Pod
    BY <1>7 DEF Ints
  <2> QED BY <1>8, <2>1, TotalParts DEF Adds
<1>13. Lived' = Total(v, Pod) - Total(w, Pod)
  BY <1>4, <1>9, <1>10, <1>11, <1>12
<1>14. Lived' \in Int
  BY <1>4, <1>10, <1>11, <1>12
<1> QED BY <1>3, <1>13, <1>14 DEF K, v, w


LEMMA ClosingBalances ==
    ASSUME Held, Ledger, Closes, complete
    PROVE  (Sampled - Lived \in -unseen .. unseen)'
<1> DEFINE X1 == Came(list.phase)
           X2 == Left(list.phase)
           H1 == Came(Phases)
           H2 == Left(Phases)
           k == now - list.at
           v == Since(Start, H1, Created, last)
           w == Since(Start, H2, Finished, last)
<1>1. settling = "read" /\ unseen' = unseen + Changes(Phases) * k
  BY DEF Closes
<1>2. PICK came, early, left, late : Books(came, early, left, late)
  BY <1>1 DEF Ledger, Open
<1>3. /\ list \in Listing /\ list.at \in Nat /\ list.at <= now /\ Tells(list) /\ now \in Nat /\ last \in Nat
      /\ last <= now /\ k \in Nat
      /\ list.at <= last \/ Whole(list)
  BY <1>1 DEF Held, Clocked, Told, Inv, Shape, Listing, Ahead
<1>4. /\ X1 \in SUBSET H1 /\ X2 \in SUBSET H2 /\ X1 \in SUBSET Pod /\ X2 \in SUBSET Pod
      /\ H1 \in SUBSET Pod /\ H2 \in SUBSET Pod
  BY <1>3, ShowsWhatIs, PartsOf
<1>5. Start \in Int /\ Created \in [Pod -> Int] /\ Finished \in [Pod -> Int]
  BY StartIs, TimesAre
<1>6. \A p \in Pod : /\ pod[p].created \in Nat /\ pod[p].finished \in Nat
                     /\ pod[p].created <= now /\ pod[p].finished <= now
                     /\ Created[p] = pod[p].created /\ Finished[p] = pod[p].finished
  BY DEF Held, Inv, Shape, Clocked, Created, Finished
<1>7. \A p \in H1 \ X1 : Created[p] - last <= k /\ last - Created[p] <= k
  <2> SUFFICES ASSUME NEW p \in H1 \ X1 PROVE Created[p] - last <= k /\ last - Created[p] <= k
    OBVIOUS
  <2>1. p \in Pod /\ list.at <= pod[p].created
    BY <1>3, <1>4 DEF Came, Phases, Tells, TellsOf
  <2>2. list.at <= last
    BY <1>3, WholeShowsAll
  <2> QED BY <1>3, <1>6, <2>1, <2>2
<1>8. \A p \in H2 \ X2 : Finished[p] - last <= k /\ last - Finished[p] <= k
  <2> SUFFICES ASSUME NEW p \in H2 \ X2 PROVE Finished[p] - last <= k /\ last - Finished[p] <= k
    OBVIOUS
  <2>1. p \in Pod /\ list.at <= pod[p].finished
    BY <1>3, <1>4 DEF Left, Phases, Tells, TellsOf
  <2>2. list.at <= last
    BY <1>3, WholeShowsAll
  <2> QED BY <1>3, <1>6, <2>1, <2>2
<1>9. /\ Follows(came, early, X1, H1, Created, Start, last)
      /\ Follows(left, late, X2, H2, Finished, Start, last)
      /\ Total(Counted, DOMAIN samples) = Total(came, Pod) - Total(left, Pod)
      /\ unseen = Total(early, Pod) + Total(late, Pod)
  BY <1>2 DEF Books
<1>10. Changes(Phases) = Cardinality(SymDiff(H1, X1)) + Cardinality(SymDiff(H2, X2))
  BY DEF Changes
<1>11. Cardinality(SymDiff(H1, X1)) \in Nat /\ Cardinality(SymDiff(H2, X2)) \in Nat
  BY ChangesCount, PodParts
<1>12. Cardinality(H1) \in Nat /\ Cardinality(H2) \in Nat
  BY PartsOf
<1>13. Sampled' = Total(Counted, DOMAIN samples)
  BY SampledAtClose
<1>14. Lived' = Total(v, Pod) - Total(w, Pod)
  BY LivedAtClose
<1>15. last \in Int /\ last <= last /\ k \in Nat /\ Charged(Start, last, last) = 0
  BY <1>3, <1>5, ChargedLaws
<1> HIDE DEF X1, X2, H1, H2, k, v, w
<1>16. PICK c, e : /\ Follows(c, e, H1, H1, Created, Start, last)
                   /\ Total(c, Pod) = Total(came, Pod) + Cardinality(H1) * Charged(Start, last, last)
                   /\ Total(e, Pod) = Total(early, Pod) + Cardinality(SymDiff(H1, X1)) * k
  <2>1. Turns(came, early, X1, H1, H1, Created, Start, last, last, k)
    BY <1>4, <1>5, <1>7, <1>9, <1>15 DEF Turns
  <2> QED BY <2>1, FollowsOn
<1>17. PICK l, o : /\ Follows(l, o, H2, H2, Finished, Start, last)
                   /\ Total(l, Pod) = Total(left, Pod) + Cardinality(H2) * Charged(Start, last, last)
                   /\ Total(o, Pod) = Total(late, Pod) + Cardinality(SymDiff(H2, X2)) * k
  <2>1. Turns(left, late, X2, H2, H2, Finished, Start, last, last, k)
    BY <1>4, <1>5, <1>8, <1>9, <1>15 DEF Turns
  <2> QED BY <2>1, FollowsOn
<1>18. /\ Total(c, Pod) \in Int /\ Total(e, Pod) \in Nat /\ Total(v, Pod) \in Int
       /\ Total(c, Pod) - Total(v, Pod) <= Total(e, Pod)
       /\ Total(v, Pod) - Total(c, Pod) <= Total(e, Pod)
  BY <1>4, <1>5, <1>15, <1>16, FollowsAll DEF v
<1>19. /\ Total(l, Pod) \in Int /\ Total(o, Pod) \in Nat /\ Total(w, Pod) \in Int
       /\ Total(l, Pod) - Total(w, Pod) <= Total(o, Pod)
       /\ Total(w, Pod) - Total(l, Pod) <= Total(o, Pod)
  BY <1>4, <1>5, <1>15, <1>17, FollowsAll DEF w
<1>20. /\ Total(came, Pod) \in Int /\ Total(left, Pod) \in Int /\ Total(early, Pod) \in Int /\ Total(late, Pod) \in Int
  <2>1. Ints(came, Pod) /\ Ints(left, Pod) /\ Ints(early, Pod) /\ Ints(late, Pod)
    BY <1>9 DEF Follows, Ints
  <2>2. Pod \in SUBSET Pod
    OBVIOUS
  <2> QED BY <2>1, <2>2, EpisodeAssumption, TotalParts DEF Adds
<1>21. Total(c, Pod) = Total(came, Pod) /\ Total(l, Pod) = Total(left, Pod)
  <2>1. \A n \in Nat : n * 0 = 0
    OBVIOUS
  <2> QED BY <1>12, <1>15, <1>16, <1>17, <1>20, <2>1
<1>22. unseen' = Total(e, Pod) + Total(o, Pod)
  <2>1. \A x, y, z \in Int : (x + y) * z = x * z + y * z /\ x * z \in Int
    OBVIOUS
  <2>2. Changes(Phases) * k = Cardinality(SymDiff(H1, X1)) * k + Cardinality(SymDiff(H2, X2)) * k
        /\ Cardinality(SymDiff(H1, X1)) * k \in Int /\ Cardinality(SymDiff(H2, X2)) * k \in Int
    BY <1>10, <1>11, <1>15, <2>1
  <2> QED BY <1>1, <1>9, <1>16, <1>17, <1>20, <2>2
<1>23. Sampled' - Lived' \in -(unseen') .. unseen'
  BY <1>9, <1>13, <1>14, <1>18, <1>19, <1>21, <1>22
<1> QED BY <1>23

\* Once the run is closed, only polls read late change anything, and they only add to what was unseen.
Balanced == complete /\ settling \in {"closed", "learned"} => Sampled - Lived \in -unseen .. unseen

LEMMA UnseenGrows == ASSUME Held, [Next]_vars PROVE unseen' \in Nat /\ unseen <= unseen'
<1>1. unseen \in Nat /\ unseen' \in Nat
  BY HeldNext DEF Held, Clocked
<1>2. CASE ReadsPoll
  <2>1. polled \in Listing /\ polled.at <= now /\ now \in Nat /\ Reads(polled)
    BY <1>2 DEF ReadsPoll, Held, Clocked, Inv, Shape
  <2>2. Changes(polled.phase) * Late(polled) \in Nat /\ Late(polled) = now - Min({polled.at, list.at})
    BY <2>1, LateCounts DEF Held
  <2> QED BY <1>1, <2>1, <2>2 DEF Reads
<1>3. CASE Refreshes
  <2>1. fresh \in Listing /\ fresh.at <= now /\ now \in Nat /\ Reads(fresh)
    BY <1>3 DEF Refreshes, Held, Clocked, Inv, Shape
  <2>2. Changes(fresh.phase) * Late(fresh) \in Nat /\ Late(fresh) = now - Min({fresh.at, list.at})
    BY <2>1, LateCounts DEF Held
  <2> QED BY <1>1, <2>1, <2>2 DEF Reads
<1>4. CASE Closes
  <2>1. now - list.at \in Nat /\ Changes(Phases) \in Nat
    BY ChangesCount DEF Held, Clocked, Inv, Shape, Listing
  <2>2. \A a, b \in Nat : a * b \in Nat
    OBVIOUS
  <2>3. Changes(Phases) * (now - list.at) \in Nat
    BY <2>1, <2>2
  <2> QED BY <1>1, <1>4, <2>3 DEF Closes
<1>5. CASE ~(ReadsPoll \/ Refreshes \/ Closes)
  <2>1. unseen' = unseen
    BY <1>5 DEF Next, Tick, Arrives, Decides, Finishes, ReadsLog, Poll, PollFails, Settles, Learns, vars
  <2> QED BY <1>1, <2>1
<1> QED BY <1>2, <1>3, <1>4, <1>5

LEMMA BalancedNext == Held /\ Ledger /\ Balanced /\ [Next]_vars => Balanced'
<1> SUFFICES ASSUME Held, Ledger, Balanced, [Next]_vars, complete', settling' \in {"closed", "learned"}
             PROVE  Sampled' - Lived' \in -(unseen') .. unseen'
  BY DEF Balanced
<1>1. CASE Closes
  <2>1. complete
    BY <1>1 DEF Closes
  <2>2. (Sampled - Lived \in -unseen .. unseen)'
    BY <1>1, <2>1, ClosingBalances
  <2> QED BY <2>2
<1>2. CASE ~Closes
  <2>1. complete' = complete /\ settling \in {"closed", "learned"}
    BY <1>2 DEF Next, Tick, Arrives, Decides, Finishes, ReadsLog, Poll, ReadsPoll, PollFails, Settles, Refreshes, Learns,
       vars, call
  <2>2. pod' = pod /\ episode' = episode
    <3>1. \A p \in Pod : pod[p].phase \in {"none"} \cup Ended
      BY <2>1 DEF Held, Inv, Over
    <3>2. ~\E p \in Pod : Arrives(p) \/ Decides(p) \/ Finishes(p)
      BY <2>1, <3>1 DEF Arrives, Decides, Finishes, Ended
    <3> QED BY <1>2, <3>2 DEF Next, Tick, ReadsLog, Poll, ReadsPoll, PollFails, Settles, Refreshes, Learns, vars
  <2>3. given'.samples = given.samples /\ given'.end = given.end
    <3>1. CASE Learns
      BY <3>1 DEF Learns, Held, Inv, Shape
    <3>2. CASE ~Learns
      <4>1. given' = given
        BY <1>2, <2>1, <3>2 DEF Next, Tick, Arrives, Decides, Finishes, ReadsLog, Poll, ReadsPoll, PollFails, Settles,
           Refreshes, vars, call
      <4> QED BY <4>1
    <3> QED BY <3>1, <3>2
  <2>4. Sampled' = Sampled /\ Lived' = Lived
    BY <2>2, <2>3 DEF Sampled, Lived, Overlap, Began
  <2>5. Sampled - Lived \in -unseen .. unseen /\ unseen \in Nat
    BY <2>1 DEF Balanced, Held, Clocked
  <2>6. unseen' \in Nat /\ unseen <= unseen'
    BY UnseenGrows
  <2> QED BY <2>4, <2>5, <2>6
<1> QED BY <1>1, <1>2


\* The time the samples count for a complete run is the time its pods spent in the cluster (loop, read,
\* kaptain.py:257-274), but for the time they had come or gone unseen, whatever polls fail in between, or are
\* read late, or after a newer list.
THEOREM SamplesCountTheTimeLived == Spec => []CostIsRuns
<1>1. Init => Held /\ Ledger /\ Balanced
  BY InitInv, ClockedInit, LedgerInit DEF Held, Balanced, Init
<1>2. Held /\ Ledger /\ Balanced /\ [Next]_vars => (Held /\ Ledger /\ Balanced)'
  BY HeldNext, LedgerNext, BalancedNext
<1>3. Balanced => CostIsRuns
  BY DEF Balanced, CostIsRuns, Learned
<1> QED BY <1>1, <1>2, <1>3, PTL DEF Spec

-----------------------------------------------------------------------------
(* The return. What the discount of a time is worth is a parameter, of     *)
(* which only the law of the exponential is used.                          *)

LEMMA DiscountType ==
    ASSUME NEW b \in 0 .. MaxTime, NEW t \in 0 .. MaxTime, b <= t
    PROVE  t - b \in 0 .. MaxTime /\ Discount[t - b] \in Int /\ Discount[0] \in Int
<1>1. MaxTime \in Nat
  BY EpisodeAssumption
<1>2. t - b \in 0 .. MaxTime /\ 0 \in 0 .. MaxTime
  BY <1>1
<1> QED BY <1>2, DiscountAssumption

\* Discounting to m, and then from m to b, is discounting to b.
LEMMA DiscountLaw ==
    ASSUME NEW b \in 0 .. MaxTime, NEW m \in 0 .. MaxTime, NEW t \in 0 .. MaxTime, b <= m, m <= t
    PROVE  Discount[m - b] * Discount[t - m] = Discount[0] * Discount[t - b]
<1>1. MaxTime \in Nat
  BY EpisodeAssumption
<1>2. m - b \in 0 .. MaxTime /\ t - m \in 0 .. MaxTime /\ (m - b) + (t - m) = t - b /\ t - b <= MaxTime
  BY <1>1
<1> QED BY <1>2, DiscountAssumption

\* A rate of c from f to t, discounted to b.
Span(c, b, f, t) == c * (Discount[f - b] - Discount[t - b])

\* What Discounted adds of one sample, of a rate of c from f to t.
Part(c, f, t, start, stop) ==
    IF Smaller(t, stop) > Larger(f, start) THEN Span(c, start, Larger(f, start), Smaller(t, stop)) ELSE 0

LEMMA SpanType ==
    ASSUME NEW c \in Int, NEW b \in 0 .. MaxTime, NEW f \in 0 .. MaxTime, NEW t \in 0 .. MaxTime, b <= f, b <= t
    PROVE  Span(c, b, f, t) \in Int
<1>1. Discount[f - b] \in Int /\ Discount[t - b] \in Int
  BY DiscountType
<1>2. \A x, y \in Int : c * (x - y) \in Int
  OBVIOUS
<1> QED BY <1>1, <1>2 DEF Span

LEMMA SpansMeet ==
    ASSUME NEW c \in Int, NEW b \in 0 .. MaxTime, NEW f \in 0 .. MaxTime, NEW m \in 0 .. MaxTime,
           NEW t \in 0 .. MaxTime, b <= f, b <= m, b <= t
    PROVE  Discount[0] * Span(c, b, f, m) + Discount[0] * Span(c, b, m, t) = Discount[0] * Span(c, b, f, t)
<1>1. Discount[f - b] \in Int /\ Discount[m - b] \in Int /\ Discount[t - b] \in Int /\ Discount[0] \in Int
  BY DiscountType
<1>2. \A x, y, z \in Int : c * (x - y) + c * (y - z) = c * (x - z) /\ c * (x - y) \in Int
  OBVIOUS
<1>3. \A d, x, y \in Int : d * x + d * y = d * (x + y)
  OBVIOUS
<1>4. /\ Span(c, b, f, m) + Span(c, b, m, t) = Span(c, b, f, t)
      /\ Span(c, b, f, m) \in Int /\ Span(c, b, m, t) \in Int
  BY <1>1, <1>2 DEF Span
<1> QED BY <1>1, <1>3, <1>4

LEMMA SpanBefore ==
    ASSUME NEW c \in Int, NEW b \in 0 .. MaxTime, NEW m \in 0 .. MaxTime, NEW f \in 0 .. MaxTime,
           NEW t \in 0 .. MaxTime, b <= m, m <= f, m <= t
    PROVE  Discount[m - b] * Span(c, m, f, t) = Discount[0] * Span(c, b, f, t)
<1>1. b <= f /\ b <= t /\ MaxTime \in Nat
  BY EpisodeAssumption
<1>2. /\ Discount[m - b] \in Int /\ Discount[f - m] \in Int /\ Discount[t - m] \in Int
      /\ Discount[f - b] \in Int /\ Discount[t - b] \in Int /\ Discount[0] \in Int
  BY <1>1, DiscountType
<1>3. /\ Discount[m - b] * Discount[f - m] = Discount[0] * Discount[f - b]
      /\ Discount[m - b] * Discount[t - m] = Discount[0] * Discount[t - b]
  BY DiscountLaw
<1>4. \A d, x, y \in Int : d * (c * (x - y)) = c * (d * x - d * y)
  OBVIOUS
<1>5. Discount[m - b] * Span(c, m, f, t)
          = c * (Discount[m - b] * Discount[f - m] - Discount[m - b] * Discount[t - m])
  BY <1>2, <1>4 DEF Span
<1>6. Discount[0] * Span(c, b, f, t) = c * (Discount[0] * Discount[f - b] - Discount[0] * Discount[t - b])
  BY <1>2, <1>4 DEF Span
<1> QED BY <1>3, <1>5, <1>6

\* What is counted up to u is what is counted up to m, and from m on, discounted to m and then on.
LEMMA PartSplits ==
    ASSUME NEW c \in Int, NEW f \in Int, NEW t \in Int, NEW b \in 0 .. MaxTime, NEW m \in 0 .. MaxTime,
           NEW u \in 0 .. MaxTime, b <= m, m <= u
    PROVE  /\ Discount[0] * Part(c, f, t, b, m) + Discount[m - b] * Part(c, f, t, m, u)
                  = Discount[0] * Part(c, f, t, b, u)
           /\ Part(c, f, t, b, m) \in Int /\ Part(c, f, t, m, u) \in Int /\ Part(c, f, t, b, u) \in Int
           /\ Part(c, f, t, b, b) = 0
<1>1. MaxTime \in Nat /\ Discount[m - b] \in Int /\ Discount[0] \in Int
  BY EpisodeAssumption, DiscountType
<1>2. ASSUME NEW x \in 0 .. MaxTime, NEW y \in 0 .. MaxTime, x <= y PROVE Part(c, f, t, x, y) \in Int
  <2>1. CASE Smaller(t, y) > Larger(f, x)
    <3>1. Smaller(t, y) \in 0 .. MaxTime /\ Larger(f, x) \in 0 .. MaxTime /\ x <= Smaller(t, y) /\ x <= Larger(f, x)
      BY <1>1, <2>1 DEF Smaller, Larger
    <3>2. Span(c, x, Larger(f, x), Smaller(t, y)) \in Int
      BY <3>1, SpanType
    <3> QED BY <2>1, <3>2 DEF Part
  <2>2. CASE ~(Smaller(t, y) > Larger(f, x))
    BY <2>2 DEF Part
  <2> QED BY <2>1, <2>2
<1>3. Part(c, f, t, b, b) = 0
  <2>1. ~(Smaller(t, b) > Larger(f, b))
    BY <1>1 DEF Smaller, Larger
  <2> QED BY <2>1 DEF Part
<1>4. Part(c, f, t, b, m) \in Int /\ Part(c, f, t, m, u) \in Int /\ Part(c, f, t, b, u) \in Int
  <2>1. b <= u
    BY <1>1
  <2> QED BY <1>2, <2>1
<1>5. \A d \in Int : d * 0 = 0
  OBVIOUS
<1>6. \A d, x \in Int : d * x \in Int
  OBVIOUS
<1>7. CASE Smaller(t, m) > Larger(f, b) /\ Smaller(t, u) > Larger(f, m)
  <2>1. /\ Smaller(t, m) = m /\ Larger(f, m) = m /\ Larger(f, b) \in 0 .. MaxTime /\ Smaller(t, u) \in 0 .. MaxTime
        /\ b <= Larger(f, b) /\ m <= Smaller(t, u) /\ b <= Smaller(t, u) /\ Smaller(t, u) > Larger(f, b)
    BY <1>1, <1>7 DEF Smaller, Larger
  <2>2. Part(c, f, t, b, m) = Span(c, b, Larger(f, b), m) /\ Part(c, f, t, m, u) = Span(c, m, m, Smaller(t, u))
    BY <1>7, <2>1 DEF Part
  <2>3. Part(c, f, t, b, u) = Span(c, b, Larger(f, b), Smaller(t, u))
    BY <2>1 DEF Part
  <2>4. Discount[m - b] * Span(c, m, m, Smaller(t, u)) = Discount[0] * Span(c, b, m, Smaller(t, u))
    BY <2>1, SpanBefore
  <2>5. Discount[0] * Span(c, b, Larger(f, b), m) + Discount[0] * Span(c, b, m, Smaller(t, u))
            = Discount[0] * Span(c, b, Larger(f, b), Smaller(t, u))
    BY <2>1, SpansMeet
  <2> QED BY <1>3, <1>4, <2>2, <2>3, <2>4, <2>5
<1>8. CASE Smaller(t, m) > Larger(f, b) /\ ~(Smaller(t, u) > Larger(f, m))
  <2>1. Smaller(t, m) = Smaller(t, u)
    BY <1>1, <1>8 DEF Smaller, Larger
  <2>2. Part(c, f, t, m, u) = 0 /\ Part(c, f, t, b, m) = Part(c, f, t, b, u)
    BY <1>8, <2>1 DEF Part
  <2>3. Discount[0] * Part(c, f, t, b, u) \in Int
    BY <1>1, <1>4, <1>6
  <2> QED BY <1>1, <1>3, <1>4, <1>5, <2>2, <2>3
<1>9. CASE ~(Smaller(t, m) > Larger(f, b)) /\ Smaller(t, u) > Larger(f, m)
  <2>1. /\ Larger(f, m) = Larger(f, b) /\ Smaller(t, u) > Larger(f, b) /\ m <= Larger(f, m) /\ m <= Smaller(t, u)
        /\ Larger(f, m) \in 0 .. MaxTime /\ Smaller(t, u) \in 0 .. MaxTime
    BY <1>1, <1>9 DEF Smaller, Larger
  <2>2. Part(c, f, t, b, m) = 0 /\ Part(c, f, t, m, u) = Span(c, m, Larger(f, m), Smaller(t, u))
    BY <1>9 DEF Part
  <2>3. Part(c, f, t, b, u) = Span(c, b, Larger(f, m), Smaller(t, u))
    BY <2>1 DEF Part
  <2>4. Discount[m - b] * Span(c, m, Larger(f, m), Smaller(t, u)) = Discount[0] * Span(c, b, Larger(f, m), Smaller(t, u))
    BY <2>1, SpanBefore
  <2>5. Discount[0] * Part(c, f, t, b, u) \in Int
    BY <1>1, <1>4, <1>6
  <2> QED BY <1>1, <1>3, <1>4, <1>5, <2>2, <2>3, <2>4, <2>5
<1>10. CASE ~(Smaller(t, m) > Larger(f, b)) /\ ~(Smaller(t, u) > Larger(f, m))
  <2>1. ~(Smaller(t, u) > Larger(f, b))
    BY <1>1, <1>10 DEF Smaller, Larger
  <2>2. Part(c, f, t, b, m) = 0 /\ Part(c, f, t, m, u) = 0 /\ Part(c, f, t, b, u) = 0
    BY <1>10, <2>1 DEF Part
  <2> QED BY <1>1, <1>3, <1>5, <2>2
<1> QED BY <1>7, <1>8, <1>9, <1>10


\* Anything with numbers for its times and rates, as samples and what was used are.
Items(s) == IsFiniteSet(DOMAIN s) /\ \A i \in DOMAIN s : s[i].time \in Int /\ s[i].dt \in Int /\ s[i].count \in Int

PartsIn(s, start, stop) == [i \in DOMAIN s |-> Part(s[i].count, s[i].time - s[i].dt, s[i].time, start, stop)]

LEMMA DiscountedIsTotal ==
    ASSUME NEW s, NEW start, NEW stop
    PROVE  Discounted(s, start, stop) = Total(PartsIn(s, start, stop), DOMAIN s)
<1>1. Discounted(s, start, stop) = SumFunction(PartsIn(s, start, stop))
  BY DEF Discounted, PartsIn, Part, Span
<1>2. DOMAIN PartsIn(s, start, stop) = DOMAIN s
  BY DEF PartsIn
<1> QED BY <1>1, <1>2 DEF SumFunction, Total

LEMMA TotalInt ==
    ASSUME NEW D, IsFiniteSet(D), NEW f, \A x \in D : f[x] \in Int
    PROVE  Total(f, D) \in Int
<1>1. Ints(f, D) /\ D \in SUBSET D
  BY DEF Ints
<1> QED BY <1>1, TotalParts DEF Adds

LEMMA DiscountedSplits ==
    ASSUME NEW s, Items(s), NEW b \in 0 .. MaxTime, NEW m \in 0 .. MaxTime, NEW u \in 0 .. MaxTime, b <= m, m <= u
    PROVE  /\ Discount[0] * Discounted(s, b, m) + Discount[m - b] * Discounted(s, m, u)
                  = Discount[0] * Discounted(s, b, u)
           /\ Discounted(s, b, m) \in Int /\ Discounted(s, m, u) \in Int /\ Discounted(s, b, u) \in Int
           /\ Discounted(s, b, b) = 0
<1> DEFINE D == DOMAIN s
           f == PartsIn(s, b, m)
           g == PartsIn(s, m, u)
           h == PartsIn(s, b, u)
           o == PartsIn(s, b, b)
           x == Discount[0]
           y == Discount[m - b]
           xf == [i \in D |-> x * f[i]]
           yg == [i \in D |-> y * g[i]]
           xh == [i \in D |-> x * h[i]]
<1>1. IsFiniteSet(D) /\ x \in Int /\ y \in Int
  BY DiscountType DEF Items
<1>2. ASSUME NEW i \in D
      PROVE  x * f[i] + y * g[i] = x * h[i] /\ f[i] \in Int /\ g[i] \in Int /\ h[i] \in Int /\ o[i] = 0
  <2> DEFINE c == s[i].count
             p == s[i].time - s[i].dt
             q == s[i].time
  <2>1. c \in Int /\ p \in Int /\ q \in Int
    BY DEF Items
  <2>2. f[i] = Part(c, p, q, b, m) /\ g[i] = Part(c, p, q, m, u) /\ h[i] = Part(c, p, q, b, u) /\ o[i] = Part(c, p, q, b, b)
    BY DEF PartsIn
  <2> HIDE DEF c, p, q, f, g, h, o
  <2>3. /\ Discount[0] * Part(c, p, q, b, m) + Discount[m - b] * Part(c, p, q, m, u) = Discount[0] * Part(c, p, q, b, u)
        /\ Part(c, p, q, b, m) \in Int /\ Part(c, p, q, m, u) \in Int /\ Part(c, p, q, b, u) \in Int
        /\ Part(c, p, q, b, b) = 0
    BY <2>1, PartSplits
  <2> QED BY <2>2, <2>3
<1>3. /\ Discounted(s, b, m) = Total(f, D) /\ Discounted(s, m, u) = Total(g, D) /\ Discounted(s, b, u) = Total(h, D)
      /\ Discounted(s, b, b) = Total(o, D)
  BY DiscountedIsTotal
<1> HIDE DEF D, f, g, h, o, x, y
<1>4. \A v, w \in Int : v * w \in Int
  OBVIOUS
<1>5. \A i \in D : xf[i] \in Int /\ yg[i] \in Int /\ xh[i] = xf[i] + yg[i]
  BY <1>1, <1>2, <1>4
<1>6. /\ \A i \in D : f[i] \in Int /\ xf[i] = x * f[i]
      /\ \A i \in D : g[i] \in Int /\ yg[i] = y * g[i]
      /\ \A i \in D : h[i] \in Int /\ xh[i] = x * h[i]
  BY <1>2
<1>7. Total(f, D) \in Int /\ Total(g, D) \in Int /\ Total(h, D) \in Int
  BY <1>1, <1>6, TotalInt
<1> HIDE DEF xf, yg, xh
<1>8. Total(xh, D) = Total(xf, D) + Total(yg, D)
  BY <1>1, <1>5, TotalPlus
<1>9. Total(xf, D) = x * Total(f, D)
  BY <1>1, <1>6, TotalTimes
<1>10. Total(yg, D) = y * Total(g, D)
  BY <1>1, <1>6, TotalTimes
<1>11. Total(xh, D) = x * Total(h, D)
  BY <1>1, <1>6, TotalTimes
<1>12. Total(o, D) = 0
  <2>1. \A i \in D : o[i] = IF i \in {} THEN 0 ELSE 0
    BY <1>2
  <2>2. Total(o, D) = Cardinality({}) * 0
    BY <1>1, <2>1, TotalCount
  <2> QED BY <2>2, FS_EmptySet
<1> QED BY <1>3, <1>7, <1>8, <1>9, <1>10, <1>11, <1>12 DEF x, y

LEMMA Telescopes ==
    ASSUME NEW n \in Nat, NEW f, NEW upto, \A k \in 1 .. n + 1 : upto[k] \in Int,
           \A k \in 1 .. n : f[k] \in Int /\ upto[k + 1] = upto[k] + f[k]
    PROVE  Total(f, 1 .. n) = upto[n + 1] - upto[1]
<1> DEFINE S == {m \in Nat : m <= n => Total(f, 1 .. m) = upto[m + 1] - upto[1]}
<1>1. 0 \in S
  <2>1. 1 .. 0 = {} /\ 1 \in 1 .. n + 1
    OBVIOUS
  <2>2. Total(f, 1 .. 0) = 0
    BY <2>1, SumEmpty DEF Total
  <2>3. upto[1] \in Int
    BY <2>1
  <2> QED BY <2>2, <2>3
<1>2. ASSUME NEW m \in Nat, m \in S PROVE m + 1 \in S
  <2> SUFFICES ASSUME m + 1 <= n PROVE Total(f, 1 .. m + 1) = upto[(m + 1) + 1] - upto[1]
    OBVIOUS
  <2>1. /\ m + 1 \in 1 .. n /\ m + 1 \in 1 .. n + 1 /\ (m + 1) + 1 \in 1 .. n + 1 /\ 1 \in 1 .. n + 1
        /\ \A k \in 1 .. m : k \in 1 .. n
    OBVIOUS
  <2>2. (\A k \in 1 .. m : f[k] \in Int /\ f[k] = f[k]) /\ f[m + 1] \in Int
    BY <2>1
  <2>3. Total(f, 1 .. m + 1) = Total(f, 1 .. m) + f[m + 1]
    BY <2>2, TotalAppend
  <2>4. Total(f, 1 .. m) = upto[m + 1] - upto[1]
    BY <1>2
  <2>5. upto[m + 1] \in Int /\ upto[(m + 1) + 1] \in Int /\ upto[1] \in Int
        /\ upto[(m + 1) + 1] = upto[m + 1] + f[m + 1]
    BY <2>1
  <2> QED BY <2>2, <2>3, <2>4, <2>5
<1>3. n \in S
  <2> HIDE DEF S
  <2>1. Nat \subseteq S
    BY <1>1, <1>2, MemberInduction
  <2> QED BY <2>1
<1> QED BY <1>3

-----------------------------------------------------------------------------
(* The decisions and the end of the episode.                               *)

Ordered == \A j, k \in DOMAIN episode : j <= k => episode[j].time <= episode[k].time

Ending ==
    /\ settling \in {"closed", "learned"} =>
           /\ given.end \in 0 .. MaxTime /\ \A k \in DOMAIN episode : episode[k].time <= given.end
           /\ Items(given.samples)
    /\ settling = "learned" => Items(given.used)

LEMMA OrderedNext == Held /\ Ordered /\ [Next]_vars => Ordered'
<1> SUFFICES ASSUME Held, Ordered, [Next]_vars PROVE Ordered'
  OBVIOUS
<1>1. ASSUME NEW p \in Pod, Decides(p) PROVE Ordered'
  <2>1. now \in Nat /\ episode \in Seq(Decision) /\ \A k \in DOMAIN episode : episode[k].time <= now
    BY DEF Held, Inv, Shape, Clocked
  <2>2. PICK phi \in Phi \cup {NoPhi} : episode' = Append(episode, [time |-> now, phi |-> phi])
    BY <1>1 DEF Decides
  <2> DEFINE n == Len(episode)
  <2>3. [time |-> now, phi |-> phi] \in Decision
    BY <2>1 DEF Decision
  <2>4. /\ n \in Nat /\ DOMAIN episode = 1 .. n /\ Len(episode') = n + 1 /\ episode' \in Seq(Decision)
        /\ \A k \in 1 .. n : episode'[k] = episode[k]
        /\ episode'[n + 1].time = now
    BY <2>1, <2>2, <2>3, AppendProperties
  <2>5. DOMAIN episode' = 1 .. n + 1
    BY <2>4
  <2> HIDE DEF n
  <2> SUFFICES ASSUME NEW j \in 1 .. n + 1, NEW k \in 1 .. n + 1, j <= k
               PROVE  episode'[j].time <= episode'[k].time
    BY <2>5 DEF Ordered
  <2>6. CASE k \in 1 .. n
    <3>1. j \in 1 .. n
      BY <2>4, <2>6
    <3> QED BY <2>4, <2>6, <3>1 DEF Ordered
  <2>7. CASE k = n + 1 /\ j \in 1 .. n
    BY <2>1, <2>4, <2>7
  <2>8. CASE k = n + 1 /\ j = n + 1
    BY <2>1, <2>4, <2>8
  <2> QED BY <2>4, <2>6, <2>7, <2>8
<1>2. CASE ~\E p \in Pod : Decides(p)
  <2>1. episode' = episode
    BY <1>2 DEF Next, Tick, Arrives, Finishes, ReadsLog, Poll, ReadsPoll, PollFails, Settles, Refreshes, Closes, Learns,
       vars
  <2> QED BY <2>1 DEF Ordered
<1> QED BY <1>1, <1>2

LEMMA SamplesAreItems == ASSUME NEW s \in Seq(Taken), NEW A \in SUBSET DOMAIN s PROVE Items(Restrict(s, A))
<1>1. IsFiniteSet(DOMAIN s) /\ \A i \in DOMAIN s : s[i] \in Taken
  BY FS_Interval
<1>2. IsFiniteSet(A)
  BY <1>1, FS_Subset
<1>3. DOMAIN Restrict(s, A) = A /\ \A i \in A : Restrict(s, A)[i] = s[i]
  BY DEF Restrict
<1>4. \A i \in A : s[i].time \in Int /\ s[i].dt \in Int /\ s[i].count \in Int
  BY <1>1 DEF Taken
<1> QED BY <1>2, <1>3, <1>4 DEF Items

LEMMA UsageIsItems == ASSUME NEW s \in Seq(Usage) PROVE Items(s)
<1>1. IsFiniteSet(DOMAIN s) /\ \A i \in DOMAIN s : s[i] \in Usage
  BY FS_Interval
<1>2. \A i \in DOMAIN s : s[i].time \in Int /\ s[i].dt \in Int /\ s[i].count \in Int
  BY <1>1, EpisodeAssumption DEF Usage
<1> QED BY <1>1, <1>2 DEF Items

LEMMA EndingNext == Held /\ Ending /\ [Next]_vars => Ending'
<1> SUFFICES ASSUME Held, Ending, [Next]_vars PROVE Ending'
  OBVIOUS
<1>1. CASE Closes
  <2> DEFINE A == {i \in DOMAIN samples : samples[i].time > episode[1].time}
  <2>1. /\ settling' = "closed" /\ episode' = episode
        /\ given' = [samples |-> Restrict(samples, A), reading |-> reading, used |-> <<>>, end |-> now]
    BY <1>1 DEF Closes
  <2>2. given'.end = now /\ given'.samples = Restrict(samples, A)
    BY <2>1
  <2>3. Items(given'.samples)
    <3>1. samples \in Seq(Taken) /\ A \in SUBSET DOMAIN samples
      BY DEF Held, Clocked
    <3> HIDE DEF A
    <3> QED BY <2>2, <3>1, SamplesAreItems
  <2>4. now \in 0 .. MaxTime /\ \A k \in DOMAIN episode : episode[k].time <= now
    BY EpisodeAssumption DEF Held, Inv, Shape, Clocked
  <2> HIDE DEF A
  <2> QED BY <2>1, <2>2, <2>3, <2>4 DEF Ending
<1>2. CASE Learns
  <2>1. settling = "closed" /\ given' = [given EXCEPT !.used = used] /\ episode' = episode
    BY <1>2 DEF Learns
  <2>2. given'.end = given.end /\ given'.samples = given.samples /\ given'.used = used
    BY <2>1 DEF Held, Inv, Shape
  <2>3. Items(used)
    BY UsageIsItems DEF Held, Inv, Shape
  <2> QED BY <2>1, <2>2, <2>3 DEF Ending
<1>3. CASE ~(Closes \/ Learns)
  <2>1. given' = given /\ (settling' \in {"closed", "learned"} => settling' = settling /\ episode' = episode)
    <3>1. CASE Settles \/ Refreshes
      BY <3>1 DEF Settles, Refreshes
    <3>2. CASE \E p \in Pod : Decides(p)
      BY <3>2 DEF Decides, call
    <3>3. CASE ~(Settles \/ Refreshes \/ \E p \in Pod : Decides(p))
      BY <1>3, <3>3 DEF Next, Tick, Arrives, Finishes, ReadsLog, Poll, ReadsPoll, PollFails, vars, call
    <3> QED BY <3>1, <3>2, <3>3
  <2> QED BY <2>1 DEF Ending
<1> QED BY <1>1, <1>2, <1>3

-----------------------------------------------------------------------------
(* The return of the transitions telescopes.                               *)

\* When the k-th transition starts, and when the last one stops.
At(k) == IF k \in DOMAIN episode THEN episode[k].time ELSE given.end

Settled == Held /\ Ordered /\ Ending /\ Learned

LEMMA TimesOf ==
    ASSUME Settled
    PROVE  LET n == Len(episode)
           IN  /\ n \in Nat /\ n >= 1 /\ DOMAIN episode = 1 .. n
               /\ \A k \in 1 .. n + 1 : At(k) \in 0 .. MaxTime /\ Began <= At(k)
               /\ \A k \in 1 .. n : At(k) = episode[k].time /\ At(k) <= At(k + 1)
               /\ \A k \in 1 .. n : At(k + 1) = IF k = n THEN given.end ELSE episode[k + 1].time
               /\ At(1) = Began /\ At(n + 1) = given.end
<1> DEFINE n == Len(episode)
<1>1. episode \in Seq(Decision) /\ episode # <<>>
  BY DEF Settled, Learned, Held, Clocked
<1>2. n \in Nat /\ n >= 1 /\ DOMAIN episode = 1 .. n
  BY <1>1
<1>3. \A k \in 1 .. n : episode[k].time \in Nat
  <2>1. \A k \in 1 .. n : episode[k] \in Decision
    BY <1>1, <1>2
  <2> QED BY <2>1 DEF Decision
<1>4. given.end \in 0 .. MaxTime /\ \A k \in 1 .. n : episode[k].time <= given.end
  BY <1>2 DEF Settled, Learned, Ending
<1>5. \A j, k \in 1 .. n : j <= k => episode[j].time <= episode[k].time
  BY <1>2 DEF Settled, Ordered
<1>6. MaxTime \in Nat
  BY EpisodeAssumption
<1> HIDE DEF n
<1>7. /\ \A k \in 1 .. n : At(k) = episode[k].time
      /\ At(n + 1) = given.end
  BY <1>2 DEF At
<1>8. \A k \in 1 .. n : At(k + 1) = IF k = n THEN given.end ELSE episode[k + 1].time
  BY <1>2, <1>7
<1>9. \A k \in 1 .. n : At(k) <= At(k + 1)
  <2> SUFFICES ASSUME NEW k \in 1 .. n PROVE At(k) <= At(k + 1)
    OBVIOUS
  <2>1. CASE k = n
    BY <1>2, <1>4, <1>7, <2>1
  <2>2. CASE k # n
    <3>1. k + 1 \in 1 .. n /\ k <= k + 1
      BY <1>2, <2>2
    <3> QED BY <1>5, <1>7, <3>1
  <2> QED BY <2>1, <2>2
<1>10. 1 \in 1 .. n /\ Began = episode[1].time
  BY <1>2 DEF Began
<1>11. \A k \in 1 .. n + 1 : At(k) \in 0 .. MaxTime /\ Began <= At(k)
  <2> SUFFICES ASSUME NEW k \in 1 .. n + 1 PROVE At(k) \in 0 .. MaxTime /\ Began <= At(k)
    OBVIOUS
  <2>1. CASE k \in 1 .. n
    <3>1. 1 <= k
      BY <2>1
    <3>2. At(k) \in Nat /\ At(k) <= given.end /\ Began <= At(k)
      BY <1>3, <1>4, <1>5, <1>7, <1>10, <2>1, <3>1
    <3> QED BY <1>4, <1>6, <3>2
  <2>2. CASE k = n + 1
    BY <1>4, <1>7, <1>10, <2>2
  <2> QED BY <1>2, <2>1, <2>2
<1> QED BY <1>2, <1>7, <1>8, <1>9, <1>10, <1>11 DEF n

\* Whatever is counted, its return over the transitions is what is counted of the whole episode.
LEMMA ReturnOfItems ==
    ASSUME Settled, NEW s, Items(s)
    PROVE  Return([k \in DOMAIN episode |-> Discounted(s, At(k), At(k + 1))])
               = Discount[0] * Discounted(s, Began, given.end)
<1> DEFINE n == Len(episode)
           f == [k \in DOMAIN episode |-> Discount[episode[k].time - Began] * Discounted(s, At(k), At(k + 1))]
           upto == [k \in 1 .. n + 1 |-> Discount[0] * Discounted(s, Began, At(k))]
<1>1. /\ n \in Nat /\ n >= 1 /\ DOMAIN episode = 1 .. n
      /\ \A k \in 1 .. n + 1 : At(k) \in 0 .. MaxTime /\ Began <= At(k)
      /\ \A k \in 1 .. n : At(k) = episode[k].time /\ At(k) <= At(k + 1)
      /\ At(1) = Began /\ At(n + 1) = given.end
  BY TimesOf
<1> HIDE DEF n
<1>2. 1 \in 1 .. n + 1 /\ n + 1 \in 1 .. n + 1 /\ Began \in 0 .. MaxTime /\ Discount[0] \in Int
  <2>1. 1 \in 1 .. n + 1 /\ n + 1 \in 1 .. n + 1
    BY <1>1
  <2>2. Began \in 0 .. MaxTime /\ Began <= Began
    BY <1>1, <2>1
  <2> QED BY <2>1, <2>2, DiscountType
<1>3. \A x, y \in Int : x * y \in Int
  OBVIOUS
<1>4. ASSUME NEW k \in 1 .. n + 1 PROVE upto[k] \in Int
  <2>1. At(k) \in 0 .. MaxTime /\ Began <= At(k) /\ At(k) <= At(k)
    BY <1>1
  <2>2. Discounted(s, Began, At(k)) \in Int
    BY <1>2, <2>1, DiscountedSplits
  <2> QED BY <1>2, <1>3, <2>2
<1>5. ASSUME NEW k \in 1 .. n PROVE f[k] \in Int /\ upto[k + 1] = upto[k] + f[k]
  <2>1. k \in 1 .. n + 1 /\ k + 1 \in 1 .. n + 1
    BY <1>1
  <2>2. At(k) \in 0 .. MaxTime /\ At(k + 1) \in 0 .. MaxTime /\ Began <= At(k) /\ At(k) <= At(k + 1)
    BY <1>1, <2>1
  <2>3. /\ Discount[0] * Discounted(s, Began, At(k)) + Discount[At(k) - Began] * Discounted(s, At(k), At(k + 1))
               = Discount[0] * Discounted(s, Began, At(k + 1))
        /\ Discounted(s, At(k), At(k + 1)) \in Int
    BY <1>2, <2>2, DiscountedSplits
  <2>4. f[k] = Discount[At(k) - Began] * Discounted(s, At(k), At(k + 1))
    BY <1>1
  <2>5. Discount[At(k) - Began] \in Int
    BY <1>2, <2>2, DiscountType
  <2>6. f[k] \in Int
    BY <1>3, <2>3, <2>4, <2>5
  <2>7. upto[k] = Discount[0] * Discounted(s, Began, At(k)) /\ upto[k + 1] = Discount[0] * Discounted(s, Began, At(k + 1))
    BY <2>1
  <2> QED BY <2>3, <2>4, <2>6, <2>7
<1>6. Return([k \in DOMAIN episode |-> Discounted(s, At(k), At(k + 1))]) = Total(f, 1 .. n)
  <2>1. DOMAIN f = 1 .. n
    BY <1>1
  <2>2. Return([k \in DOMAIN episode |-> Discounted(s, At(k), At(k + 1))]) = SumFunction(f)
    BY DEF Return
  <2> QED BY <2>1, <2>2 DEF SumFunction, Total
<1>7. upto[1] = 0
  <2>1. Discounted(s, Began, Began) = 0
    BY <1>2, DiscountedSplits
  <2>2. upto[1] = Discount[0] * Discounted(s, Began, At(1))
    BY <1>2
  <2>3. Discount[0] * 0 = 0
    BY <1>2
  <2> HIDE DEF upto
  <2>4. upto[1] = Discount[0] * Discounted(s, Began, Began)
    BY <1>1, <2>2
  <2> QED BY <2>1, <2>3, <2>4
<1>8. upto[n + 1] = Discount[0] * Discounted(s, Began, given.end)
  BY <1>1, <1>2
<1>9. upto[n + 1] \in Int
  BY <1>2, <1>4
<1> HIDE DEF f, upto
<1>10. Total(f, 1 .. n) = upto[n + 1] - upto[1]
  <2>1. n \in Nat
    BY <1>1
  <2> QED BY <1>4, <1>5, <2>1, Telescopes
<1>11. Total(f, 1 .. n) = upto[n + 1]
  BY <1>7, <1>9, <1>10
<1> QED BY <1>6, <1>8, <1>11

\* What the k-th bonus adds is what the state after it is worth, less what its own is.
LEMMA ReturnOfBonus ==
    ASSUME Settled, \A k \in DOMAIN episode : episode[k].phi # NoPhi
    PROVE  Return([k \in DOMAIN episode |-> Transitions[k].bonus]) = -(Discount[0] * Discount[0] * episode[1].phi)
<1> DEFINE n == Len(episode)
           x == Discount[0]
           d(k) == Discount[At(k) - Began]
           f == [k \in DOMAIN episode |-> Discount[episode[k].time - Began] * Transitions[k].bonus]
           upto == [k \in 1 .. n + 1 |-> IF k = n + 1 THEN 0 ELSE (x * d(k)) * episode[k].phi]
<1>1. /\ n \in Nat /\ n >= 1 /\ DOMAIN episode = 1 .. n
      /\ \A k \in 1 .. n + 1 : At(k) \in 0 .. MaxTime /\ Began <= At(k)
      /\ \A k \in 1 .. n : At(k) = episode[k].time /\ At(k) <= At(k + 1)
      /\ At(1) = Began /\ At(n + 1) = given.end
  BY TimesOf
<1>2. \A k \in 1 .. n : episode[k].phi \in Int
  <2>1. \A k \in 1 .. n : episode[k] \in Decision
    BY <1>1 DEF Settled, Held, Clocked
  <2>2. \A k \in 1 .. n : episode[k].phi \in Phi
    BY <1>1, <2>1 DEF Decision
  <2> QED BY <2>2, EpisodeAssumption
<1>3. 0 # NoPhi
  BY EpisodeAssumption
<1>4. ASSUME NEW k \in 1 .. n
      PROVE  Transitions[k].bonus = IF k = n THEN 0 * 0 - x * episode[k].phi
                                             ELSE Discount[At(k + 1) - At(k)] * episode[k + 1].phi - x * episode[k].phi
  <2>1. CASE k = n
    <3>1. Transitions[k].bonus = Bonus(episode[k].phi, 0, 0)
      BY <1>1, <2>1 DEF Transitions
    <3> QED BY <1>1, <1>3, <2>1, <3>1 DEF Bonus
  <2>2. CASE k # n
    <3>1. k + 1 \in 1 .. n
      <4> HIDE DEF n
      <4> QED BY <1>1, <2>2
    <3>2. Transitions[k].bonus
              = Bonus(episode[k].phi, episode[k + 1].phi, Discount[episode[k + 1].time - episode[k].time])
      BY <1>1, <2>2 DEF Transitions
    <3>3. episode[k].phi # NoPhi /\ episode[k + 1].phi # NoPhi
      BY <1>1, <3>1
    <3>4. At(k) = episode[k].time /\ At(k + 1) = episode[k + 1].time
      BY <1>1, <3>1
    <3> QED BY <2>2, <3>2, <3>3, <3>4 DEF Bonus
  <2> QED BY <2>1, <2>2
<1> HIDE DEF n
<1>5. 1 \in 1 .. n + 1 /\ n + 1 \in 1 .. n + 1 /\ 1 \in 1 .. n /\ Began \in 0 .. MaxTime
  BY <1>1
<1>6. x \in Int /\ \A k \in 1 .. n + 1 : d(k) \in Int
  <2>1. \A k \in 1 .. n + 1 : d(k) \in Int
    BY <1>1, <1>5, DiscountType
  <2>2. At(1) \in 0 .. MaxTime /\ Began <= At(1)
    BY <1>1, <1>5
  <2>3. x \in Int
    BY <1>5, <2>2, DiscountType
  <2> QED BY <2>1, <2>3
<1>7. \A a, b \in Int : a * b \in Int
  OBVIOUS
<1>8. \A k \in 1 .. n + 1 : upto[k] \in Int
  <2> SUFFICES ASSUME NEW k \in 1 .. n + 1 PROVE upto[k] \in Int
    OBVIOUS
  <2> HIDE DEF d, x
  <2>1. CASE k = n + 1
    BY <2>1
  <2>2. CASE k # n + 1
    <3>1. k \in 1 .. n
      BY <1>1, <2>2
    <3>2. x * d(k) \in Int /\ episode[k].phi \in Int
      BY <1>2, <1>6, <1>7, <3>1
    <3> QED BY <1>7, <2>2, <3>2
  <2> QED BY <2>1, <2>2
<1>9. ASSUME NEW k \in 1 .. n PROVE f[k] \in Int /\ upto[k + 1] = upto[k] + f[k]
  <2>1. f[k] = d(k) * Transitions[k].bonus /\ k \in 1 .. n + 1 /\ k + 1 \in 1 .. n + 1 /\ k # n + 1
    BY <1>1
  <2>2. upto[k] = (x * d(k)) * episode[k].phi
    BY <2>1
  <2>3. d(k) \in Int /\ d(k + 1) \in Int /\ episode[k].phi \in Int /\ x \in Int
    BY <1>2, <1>6, <2>1
  <2>4. \A a, b, c \in Int : a * (b * c) = (b * a) * c
    OBVIOUS
  <2>5. CASE k = n
    <3>1. Transitions[k].bonus = 0 * 0 - x * episode[k].phi
      BY <1>4, <2>5
    <3>2. upto[k + 1] = 0
      BY <2>1, <2>5
    <3> HIDE DEF d, x, f, upto
    <3>3. x * episode[k].phi \in Int /\ Transitions[k].bonus = -(x * episode[k].phi)
      BY <1>7, <2>3, <3>1
    <3>4. \A a, b \in Int : a * (-b) = -(a * b)
      OBVIOUS
    <3>5. f[k] = -(d(k) * (x * episode[k].phi))
      BY <2>1, <2>3, <3>3, <3>4
    <3>6. d(k) * (x * episode[k].phi) = upto[k] /\ d(k) * (x * episode[k].phi) \in Int
      BY <1>7, <2>2, <2>3, <2>4, <3>3
    <3> QED BY <3>2, <3>5, <3>6
  <2>6. CASE k # n
    <3> DEFINE y == Discount[At(k + 1) - At(k)]
               q == episode[k + 1].phi
               p == episode[k].phi
    <3>1. k + 1 \in 1 .. n /\ k + 1 # n + 1
      BY <1>1, <2>6
    <3>2. upto[k + 1] = (x * d(k + 1)) * q
      BY <2>1, <3>1
    <3>3. At(k) \in 0 .. MaxTime /\ At(k + 1) \in 0 .. MaxTime /\ Began <= At(k) /\ At(k) <= At(k + 1)
      BY <1>1, <2>1
    <3>4. d(k) * y = x * d(k + 1)
      BY <1>5, <3>3, DiscountLaw
    <3>5. y \in Int
      BY <3>3, DiscountType
    <3>6. Transitions[k].bonus = y * q - x * p
      BY <1>4, <2>6
    <3>7. q \in Int /\ p \in Int
      BY <1>2, <3>1
    <3> HIDE DEF d, x, f, upto, y, q, p
    <3>8. upto[k] = (x * d(k)) * p
      BY <2>2 DEF p
    <3>9. \A a, b, c \in Int : a * (b - c) = a * b - a * c
      OBVIOUS
    <3>10. \A a, b, c \in Int : a * (b * c) = (a * b) * c
      OBVIOUS
    <3>11. y * q \in Int /\ x * p \in Int
      BY <1>7, <2>3, <3>5, <3>7
    <3>12. f[k] = d(k) * (y * q) - d(k) * (x * p)
      BY <2>1, <2>3, <3>6, <3>9, <3>11
    <3>13. d(k) * (y * q) = (d(k) * y) * q /\ d(k) * (x * p) = (x * d(k)) * p
      BY <2>3, <2>4, <3>5, <3>7, <3>10
    <3>14. d(k) * (y * q) \in Int /\ d(k) * (x * p) \in Int
      BY <1>7, <2>3, <3>11
    <3> QED BY <3>2, <3>4, <3>8, <3>12, <3>13, <3>14
  <2> QED BY <2>5, <2>6
<1>10. Return([k \in DOMAIN episode |-> Transitions[k].bonus]) = Total(f, 1 .. n)
  <2>1. DOMAIN f = 1 .. n
    BY <1>1
  <2>2. Return([k \in DOMAIN episode |-> Transitions[k].bonus]) = SumFunction(f)
    BY DEF Return
  <2> QED BY <2>1, <2>2 DEF SumFunction, Total
<1>11. upto[n + 1] = 0 /\ upto[1] = (x * x) * episode[1].phi
  <2>1. upto[n + 1] = 0
    BY <1>5
  <2>2. 1 # n + 1 /\ Began - Began = 0
    BY <1>1, <1>5
  <2>3. d(1) = x
    BY <1>1, <2>2
  <2>4. upto[1] = (x * d(1)) * episode[1].phi
    BY <1>5, <2>2
  <2> QED BY <2>1, <2>3, <2>4
<1>12. upto[1] \in Int
  BY <1>5, <1>8
<1> HIDE DEF f, upto
<1>13. Total(f, 1 .. n) = upto[n + 1] - upto[1]
  <2>1. n \in Nat
    BY <1>1
  <2> QED BY <1>8, <1>9, <2>1, Telescopes
<1>14. Total(f, 1 .. n) = -upto[1]
  BY <1>11, <1>12, <1>13
<1>15. -upto[1] = -(x * x * episode[1].phi)
  BY <1>11
<1> QED BY <1>10, <1>14, <1>15

\* What the policy maximizes, the return of its rewards, is the run's own cost whatever the decisions' times
\* (transitions, kaptain.py:692-711), for every discount that follows the exponential's law.
THEOREM TheReturnIsTheCost == Spec => []ReturnIsCost
<1>1. Init => Held /\ Ordered /\ Ending
  <2>1. Init => Ordered /\ Ending
    BY DEF Init, Ordered, Ending
  <2> QED BY <2>1, InitInv, ClockedInit DEF Held
<1>2. Held /\ Ordered /\ Ending /\ [Next]_vars => (Held /\ Ordered /\ Ending)'
  BY HeldNext, OrderedNext, EndingNext
<1>3. Held /\ Ordered /\ Ending => ReturnIsCost
  <2> SUFFICES ASSUME Held, Ordered, Ending, Learned PROVE ReturnIsCost
    BY DEF ReturnIsCost
  <2> DEFINE sum(s) == [k \in DOMAIN episode |-> Discounted(s, At(k), At(k + 1))]
  <2>1. Settled
    BY DEF Settled
  <2>2. Items(given.samples) /\ Items(given.used)
    BY DEF Ending, Learned
  <2>3. /\ \A k \in DOMAIN episode : At(k) = episode[k].time
        /\ \A k \in DOMAIN episode : At(k + 1) = IF k = Len(episode) THEN given.end ELSE episode[k + 1].time
    BY <2>1, TimesOf
  <2>4. /\ [k \in DOMAIN episode |-> Transitions[k].delay] = sum(given.samples)
        /\ [k \in DOMAIN episode |-> Transitions[k].cpu] = sum(given.used)
    BY <2>3 DEF Transitions
  <2>5. /\ Return(sum(given.samples)) = Discount[0] * Discounted(given.samples, Began, given.end)
        /\ Return(sum(given.used)) = Discount[0] * Discounted(given.used, Began, given.end)
    BY <2>1, <2>2, ReturnOfItems
  <2>6. (\A k \in DOMAIN episode : episode[k].phi # NoPhi) =>
            Return([k \in DOMAIN episode |-> Transitions[k].bonus]) = -(Discount[0] * Discount[0] * episode[1].phi)
    BY <2>1, ReturnOfBonus
  <2> HIDE DEF sum
  <2> QED BY <2>4, <2>5, <2>6 DEF ReturnIsCost
<1> QED BY <1>1, <1>2, <1>3, PTL DEF Spec
=============================================================================
