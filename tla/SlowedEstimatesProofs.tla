-------------------------- MODULE SlowedEstimatesProofs --------------------------
(***************************************************************************)
(* What is proved of SlowedEstimates, for every number of nodes and pods   *)
(* and every slowdown learned.                                             *)
(*                                                                         *)
(* The Load: what it takes a node to run outside the experiment covers     *)
(* what it does run, since a snapshot counts no less than that and         *)
(* Load.see keeps a value some snapshot showed.                            *)
(*                                                                         *)
(* The estimates: a node's are what its last slowdown makes of the         *)
(* runtimes kept there. A recomputation is a fold over those runtimes, so  *)
(* the fold is proved to take one step per runtime (FoldExists), by an     *)
(* induction over the natural numbers that a set of them stands for        *)
(* (MemberInduction).                                                      *)
(***************************************************************************)
EXTENDS SlowedEstimates, FiniteSetTheorems, SequenceTheorems, WellFoundedInduction, TLAPS

\* What the snapshot of a decision under way shows of each candidate.
SnapshotCovers ==
    snapshot # NoSnapshot =>
        \A n \in Node \cap DOMAIN snapshot.requested :
            snapshot.requested[n] \in Nat /\ snapshot.requested[n] >= Base[n]

SystemIsCount == \A n \in Node : system[n] \in Nat

\* system keeps its domain, which the code never needs to know.
SystemIsFunction == DOMAIN system = Node

Inv == SnapshotCovers /\ SystemIsCount /\ SystemIsFunction /\ SystemCoversOthers

\* kube-scheduler's count of what runs on a node is a number.
LEMMA OnIsFinite == \A n \in Node : Cardinality(On(n)) \in Nat
<1>1. ASSUME NEW n \in Node PROVE IsFiniteSet(On(n))
  BY SlowedAssumption, FS_Subset DEF On
<1> QED BY <1>1, FS_CardinalityType

LEMMA InitCovers == Init => Inv
  BY DEF Init, Inv, SnapshotCovers, SystemIsCount, SystemIsFunction, SystemCoversOthers

\* A new snapshot counts the outsiders first.
LEMMA SnapshotStep == ASSUME Inv, NEW p \in Pod, Snapshot(p) PROVE Inv'
<1>1. PICK C \in SUBSET Node :
        snapshot' = [pod |-> p, requested |-> [n \in C |-> Base[n] + Cardinality(On(n))]]
  BY DEF Snapshot
<1>2. \A n \in Node : Base[n] \in Nat
  BY SlowedAssumption
<1>3. SnapshotCovers'
  BY <1>1, <1>2, OnIsFinite DEF SnapshotCovers
<1>4. UNCHANGED system
  BY DEF Snapshot, load
<1> QED BY <1>3, <1>4 DEF Inv, SystemIsCount, SystemIsFunction, SystemCoversOthers

\* see keeps the value it had, or takes what the snapshot shows.
LEMMA DecideStep == ASSUME Inv, Decide PROVE Inv'
<1>1. snapshot # NoSnapshot /\ snapshot' = NoSnapshot /\ system' = [n \in Node |-> Seen(n)]
  BY DEF Decide
<1>2. ASSUME NEW n \in Node
      PROVE  Seen(n) \in Nat /\ (Seen(n) # 0 => Seen(n) >= Base[n])
  <2>1. system[n] \in Nat /\ (system[n] # 0 => system[n] >= Base[n])
    BY DEF Inv, SystemIsCount, SystemCoversOthers
  <2>2. CASE Seen(n) = system[n]
    BY <2>1, <2>2
  <2>3. CASE Seen(n) # system[n]
    <3>1. n \in DOMAIN snapshot.requested /\ Seen(n) = snapshot.requested[n]
      BY <2>3 DEF Seen
    <3> QED BY <1>1, <3>1 DEF Inv, SnapshotCovers
  <2> QED BY <2>2, <2>3
<1>3. SystemIsCount' /\ SystemIsFunction' /\ SystemCoversOthers'
  BY <1>1, <1>2 DEF SystemIsCount, SystemIsFunction, SystemCoversOthers
<1>4. SnapshotCovers'
  BY <1>1 DEF SnapshotCovers
<1> QED BY <1>3, <1>4 DEF Inv

LEMMA CoversStep == Inv /\ [Next]_vars => Inv'
<1> SUFFICES ASSUME Inv, [Next]_vars PROVE Inv'
  OBVIOUS
<1>1. CASE UNCHANGED <<snapshot, system>>
  BY <1>1 DEF Inv, SnapshotCovers, SystemIsCount, SystemIsFunction, SystemCoversOthers
<1>2. CASE Decide
  BY <1>2, DecideStep
<1>3. CASE \E p \in Pod : Snapshot(p)
  BY <1>3, SnapshotStep
<1>4. ASSUME NEW p \in Pod, PlaceUnseen(p) \/ Finish(p) \/ Learn(p) \/ Raises(p)
      PROVE  UNCHANGED <<snapshot, system>>
  BY <1>4 DEF PlaceUnseen, Finish, Learn, Raises, load
<1>5. Poll \/ BeginRead \/ EndRead => UNCHANGED <<snapshot, system>>
  BY DEF Poll, BeginRead, EndRead, load
<1>6. UNCHANGED vars => UNCHANGED <<snapshot, system>>
  BY DEF vars, load
<1> QED BY <1>1, <1>2, <1>3, <1>4, <1>5, <1>6 DEF Next

\* kaptain.py:174-182: what is taken to run on a node outside the experiment is never less than
\* what runs there, whatever the lists and the snapshots miss.
THEOREM SystemCovers == Spec => []SystemCoversOthers
<1>1. Inv => SystemCoversOthers
  BY DEF Inv
<1> QED BY InitCovers, CoversStep, <1>1, PTL DEF Spec


-----------------------------------------------------------------------------
(* Induction, of a set: the naturals are well founded.                     *)

LEMMA MemberInduction ==
    ASSUME NEW S, 0 \in S, \A n \in Nat : n \in S => n + 1 \in S
    PROVE  Nat \subseteq S
<1> DEFINE R == {ss \in Nat \X Nat : ss[1] < ss[2]}
           T == Nat \ S
<1>1. SUFFICES ASSUME T # {} PROVE FALSE
  BY DEF T
<1>2. IsWellFoundedOn(R, Nat)
  BY NatLessThanWellFounded, Zenon DEF OpToRel
<1>3. \A x, y \in Nat : x < y => <<x, y>> \in R
  BY DEF R
<1>4. T \subseteq Nat
  BY DEF T
<1> HIDE DEF R
<1>5. PICK x \in T : \A y \in T : ~ (<<y, x>> \in R)
  <2> HIDE DEF T
  <2> QED BY <1>1, <1>2, <1>4, WFMin
<1>6. x # 0 /\ x - 1 \in Nat /\ x - 1 < x /\ x \in Nat
  BY <1>5
<1>7. x - 1 \notin T
  BY <1>3, <1>5, <1>6
<1> QED BY <1>5, <1>6, <1>7

\* A node where a task ran most, the first of them.
LEMMA MostExists ==
    ASSUME NEW R \in [Node -> Nat], NEW ran \in SUBSET Node, ran # {}
    PROVE  \E n \in ran : \A m \in ran : R[m] < R[n] \/ (R[m] = R[n] /\ m <= n)
<1> DEFINE Most(T) == \E n \in T : \A m \in T : R[m] < R[n] \/ (R[m] = R[n] /\ m <= n)
           S == {c \in Nat : \A T \in SUBSET Node : Cardinality(T) = c /\ T # {} => Most(T)}
<1>1. Node \subseteq Int /\ \A T \in SUBSET Node : IsFiniteSet(T) /\ Cardinality(T) \in Nat
  BY SlowedAssumption, FS_Subset, FS_CardinalityType
<1>2. 0 \in S
  BY <1>1, FS_EmptySet
<1>3. ASSUME NEW c \in Nat, c \in S PROVE c + 1 \in S
  <2> SUFFICES ASSUME NEW T \in SUBSET Node, Cardinality(T) = c + 1 PROVE Most(T)
    OBVIOUS
  <2>0. IsFiniteSet(T) /\ Cardinality(T) \in Nat /\ Cardinality(T) # 0
    BY <1>1
  <2>1. PICK x \in T : TRUE
    BY <2>0, FS_EmptySet
  <2>2. Cardinality(T \ {x}) = c
    <3>1. Cardinality(T \ {x}) = Cardinality(T) - 1
      BY <2>0, <2>1, FS_RemoveElement
    <3> QED BY <3>1
  <2>3. CASE T \ {x} = {}
    <3>1. T = {x}
      BY <2>1, <2>3
    <3> QED BY <1>1, <3>1
  <2>4. CASE T \ {x} # {}
    <3>1. Most(T \ {x})
      BY <1>3, <2>2, <2>4
    <3>2. PICK y \in T \ {x} : \A m \in T \ {x} : R[m] < R[y] \/ (R[m] = R[y] /\ m <= y)
      BY <3>1
    <3>3. x \in Int /\ y \in Int /\ R[x] \in Nat /\ R[y] \in Nat
      BY <1>1, <2>1, <3>2
    <3>4. \A m \in T : m \in Int /\ R[m] \in Nat
      BY <1>1
    <3>5. CASE R[x] < R[y] \/ (R[x] = R[y] /\ x <= y)
      BY <3>2, <3>5
    <3>6. CASE R[y] < R[x] \/ (R[x] = R[y] /\ y <= x)
      BY <2>1, <3>2, <3>3, <3>4, <3>6
    <3> QED BY <3>3, <3>5, <3>6
  <2> QED BY <2>3, <2>4
<1>4. Nat \subseteq S
  <2> HIDE DEF S
  <2> QED BY <1>2, <1>3, MemberInduction
<1> QED BY <1>1, <1>4

-----------------------------------------------------------------------------
(* The types of what learning makes.                                       *)

Divisors == Slowdown \cup {Unslowed}
Knowledge == [Task -> [Node -> [own : Seq(Entry), taken : SUBSET Entry]]]

LEMMA MovedType ==
    ASSUME NEW k \in Knowledge, NEW t \in Task
    PROVE  Moved(k, t) \in SUBSET Entry
<1> DEFINE R == [n \in Node |-> Runs(k, t, n)]
           ran == {n \in Node : Runs(k, t, n) > 0}
           Top(n) == \A m \in ran : Runs(k, t, m) < Runs(k, t, n) \/ (Runs(k, t, m) = Runs(k, t, n) /\ m <= n)
<1>1. ASSUME NEW n \in Node PROVE k[t][n].own \in Seq(Entry) /\ k[t][n].taken \in SUBSET Entry
  BY DEF Knowledge
<1>2. R \in [Node -> Nat]
  BY <1>1 DEF Runs
<1>3. ran # {} => \E n \in ran : Top(n)
  BY <1>2, MostExists
<1>4. ran # {} => (CHOOSE n \in ran : Top(n)) \in Node
  BY <1>3
<1>5. ASSUME NEW n \in Node PROVE Range(k[t][n].own) \cup k[t][n].taken \in SUBSET Entry
  BY <1>1 DEF Range
<1> QED BY <1>4, <1>5 DEF Moved

LEMMA UpdateType ==
    ASSUME NEW k \in Knowledge, NEW n \in Node, NEW p \in Pod, NEW by \in Divisors
    PROVE  Update(k, n, p, by) \in Knowledge
<1> DEFINE t == TaskOf[p]
           old == IF Runs(k, t, n) > 0 THEN k[t][n] ELSE [own |-> <<>>, taken |-> Moved(k, t)]
           entry == [pod |-> p, by |-> by]
<1>1. t \in Task
  BY SlowedAssumption
<1>2. old \in [own : Seq(Entry), taken : SUBSET Entry]
  BY <1>1, MovedType DEF Knowledge
<1>3. entry \in Entry
  BY DEF Entry, Divisors
<1>4. Update(k, n, p, by) = [k EXCEPT ![t][n] = [old EXCEPT !.own = Append(@, entry)]]
  BY DEF Update
<1> HIDE DEF old, entry, t
<1>5. [old EXCEPT !.own = Append(@, entry)] \in [own : Seq(Entry), taken : SUBSET Entry]
  <2> DEFINE own == Append(old.own, entry)
  <2>1. own \in Seq(Entry)
    BY <1>2, <1>3
  <2> HIDE DEF own
  <2>2. [old EXCEPT !.own = own] \in [own : Seq(Entry), taken : SUBSET Entry]
    BY <1>2, <2>1
  <2> QED BY <2>2 DEF own
<1>6. ASSUME NEW v \in [own : Seq(Entry), taken : SUBSET Entry]
      PROVE  [k EXCEPT ![t][n] = v] \in Knowledge
  BY <1>1 DEF Knowledge
<1> QED BY <1>4, <1>5, <1>6

LEMMA DivisorType ==
    ASSUME NEW a \in Slowdown, NEW entry
    PROVE  Divisor(a, entry) \in Divisors
  BY DEF Divisor, Divisors


-----------------------------------------------------------------------------
(* Folds: what FoldLeft iterates over the first places of a sequence.      *)

LEMMA MaxIs ==
    ASSUME NEW k \in Nat, NEW s \in SUBSET (1 .. k + 1), k + 1 \in s
    PROVE  Max(s) = k + 1
<1>1. \A y \in s : y \in Int /\ k + 1 >= y
  OBVIOUS
<1> DEFINE Top(x) == \A y \in s : x >= y
<1>2. \A x \in s : Top(x) => x = k + 1
  BY <1>1
<1>3. Top(k + 1)
  BY <1>1
<1>4. Max(s) = CHOOSE x \in s : Top(x)
  BY DEF Max
<1> HIDE DEF Top
<1> QED BY <1>2, <1>3, <1>4

Folds(g, s, base, O) == g[s] = IF s = {} THEN base ELSE O[<<g[s \ {Max(s)}], Max(s)>>]

Folded(k, A, base, O) ==
    \E g \in [SUBSET (1 .. k) -> A] : \A s \in SUBSET (1 .. k) : Folds(g, s, base, O)

\* There is a function that folds O over every set of places.
LEMMA FoldExists ==
    ASSUME NEW n \in Nat, NEW A, NEW base \in A, NEW O \in [A \X (1 .. n) -> A]
    PROVE  Folded(n, A, base, O)
<1> DEFINE S == {k \in Nat : k <= n => Folded(k, A, base, O)}
<1>1. 0 \in S
  <2> DEFINE g == [s \in SUBSET (1 .. 0) |-> base]
  <2>1. \A s \in SUBSET (1 .. 0) : s = {}
    OBVIOUS
  <2>2. g \in [SUBSET (1 .. 0) -> A] /\ \A s \in SUBSET (1 .. 0) : Folds(g, s, base, O)
    BY <2>1 DEF Folds
  <2> QED BY <2>2 DEF Folded
<1>2. ASSUME NEW k \in Nat, k + 1 <= n, Folded(k, A, base, O)
      PROVE  Folded(k + 1, A, base, O)
  <2>1. PICK g \in [SUBSET (1 .. k) -> A] : \A s \in SUBSET (1 .. k) : Folds(g, s, base, O)
    BY <1>2 DEF Folded
  <2> DEFINE h == [s \in SUBSET (1 .. k + 1) |-> IF k + 1 \in s THEN O[<<g[s \ {k + 1}], k + 1>>] ELSE g[s]]
  <2>2. ASSUME NEW s \in SUBSET (1 .. k + 1), k + 1 \in s
        PROVE  h[s] \in A /\ Folds(h, s, base, O)
    <3>1. Max(s) = k + 1
      BY <2>2, MaxIs
    <3>2. s \ {k + 1} \in SUBSET (1 .. k) /\ s \ {k + 1} \in SUBSET (1 .. k + 1)
      OBVIOUS
    <3>3. g[s \ {k + 1}] \in A /\ k + 1 \in 1 .. n
      BY <1>2, <3>2
    <3>4. h[s] = O[<<g[s \ {k + 1}], k + 1>>] /\ h[s \ {k + 1}] = g[s \ {k + 1}]
      BY <2>2, <3>2
    <3>5. O[<<g[s \ {k + 1}], k + 1>>] \in A
      BY <3>3
    <3> HIDE DEF h
    <3> QED BY <2>2, <3>1, <3>4, <3>5 DEF Folds
  <2>3. ASSUME NEW s \in SUBSET (1 .. k + 1), k + 1 \notin s
        PROVE  h[s] \in A /\ Folds(h, s, base, O)
    <3>1. s \in SUBSET (1 .. k)
      <4>1. \A y \in 1 .. k + 1 : y # k + 1 => y \in 1 .. k
        OBVIOUS
      <4> QED BY <2>3, <4>1
    <3>2. s \ {Max(s)} \in SUBSET (1 .. k) /\ s \ {Max(s)} \in SUBSET (1 .. k + 1)
      BY <3>1
    <3>3. h[s] = g[s] /\ h[s \ {Max(s)}] = g[s \ {Max(s)}]
      <4>1. k + 1 \notin s \ {Max(s)}
        BY <2>3
      <4> QED BY <2>3, <3>2, <4>1
    <3>4. g[s] \in A /\ Folds(g, s, base, O)
      BY <2>1, <3>1
    <3> HIDE DEF h
    <3> QED BY <3>3, <3>4 DEF Folds
  <2>4. h \in [SUBSET (1 .. k + 1) -> A]
    BY <2>2, <2>3
  <2> HIDE DEF h
  <2> QED BY <2>2, <2>3, <2>4 DEF Folded
<1>3. \A k \in Nat : k \in S => k + 1 \in S
  BY <1>2
<1>4. Nat \subseteq S
  <2> HIDE DEF S
  <2> QED BY <1>1, <1>3, MemberInduction
<1> QED BY <1>4

LEMMA MaxIn ==
    ASSUME NEW n \in Nat, NEW s \in SUBSET (1 .. n), s # {}
    PROVE  Max(s) \in s
<1> DEFINE S == {k \in Nat : \A r \in SUBSET (1 .. k) : r # {} => Max(r) \in r}
<1>1. 0 \in S
  <2>1. \A r \in SUBSET (1 .. 0) : r = {}
    OBVIOUS
  <2> QED BY <2>1
<1>2. ASSUME NEW k \in Nat, k \in S PROVE k + 1 \in S
  <2> SUFFICES ASSUME NEW r \in SUBSET (1 .. k + 1), r # {} PROVE Max(r) \in r
    OBVIOUS
  <2>1. CASE k + 1 \in r
    BY <2>1, MaxIs
  <2>2. CASE k + 1 \notin r
    <3>1. \A y \in 1 .. k + 1 : y # k + 1 => y \in 1 .. k
      OBVIOUS
    <3>2. r \in SUBSET (1 .. k)
      BY <2>2, <3>1
    <3> QED BY <1>2, <3>2
  <2> QED BY <2>1, <2>2
<1>3. Nat \subseteq S
  <2> HIDE DEF S
  <2> QED BY <1>1, <1>2, MemberInduction
<1> QED BY <1>3

-----------------------------------------------------------------------------
(* The runtimes kept of a task.                                            *)

Keep(t, kept, entry) == IF TaskOf[entry.pod] = t THEN Append(kept, entry) ELSE kept

KeepsFrom(h, t) ==
    CHOOSE g : g = [s \in SUBSET DOMAIN h |->
                       IF s = {} THEN <<>> ELSE Keep(t, g[s \ {Max(s)}], h[Max(s)])]

\* What is kept of t of the first k runtimes.
KeepsTo(h, t, k) == KeepsFrom(h, t)[1 .. k]

LEMMA OfTaskIs == \A n, t : OfTask(n, t) = KeepsFrom(history[n], t)[DOMAIN history[n]]
  BY DEF OfTask, FoldLeft, MapThenFoldSet, KeepsFrom, Keep

LEMMA KeepType ==
    ASSUME NEW kept \in Seq(Measure), NEW e \in Measure, NEW t
    PROVE  Keep(t, kept, e) \in Seq(Measure)
  BY DEF Keep

LEMMA KeepsFolds ==
    ASSUME NEW h \in Seq(Measure), NEW t
    PROVE  KeepsFrom(h, t) = [s \in SUBSET DOMAIN h |->
               IF s = {} THEN <<>> ELSE Keep(t, KeepsFrom(h, t)[s \ {Max(s)}], h[Max(s)])]
<1> DEFINE n == Len(h)
           A == Seq(Measure)
           O == [x \in A \X (1 .. n) |-> Keep(t, x[1], h[x[2]])]
           Is(g) == g = [s \in SUBSET DOMAIN h |->
                            IF s = {} THEN <<>> ELSE Keep(t, g[s \ {Max(s)}], h[Max(s)])]
<1>1. n \in Nat /\ DOMAIN h = 1 .. n /\ <<>> \in A
  OBVIOUS
<1>2. ASSUME NEW kept \in A, NEW i \in 1 .. n
      PROVE  Keep(t, kept, h[i]) \in A /\ O[<<kept, i>>] = Keep(t, kept, h[i])
  <2>1. h[i] \in Measure
    OBVIOUS
  <2> QED BY <2>1 DEF Keep
<1>3. O \in [A \X (1 .. n) -> A]
  BY <1>2
<1> HIDE DEF n, A, O
<1>4. PICK g \in [SUBSET (1 .. n) -> A] : \A s \in SUBSET (1 .. n) : Folds(g, s, <<>>, O)
  BY <1>1, <1>3, FoldExists DEF Folded
<1>5. ASSUME NEW s \in SUBSET (1 .. n)
      PROVE  g[s] = IF s = {} THEN <<>> ELSE Keep(t, g[s \ {Max(s)}], h[Max(s)])
  <2>1. CASE s = {}
    BY <1>4, <2>1 DEF Folds
  <2>2. CASE s # {}
    <3>1. Max(s) \in 1 .. n /\ s \ {Max(s)} \in SUBSET (1 .. n)
      BY <1>1, <2>2, MaxIn
    <3>2. g[s] = O[<<g[s \ {Max(s)}], Max(s)>>]
      BY <1>4, <2>2 DEF Folds
    <3> QED BY <1>2, <2>2, <3>1, <3>2
  <2> QED BY <2>1, <2>2
<1>6. Is(g)
  BY <1>1, <1>5
<1>7. KeepsFrom(h, t) = CHOOSE f : Is(f)
  BY DEF KeepsFrom
<1> HIDE DEF Is
<1>8. Is(KeepsFrom(h, t))
  BY <1>6, <1>7
<1> QED BY <1>8 DEF Is

LEMMA KeepsFirst ==
    ASSUME NEW h \in Seq(Measure), NEW t
    PROVE  /\ KeepsTo(h, t, 0) = <<>>
           /\ \A k \in 0 .. Len(h) - 1 : KeepsTo(h, t, k + 1) = Keep(t, KeepsTo(h, t, k), h[k + 1])
<1> DEFINE f == KeepsFrom(h, t)
<1>1. DOMAIN h = 1 .. Len(h) /\ Len(h) \in Nat
  OBVIOUS
<1>2. f = [s \in SUBSET DOMAIN h |-> IF s = {} THEN <<>> ELSE Keep(t, f[s \ {Max(s)}], h[Max(s)])]
  BY KeepsFolds
<1> HIDE DEF f
<1>3. 1 .. 0 = {} /\ {} \in SUBSET DOMAIN h
  OBVIOUS
<1>4. ASSUME NEW k \in 0 .. Len(h) - 1
      PROVE  f[1 .. k + 1] = Keep(t, f[1 .. k], h[k + 1])
  <2>1. k \in Nat /\ k + 1 <= Len(h)
    BY <1>1
  <2>2. 1 .. k + 1 \in SUBSET DOMAIN h /\ k + 1 \in 1 .. k + 1 /\ (1 .. k + 1) \ {k + 1} = 1 .. k
    BY <1>1, <2>1
  <2>3. Max(1 .. k + 1) = k + 1
    BY <2>1, MaxIs
  <2>4. 1 .. k + 1 # {}
    BY <2>2
  <2> QED BY <1>2, <2>2, <2>3, <2>4
<1>5. f[1 .. 0] = <<>>
  BY <1>2, <1>3
<1> QED BY <1>4, <1>5 DEF KeepsTo, f

LEMMA KeepsType ==
    ASSUME NEW h \in Seq(Measure), NEW t, NEW k \in 0 .. Len(h)
    PROVE  KeepsTo(h, t, k) \in Seq(Measure)
<1> DEFINE S == {i \in Nat : i <= Len(h) => KeepsTo(h, t, i) \in Seq(Measure)}
<1>0. /\ KeepsTo(h, t, 0) = <<>>
      /\ \A i \in 0 .. Len(h) - 1 : KeepsTo(h, t, i + 1) = Keep(t, KeepsTo(h, t, i), h[i + 1])
  BY KeepsFirst
<1>1. 0 \in S
  <2>1. <<>> \in Seq(Measure)
    OBVIOUS
  <2> QED BY <1>0, <2>1
<1>2. ASSUME NEW i \in Nat, i \in S PROVE i + 1 \in S
  <2> SUFFICES ASSUME i + 1 <= Len(h) PROVE KeepsTo(h, t, i + 1) \in Seq(Measure)
    OBVIOUS
  <2>1. KeepsTo(h, t, i) \in Seq(Measure) /\ i \in 0 .. Len(h) - 1
    BY <1>2
  <2>2. KeepsTo(h, t, i + 1) = Keep(t, KeepsTo(h, t, i), h[i + 1]) /\ h[i + 1] \in Measure
    BY <1>0, <2>1
  <2> QED BY <2>1, <2>2, KeepType
<1>3. Nat \subseteq S
  <2> HIDE DEF S
  <2> QED BY <1>1, <1>2, MemberInduction
<1> QED BY <1>3

\* What is kept of a history is what is kept of its first runtimes, then of the last.
LEMMA KeepsAppend ==
    ASSUME NEW h \in Seq(Measure), NEW e \in Measure, NEW t
    PROVE  LET more == Append(h, e)
           IN  KeepsTo(more, t, Len(more)) = Keep(t, KeepsTo(h, t, Len(h)), e)
<1> DEFINE more == Append(h, e)
           S == {i \in Nat : i <= Len(h) => KeepsTo(more, t, i) = KeepsTo(h, t, i)}
<1>0. /\ KeepsTo(h, t, 0) = <<>>
      /\ \A i \in 0 .. Len(h) - 1 : KeepsTo(h, t, i + 1) = Keep(t, KeepsTo(h, t, i), h[i + 1])
  BY KeepsFirst
<1>1. more \in Seq(Measure) /\ Len(more) = Len(h) + 1 /\ more[Len(h) + 1] = e /\ Len(h) \in Nat
      /\ \A i \in 1 .. Len(h) : more[i] = h[i]
  OBVIOUS
<1> HIDE DEF more
<1>2. /\ KeepsTo(more, t, 0) = <<>>
      /\ \A i \in 0 .. Len(more) - 1 : KeepsTo(more, t, i + 1) = Keep(t, KeepsTo(more, t, i), more[i + 1])
  BY <1>1, KeepsFirst
<1>3. ASSUME NEW i \in Nat, i \in S PROVE i + 1 \in S
  <2> SUFFICES ASSUME i + 1 <= Len(h) PROVE KeepsTo(more, t, i + 1) = KeepsTo(h, t, i + 1)
    OBVIOUS
  <2>1. KeepsTo(more, t, i) = KeepsTo(h, t, i) /\ i \in 0 .. Len(h) - 1 /\ i \in 0 .. Len(more) - 1
    BY <1>1, <1>3
  <2>2. more[i + 1] = h[i + 1]
    BY <1>1, <2>1
  <2> QED BY <1>0, <1>2, <2>1, <2>2
<1>4. Nat \subseteq S
  <2>1. 0 \in S
    BY <1>0, <1>2
  <2> HIDE DEF S
  <2> QED BY <1>3, <2>1, MemberInduction
<1>5. KeepsTo(more, t, Len(h)) = KeepsTo(h, t, Len(h))
  BY <1>1, <1>4
<1>6. KeepsTo(more, t, Len(h) + 1) = Keep(t, KeepsTo(more, t, Len(h)), more[Len(h) + 1])
  BY <1>1, <1>2
<1> QED BY <1>1, <1>5, <1>6 DEF more


-----------------------------------------------------------------------------
(* The estimates computed again.                                           *)

Cleared(k, n) == [t \in Task |-> [k[t] EXCEPT ![n] = NoEstimate]]

AgainFrom(k, n, h, a) ==
    CHOOSE g : g = [s \in SUBSET DOMAIN h |->
                       IF s = {} THEN Cleared(k, n)
                       ELSE Update(g[s \ {Max(s)}], n, h[Max(s)].pod, Divisor(a, h[Max(s)]))]

\* The estimates after the first i runtimes.
AgainTo(k, n, h, a, i) == AgainFrom(k, n, h, a)[1 .. i]

LEMMA RelearnedIs == \A k, n, h, a : Relearned(k, n, h, a) = AgainFrom(k, n, h, a)[DOMAIN h]
  BY DEF Relearned, FoldLeft, MapThenFoldSet, AgainFrom, Cleared

LEMMA ClearedType ==
    ASSUME NEW k \in Knowledge, NEW n \in Node
    PROVE  Cleared(k, n) \in Knowledge
<1>1. NoEstimate \in [own : Seq(Entry), taken : SUBSET Entry]
  BY DEF NoEstimate
<1>2. \A t \in Task : k[t] \in [Node -> [own : Seq(Entry), taken : SUBSET Entry]]
  BY DEF Knowledge
<1>3. \A t \in Task : [k[t] EXCEPT ![n] = NoEstimate] \in [Node -> [own : Seq(Entry), taken : SUBSET Entry]]
  BY <1>1, <1>2
<1> QED BY <1>3 DEF Cleared, Knowledge

LEMMA AgainFolds ==
    ASSUME NEW k \in Knowledge, NEW n \in Node, NEW h \in Seq(Measure), NEW a \in Slowdown
    PROVE  AgainFrom(k, n, h, a) = [s \in SUBSET DOMAIN h |->
               IF s = {} THEN Cleared(k, n)
               ELSE Update(AgainFrom(k, n, h, a)[s \ {Max(s)}], n, h[Max(s)].pod, Divisor(a, h[Max(s)]))]
<1> DEFINE z == Len(h)
           A == Knowledge
           Again(acc, e) == Update(acc, n, e.pod, Divisor(a, e))
           O == [x \in A \X (1 .. z) |-> Again(x[1], h[x[2]])]
           Is(g) == g = [s \in SUBSET DOMAIN h |->
                            IF s = {} THEN Cleared(k, n) ELSE Again(g[s \ {Max(s)}], h[Max(s)])]
<1>1. z \in Nat /\ DOMAIN h = 1 .. z /\ Cleared(k, n) \in A
  BY ClearedType
<1>2. ASSUME NEW acc \in A, NEW i \in 1 .. z
      PROVE  Again(acc, h[i]) \in A /\ O[<<acc, i>>] = Again(acc, h[i])
  <2>1. h[i].pod \in Pod /\ Divisor(a, h[i]) \in Divisors
    <3>1. h[i] \in Measure
      BY <1>1
    <3>2. Divisor(a, h[i]) \in Divisors
      BY DivisorType
    <3> QED BY <3>1, <3>2 DEF Measure
  <2>2. Again(acc, h[i]) \in A
    BY <2>1, UpdateType
  <2> HIDE DEF Again
  <2> QED BY <2>2
<1>3. O \in [A \X (1 .. z) -> A]
  <2> HIDE DEF Again
  <2> QED BY <1>2
<1> HIDE DEF z, A, O, Again
<1>4. PICK g \in [SUBSET (1 .. z) -> A] : \A s \in SUBSET (1 .. z) : Folds(g, s, Cleared(k, n), O)
  BY <1>1, <1>3, FoldExists DEF Folded
<1>5. ASSUME NEW s \in SUBSET (1 .. z)
      PROVE  g[s] = IF s = {} THEN Cleared(k, n) ELSE Again(g[s \ {Max(s)}], h[Max(s)])
  <2>1. CASE s = {}
    BY <1>4, <2>1 DEF Folds
  <2>2. CASE s # {}
    <3>1. Max(s) \in 1 .. z /\ s \ {Max(s)} \in SUBSET (1 .. z)
      BY <1>1, <2>2, MaxIn
    <3>2. g[s] = O[<<g[s \ {Max(s)}], Max(s)>>]
      BY <1>4, <2>2 DEF Folds
    <3> QED BY <1>2, <2>2, <3>1, <3>2
  <2> QED BY <2>1, <2>2
<1>6. Is(g)
  BY <1>1, <1>5
<1>7. AgainFrom(k, n, h, a) = CHOOSE f : Is(f)
  BY DEF AgainFrom, Again
<1> HIDE DEF Is
<1>8. Is(AgainFrom(k, n, h, a))
  BY <1>6, <1>7
<1> QED BY <1>8 DEF Is, Again

LEMMA AgainFirst ==
    ASSUME NEW k \in Knowledge, NEW n \in Node, NEW h \in Seq(Measure), NEW a \in Slowdown
    PROVE  /\ AgainTo(k, n, h, a, 0) = Cleared(k, n)
           /\ \A i \in 0 .. Len(h) - 1 :
                 AgainTo(k, n, h, a, i + 1) =
                     Update(AgainTo(k, n, h, a, i), n, h[i + 1].pod, Divisor(a, h[i + 1]))
<1> DEFINE f == AgainFrom(k, n, h, a)
           Again(acc, e) == Update(acc, n, e.pod, Divisor(a, e))
<1>1. DOMAIN h = 1 .. Len(h) /\ Len(h) \in Nat
  OBVIOUS
<1>2. f = [s \in SUBSET DOMAIN h |-> IF s = {} THEN Cleared(k, n) ELSE Again(f[s \ {Max(s)}], h[Max(s)])]
  BY AgainFolds, ZenonT(30)
<1> HIDE DEF f, Again
<1>3. 1 .. 0 = {} /\ {} \in SUBSET DOMAIN h
  OBVIOUS
<1>4. ASSUME NEW i \in 0 .. Len(h) - 1
      PROVE  f[1 .. i + 1] = Again(f[1 .. i], h[i + 1])
  <2>1. i \in Nat /\ i + 1 <= Len(h)
    BY <1>1
  <2>2. 1 .. i + 1 \in SUBSET DOMAIN h /\ i + 1 \in 1 .. i + 1 /\ (1 .. i + 1) \ {i + 1} = 1 .. i
    BY <1>1, <2>1
  <2>3. Max(1 .. i + 1) = i + 1
    BY <2>1, MaxIs
  <2>4. 1 .. i + 1 # {}
    BY <2>2
  <2> QED BY <1>2, <2>2, <2>3, <2>4
<1>5. f[1 .. 0] = Cleared(k, n)
  BY <1>2, <1>3
<1> QED BY <1>4, <1>5 DEF AgainTo, f, Again

-----------------------------------------------------------------------------
(* What the estimates are updated with.                                    *)

Divided(h, a) == [i \in DOMAIN h |-> [pod |-> h[i].pod, by |-> Divisor(a, h[i])]]

LEMMA DividedAppend ==
    ASSUME NEW h \in Seq(Measure), NEW e \in Measure, NEW a
    PROVE  Divided(Append(h, e), a) = Append(Divided(h, a), [pod |-> e.pod, by |-> Divisor(a, e)])
<1> DEFINE more == Append(h, e)
           last == [pod |-> e.pod, by |-> Divisor(a, e)]
           U == {Divided(h, a)[i] : i \in DOMAIN h} \cup {last}
<1>1. more \in Seq(Measure) /\ Len(more) = Len(h) + 1 /\ more[Len(h) + 1] = e /\ Len(h) \in Nat
      /\ DOMAIN h = 1 .. Len(h) /\ DOMAIN more = 1 .. Len(h) + 1 /\ \A i \in 1 .. Len(h) : more[i] = h[i]
  OBVIOUS
<1> HIDE DEF more
<1>2. Divided(h, a) \in [1 .. Len(h) -> U] /\ Divided(h, a) \in Seq(U) /\ Len(Divided(h, a)) = Len(h)
  BY <1>1 DEF Divided
<1> DEFINE d == Divided(h, a)
<1>3. ASSUME NEW i \in 1 .. Len(h) + 1
      PROVE  Divided(more, a)[i] = IF i = Len(h) + 1 THEN last ELSE d[i]
  BY <1>1 DEF Divided
<1>4. Divided(more, a) = [i \in 1 .. Len(h) + 1 |-> IF i = Len(h) + 1 THEN last ELSE d[i]]
  BY <1>1, <1>3 DEF Divided
<1>0. last \in U
  OBVIOUS
<1> HIDE DEF d, last, U
<1>5. Append(d, last) = [i \in 1 .. Len(h) + 1 |-> IF i = Len(h) + 1 THEN last ELSE d[i]]
  <2> DEFINE q == Append(d, last)
  <2>1. d \in Seq(U) /\ Len(d) = Len(h)
    BY <1>2 DEF d
  <2>2. /\ q \in Seq(U) /\ Len(q) = Len(h) + 1
        /\ \A i \in 1 .. Len(h) : q[i] = d[i]
        /\ q[Len(h) + 1] = last
    BY <1>0, <2>1, AppendProperties
  <2> HIDE DEF q
  <2>3. q = [i \in 1 .. Len(h) + 1 |-> q[i]]
    BY <2>2
  <2>4. \A i \in 1 .. Len(h) + 1 : q[i] = IF i = Len(h) + 1 THEN last ELSE d[i]
    BY <1>1, <2>2
  <2> QED BY <2>3, <2>4 DEF q
<1> QED BY <1>4, <1>5 DEF more, d, last

\* An update adds to the estimates of one task and one node.
LEMMA UpdateOwn ==
    ASSUME NEW k \in Knowledge, NEW n \in Node, NEW p \in Pod, NEW by, NEW t \in Task, NEW m \in Node
    PROVE  Update(k, n, p, by)[t][m].own =
               IF t = TaskOf[p] /\ m = n THEN Append(k[t][m].own, [pod |-> p, by |-> by]) ELSE k[t][m].own
<1> DEFINE u == TaskOf[p]
           old == IF Runs(k, u, n) > 0 THEN k[u][n] ELSE [own |-> <<>>, taken |-> Moved(k, u)]
           entry == [pod |-> p, by |-> by]
           new == [old EXCEPT !.own = Append(@, entry)]
<1>1. u \in Task
  BY SlowedAssumption
<1>2. Update(k, n, p, by) = [k EXCEPT ![u][n] = new]
  BY DEF Update
<1>3. k[u][n] \in [own : Seq(Entry), taken : SUBSET Entry]
  BY <1>1 DEF Knowledge
<1>4. old.own = k[u][n].own
  <2>1. CASE Runs(k, u, n) > 0
    BY <2>1
  <2>2. CASE ~(Runs(k, u, n) > 0)
    <3>1. Len(k[u][n].own) = 0 /\ k[u][n].own \in Seq(Entry)
      BY <1>3, <2>2 DEF Runs
    <3>2. k[u][n].own = <<>>
      BY <3>1, EmptySeq
    <3> QED BY <2>2, <3>2
  <2> QED BY <2>1, <2>2
<1>5. new.own = Append(k[u][n].own, entry)
  <2>1. old = [own |-> old.own, taken |-> old.taken]
    <3>1. k[u][n] = [own |-> k[u][n].own, taken |-> k[u][n].taken]
      BY <1>3
    <3> QED BY <3>1
  <2> HIDE DEF old, entry
  <2> QED BY <1>4, <2>1
<1> HIDE DEF u, old, new
<1>6. [k EXCEPT ![u][n] = new][t][m] = IF t = u /\ m = n THEN new ELSE k[t][m]
  BY <1>1 DEF Knowledge
<1> QED BY <1>2, <1>5, <1>6 DEF u

LEMMA UpdateElsewhere ==
    ASSUME NEW k \in Knowledge, NEW n \in Node, NEW p \in Pod, NEW by, NEW t \in Task, NEW m \in Node, m # n
    PROVE  Update(k, n, p, by)[t][m] = k[t][m]
<1>1. TaskOf[p] \in Task
  BY SlowedAssumption
<1>2. \A new : [k EXCEPT ![TaskOf[p]][n] = new][t][m] = k[t][m]
  BY <1>1 DEF Knowledge
<1> QED BY <1>2 DEF Update


Follows(k, n, h, a) == \A t \in Task : k[t][n].own = Divided(KeepsTo(h, t, Len(h)), a)

LEMMA DividedEmpty == \A a : Divided(<<>>, a) = <<>>
<1>1. DOMAIN <<>> = 1 .. 0 /\ 1 .. 0 = {}
  OBVIOUS
<1> QED BY <1>1 DEF Divided

\* Computed again from h, the estimates of n are h, divided by a, and the others are what they were.
LEMMA AgainFollows ==
    ASSUME NEW k \in Knowledge, NEW n \in Node, NEW h \in Seq(Measure), NEW a \in Slowdown
    PROVE  LET again == Relearned(k, n, h, a)
           IN  /\ again \in Knowledge
               /\ Follows(again, n, h, a)
               /\ \A t \in Task, m \in Node \ {n} : again[t][m] = k[t][m]
<1> DEFINE At(i) == AgainTo(k, n, h, a, i)
           Good(i) == /\ At(i) \in Knowledge
                      /\ \A t \in Task : At(i)[t][n].own = Divided(KeepsTo(h, t, i), a)
                      /\ \A t \in Task, m \in Node \ {n} : At(i)[t][m] = k[t][m]
           S == {i \in Nat : i <= Len(h) => Good(i)}
<1>1. /\ At(0) = Cleared(k, n)
      /\ \A i \in 0 .. Len(h) - 1 : At(i + 1) = Update(At(i), n, h[i + 1].pod, Divisor(a, h[i + 1]))
  BY AgainFirst
<1>2. \A t \in Task : /\ KeepsTo(h, t, 0) = <<>>
                      /\ \A i \in 0 .. Len(h) - 1 : KeepsTo(h, t, i + 1) = Keep(t, KeepsTo(h, t, i), h[i + 1])
  BY KeepsFirst
<1> HIDE DEF At
<1>3. Good(0)
  <2>1. At(0) \in Knowledge
    BY <1>1, ClearedType
  <2>2. ASSUME NEW t \in Task
        PROVE  /\ Cleared(k, n)[t][n].own = <<>>
               /\ \A m \in Node \ {n} : Cleared(k, n)[t][m] = k[t][m]
    BY DEF Cleared, Knowledge, NoEstimate
  <2> QED BY <1>1, <1>2, <2>1, <2>2, DividedEmpty
<1>4. ASSUME NEW i \in Nat, Good(i), i + 1 <= Len(h) PROVE Good(i + 1)
  <2> DEFINE e == h[i + 1]
             p == e.pod
             by == Divisor(a, e)
  <2>1. i \in 0 .. Len(h) - 1 /\ i \in 0 .. Len(h) /\ e \in Measure
    BY <1>4
  <2>2. p \in Pod /\ by \in Divisors
    <3>1. by \in Divisors
      BY DivisorType
    <3> QED BY <2>1, <3>1 DEF Measure
  <2>3. At(i + 1) = Update(At(i), n, p, by)
    BY <1>1, <2>1
  <2>4. At(i + 1) \in Knowledge
    BY <1>4, <2>2, <2>3, UpdateType
  <2>5. ASSUME NEW t \in Task PROVE At(i + 1)[t][n].own = Divided(KeepsTo(h, t, i + 1), a)
    <3>1. KeepsTo(h, t, i + 1) = Keep(t, KeepsTo(h, t, i), e) /\ KeepsTo(h, t, i) \in Seq(Measure)
      BY <1>2, <2>1, KeepsType
    <3>2. At(i + 1)[t][n].own = IF t = TaskOf[p] THEN Append(At(i)[t][n].own, [pod |-> p, by |-> by])
                                ELSE At(i)[t][n].own
      BY <1>4, <2>2, <2>3, UpdateOwn
    <3>3. At(i)[t][n].own = Divided(KeepsTo(h, t, i), a)
      BY <1>4
    <3>4. Divided(Append(KeepsTo(h, t, i), e), a) =
              Append(Divided(KeepsTo(h, t, i), a), [pod |-> p, by |-> by])
      BY <2>1, <3>1, DividedAppend
    <3> HIDE DEF e, by
    <3> QED BY <3>1, <3>2, <3>3, <3>4 DEF Keep
  <2>6. ASSUME NEW t \in Task, NEW m \in Node \ {n} PROVE At(i + 1)[t][m] = k[t][m]
    BY <1>4, <2>2, <2>3, UpdateElsewhere
  <2> QED BY <2>4, <2>5, <2>6
<1>5. \A i \in Nat : i \in S => i + 1 \in S
  <2> HIDE DEF Good
  <2> QED BY <1>4
<1>6. Good(Len(h))
  <2>1. Nat \subseteq S
    <3>1. 0 \in S
      BY <1>3
    <3> HIDE DEF S
    <3> QED BY <1>5, <3>1, MemberInduction
  <2> HIDE DEF Good
  <2> QED BY <2>1
<1>7. Relearned(k, n, h, a) = At(Len(h))
  BY RelearnedIs DEF At, AgainTo
<1> QED BY <1>6, <1>7 DEF Follows

\* One more runtime, and the slowdown as it was.
LEMMA UpdateFollows ==
    ASSUME NEW k \in Knowledge, NEW n \in Node, NEW h \in Seq(Measure), NEW e \in Measure, NEW a \in Slowdown,
           Follows(k, n, h, a)
    PROVE  Follows(Update(k, n, e.pod, Divisor(a, e)), n, Append(h, e), a)
<1> SUFFICES ASSUME NEW t \in Task
             PROVE  Update(k, n, e.pod, Divisor(a, e))[t][n].own
                        = Divided(KeepsTo(Append(h, e), t, Len(Append(h, e))), a)
  BY DEF Follows
<1> DEFINE kept == KeepsTo(h, t, Len(h))
<1>1. e.pod \in Pod
  BY DEF Measure
<1>2. KeepsTo(Append(h, e), t, Len(Append(h, e))) = Keep(t, kept, e)
  BY KeepsAppend
<1>3. kept \in Seq(Measure)
  <2>1. Len(h) \in 0 .. Len(h)
    OBVIOUS
  <2> QED BY <2>1, KeepsType
<1>4. Update(k, n, e.pod, Divisor(a, e))[t][n].own =
          IF t = TaskOf[e.pod] THEN Append(k[t][n].own, [pod |-> e.pod, by |-> Divisor(a, e)]) ELSE k[t][n].own
  BY <1>1, UpdateOwn
<1>5. k[t][n].own = Divided(kept, a)
  BY DEF Follows
<1>6. Divided(Append(kept, e), a) = Append(Divided(kept, a), [pod |-> e.pod, by |-> Divisor(a, e)])
  BY <1>3, DividedAppend
<1> HIDE DEF kept
<1> QED BY <1>2, <1>4, <1>5, <1>6 DEF Keep


-----------------------------------------------------------------------------
(* The type of the state.                                                  *)

LEMMA InitTyped == Init => TypeOK
<1> SUFFICES ASSUME Init PROVE TypeOK
  OBVIOUS
<1>1. NoEstimate \in [own : Seq(Entry), taken : SUBSET Entry]
  BY DEF NoEstimate
<1>2. known \in [Task -> [Node -> [own : Seq(Entry), taken : SUBSET Entry]]]
  BY <1>1 DEF Init
<1>3. history \in [Node -> Seq(Measure)]
  BY DEF Init
<1>4. raised \in 0 .. MaxRaised
  BY SlowedAssumption DEF Init
<1> QED BY <1>2, <1>3, <1>4 DEF Init, TypeOK, Slowdown

LEMMA BoundTyped ==
    ASSUME TypeOK, NEW p \in Pod, NEW n \in Node, pod[p] = "pending", Bound(p, n)
    PROVE  /\ pod' \in [Pod -> {"pending", "running", "succeeded"}]
           /\ node' \in [Pod -> Node \cup {NoNode}]
           /\ \A q \in Pod : node'[q] = NoNode <=> pod'[q] = "pending"
           /\ beside' \in [Pod -> SUBSET Pod]
           /\ \A q \in Pod \ {p} : pod'[q] = pod[q]
           /\ pod'[p] = "running"
<1>1. On(n) \in SUBSET Pod /\ n # NoNode
  BY SlowedAssumption DEF On
<1> QED BY <1>1 DEF TypeOK, Bound

LEMMA SnapshotTyped == ASSUME TypeOK, NEW p \in Pod, Snapshot(p) PROVE TypeOK'
<1>1. PICK C \in SUBSET Node :
        snapshot' = [pod |-> p, requested |-> [n \in C |-> Base[n] + Cardinality(On(n))]]
  BY DEF Snapshot
<1>2. \A n \in C : Base[n] + Cardinality(On(n)) \in Nat
  BY SlowedAssumption, OnIsFinite
<1>3. /\ snapshot'.pod = p /\ DOMAIN snapshot'.requested = C
      /\ \A n \in C : snapshot'.requested[n] \in Nat
  BY <1>1, <1>2
<1> QED BY <1>3 DEF TypeOK, Snapshot, pods, load, observer

LEMMA DecideTyped == ASSUME TypeOK, Decide PROVE TypeOK'
<1>1. /\ snapshot.pod \in Pod /\ pod[snapshot.pod] = "pending" /\ DOMAIN snapshot.requested \subseteq Node
      /\ \A n \in DOMAIN snapshot.requested : snapshot.requested[n] \in Nat
  BY DEF Decide, TypeOK
<1>2. /\ pod' \in [Pod -> {"pending", "running", "succeeded"}]
      /\ node' \in [Pod -> Node \cup {NoNode}]
      /\ \A q \in Pod : node'[q] = NoNode <=> pod'[q] = "pending"
      /\ beside' \in [Pod -> SUBSET Pod]
      /\ \A q \in Pod : pod[q] # "pending" => pod'[q] = pod[q]
  <2>1. CASE UNCHANGED pods
    BY <2>1 DEF TypeOK, pods
  <2>2. ASSUME NEW n \in DOMAIN snapshot.requested, Bound(snapshot.pod, n)
        PROVE  <1>2!1 /\ <1>2!2 /\ <1>2!3 /\ <1>2!4 /\ <1>2!5
    BY <1>1, <2>2, BoundTyped
  <2> QED BY <2>1, <2>2 DEF Decide
<1>3. system' \in [Node -> Nat]
  <2>1. ASSUME NEW n \in Node PROVE Seen(n) \in Nat
    BY <1>1 DEF Seen, TypeOK
  <2> QED BY <2>1 DEF Decide
<1>4. sized' \in SUBSET Node
  BY <1>1 DEF Decide, TypeOK
<1> QED BY <1>2, <1>3, <1>4 DEF TypeOK, Decide

LEMMA PlaceTyped == ASSUME TypeOK, NEW p \in Pod, PlaceUnseen(p) PROVE TypeOK'
<1>1. PICK n \in Node : Bound(p, n)
  BY DEF PlaceUnseen
<1>2. pod[p] = "pending" /\ snapshot = NoSnapshot /\ UNCHANGED <<snapshot, load, observer>>
  BY DEF PlaceUnseen
<1>3. /\ pod' \in [Pod -> {"pending", "running", "succeeded"}]
      /\ node' \in [Pod -> Node \cup {NoNode}]
      /\ \A q \in Pod : node'[q] = NoNode <=> pod'[q] = "pending"
      /\ beside' \in [Pod -> SUBSET Pod]
      /\ \A q \in Pod \ {p} : pod'[q] = pod[q]
  BY <1>1, <1>2, BoundTyped
<1> QED BY <1>2, <1>3 DEF TypeOK, load, observer

LEMMA FinishTyped == ASSUME TypeOK, NEW p \in Pod, Finish(p) PROVE TypeOK'
<1>1. /\ pod' \in [Pod -> {"pending", "running", "succeeded"}]
      /\ pod[p] = "running" /\ pod'[p] = "succeeded"
      /\ \A q \in Pod \ {p} : pod'[q] = pod[q]
  BY DEF TypeOK, Finish
<1> QED BY <1>1 DEF TypeOK, Finish, load, observer

LEMMA ReadTyped ==
    ASSUME TypeOK, Poll \/ BeginRead \/ EndRead \/ \E p \in Pod : Raises(p)
    PROVE  TypeOK'
<1>1. CASE Poll
  <2>1. list'.todo = {p \in Pod : pod[p] = "succeeded"} /\ list'.running = {p \in Pod : pod[p] = "running"}
        /\ list'.reading = FALSE
    BY <1>1 DEF Poll
  <2> QED BY <1>1, <2>1 DEF TypeOK, Poll, pods, load
<1>2. CASE BeginRead
  <2>1. /\ list \in [todo : SUBSET Pod, running : SUBSET Pod, reading : BOOLEAN]
        /\ list' = [list EXCEPT !.reading = TRUE, !.todo = @ \ seen]
    BY <1>2 DEF TypeOK, BeginRead
  <2>2. /\ list' \in [todo : SUBSET Pod, running : SUBSET Pod, reading : BOOLEAN]
        /\ list'.todo \subseteq list.todo /\ list'.running = list.running
    BY <2>1
  <2> QED BY <1>2, <2>1, <2>2 DEF TypeOK, BeginRead, pods, load
<1>3. CASE EndRead
  BY <1>3 DEF TypeOK, EndRead, pods, load
<1>4. ASSUME NEW p \in Pod, Raises(p) PROVE TypeOK'
  <2>1. list # NoList /\ list' = [list EXCEPT !.todo = @ \ {p}]
    BY <1>4 DEF Raises, ToLearn, Locked
  <2>2. /\ list' \in [todo : SUBSET Pod, running : SUBSET Pod, reading : BOOLEAN]
        /\ list'.todo \subseteq list.todo /\ list'.running = list.running
    BY <2>1 DEF TypeOK
  <2>3. raised' \in 0 .. MaxRaised
    BY <1>4, SlowedAssumption DEF TypeOK, Raises
  <2> QED BY <1>4, <2>1, <2>2, <2>3 DEF TypeOK, Raises, pods, load
<1> QED BY <1>1, <1>2, <1>3, <1>4

\* Where Learn keeps the runtime of p, and the slowdown it leaves.
LEMMA LearnIs ==
    ASSUME TypeOK, NEW p \in Pod, Learn(p)
    PROVE  LET n == node[p]
               e == [pod |-> p, occ |-> Occupancy(p)]
               a == slowdown'[n]
           IN  /\ n \in Node /\ pod[p] = "succeeded" /\ e \in Measure /\ a \in Slowdown
               /\ history' = [history EXCEPT ![n] = Append(history[n], e)]
               /\ slowdown' = [slowdown EXCEPT ![n] = a]
               /\ known' = IF a # slowdown[n] THEN Relearned(known, n, Append(history[n], e), a)
                           ELSE Update(known, n, p, Divisor(a, e))
<1> DEFINE n == node[p]
           e == [pod |-> p, occ |-> Occupancy(p)]
<1>1. list # NoList /\ p \in list.todo
  BY DEF Learn, ToLearn, Locked
<1>2. pod[p] = "succeeded" /\ n \in Node
  BY <1>1 DEF TypeOK
<1>3. Occupancy(p) \in Nat
  <2>1. beside[p] \in SUBSET Pod /\ system[n] \in Nat
    BY <1>2 DEF TypeOK
  <2>2. Cardinality(beside[p]) \in Nat
    BY <2>1, SlowedAssumption, FS_Subset, FS_CardinalityType
  <2> QED BY <2>1, <2>2 DEF Occupancy
<1>4. e \in Measure /\ Recorded(p) = Append(history[n], e) /\ history[n] \in Seq(Measure)
  BY <1>2, <1>3 DEF Measure, Recorded, TypeOK
<1> HIDE DEF e
<1>5. Last(Append(history[n], e)) = e
  <2>1. Len(Append(history[n], e)) = Len(history[n]) + 1 /\ Append(history[n], e)[Len(history[n]) + 1] = e
    BY <1>4, AppendProperties
  <2> QED BY <2>1 DEF Last
<1>6. PICK a \in (IF p \in Timed THEN Fits(slowdown[n], Recorded(p)) ELSE {slowdown[n]}) :
        /\ slowdown' = [slowdown EXCEPT ![n] = a]
        /\ history' = [history EXCEPT ![n] = Recorded(p)]
        /\ known' = IF a # slowdown[n] THEN Relearned(known, n, Recorded(p), a)
                    ELSE Update(known, n, p, Divisor(a, Last(Recorded(p))))
  BY DEF Learn
<1>7. a \in Slowdown /\ slowdown'[n] = a
  BY <1>2, <1>6 DEF Fits, Slowdown, TypeOK
<1> QED BY <1>2, <1>4, <1>5, <1>6, <1>7 DEF e

LEMMA LearnTyped == ASSUME TypeOK, NEW p \in Pod, Learn(p) PROVE TypeOK'
<1> DEFINE n == node[p]
           e == [pod |-> p, occ |-> Occupancy(p)]
           a == slowdown'[n]
<1>1. /\ n \in Node /\ pod[p] = "succeeded" /\ e \in Measure /\ a \in Slowdown
      /\ history' = [history EXCEPT ![n] = Append(history[n], e)]
      /\ slowdown' = [slowdown EXCEPT ![n] = a]
      /\ known' = IF a # slowdown[n] THEN Relearned(known, n, Append(history[n], e), a)
                  ELSE Update(known, n, p, Divisor(a, e))
  BY LearnIs
<1> HIDE DEF e, a
<1>2. history[n] \in Seq(Measure) /\ Append(history[n], e) \in Seq(Measure)
  BY <1>1, AppendProperties DEF TypeOK
<1>3. history' \in [Node -> Seq(Measure)]
  BY <1>1, <1>2 DEF TypeOK
<1>4. slowdown' \in [Node -> Slowdown]
  BY <1>1 DEF TypeOK
<1>5. known' \in Knowledge
  <2>1. known \in Knowledge
    BY DEF TypeOK, Knowledge
  <2>2. Relearned(known, n, Append(history[n], e), a) \in Knowledge
    BY <1>1, <1>2, <2>1, AgainFollows
  <2>3. Divisor(a, e) \in Divisors
    BY <1>1, DivisorType
  <2>4. Update(known, n, p, Divisor(a, e)) \in Knowledge
    BY <1>1, <2>1, <2>3, UpdateType
  <2> QED BY <1>1, <2>2, <2>4
<1>6. /\ list # NoList /\ list' = [list EXCEPT !.todo = @ \ {p}] /\ seen' = seen \cup {p}
      /\ UNCHANGED <<pods, snapshot, sized, system, started, running, raised>>
  BY DEF Learn, ToLearn, Locked
<1>7. /\ list' \in [todo : SUBSET Pod, running : SUBSET Pod, reading : BOOLEAN]
      /\ list'.todo \subseteq list.todo /\ list'.running = list.running
  BY <1>6 DEF TypeOK
<1> QED BY <1>1, <1>3, <1>4, <1>5, <1>6, <1>7 DEF TypeOK, Knowledge, pods

LEMMA TypedStep == TypeOK /\ [Next]_vars => TypeOK'
<1> SUFFICES ASSUME TypeOK, [Next]_vars PROVE TypeOK'
  OBVIOUS
<1>1. CASE UNCHANGED vars
  BY <1>1 DEF TypeOK, vars, pods, load, observer
<1>2. CASE Decide
  BY <1>2, DecideTyped
<1>3. CASE Poll \/ BeginRead \/ EndRead \/ \E p \in Pod : Raises(p)
  BY <1>3, ReadTyped
<1>4. ASSUME NEW p \in Pod, Snapshot(p) \/ PlaceUnseen(p) \/ Finish(p) \/ Learn(p) PROVE TypeOK'
  BY <1>4, SnapshotTyped, PlaceTyped, FinishTyped, LearnTyped
<1> QED BY <1>1, <1>2, <1>3, <1>4 DEF Next

\* The state has its shape; a decision under way is about a pod no one has placed, and only pods that
\* finished are learned from (Cluster.read, kaptain.py:303-330), estimates computed again included.
THEOREM TypeCorrect == Spec => []TypeOK
  BY InitTyped, TypedStep, PTL DEF Spec

-----------------------------------------------------------------------------
(* The estimates follow the slowdown.                                      *)

AllFollow == \A n \in Node : Follows(known, n, history[n], slowdown[n])

LEMMA FollowsIs == TypeOK => (EstimatesFollowSlowdown <=> AllFollow)
<1> SUFFICES ASSUME TypeOK PROVE EstimatesFollowSlowdown <=> AllFollow
  OBVIOUS
<1>1. ASSUME NEW n \in Node, NEW t \in Task
      PROVE  OfTask(n, t) = KeepsTo(history[n], t, Len(history[n]))
  <2>1. DOMAIN history[n] = 1 .. Len(history[n])
    BY DEF TypeOK
  <2> QED BY <2>1, OfTaskIs DEF KeepsTo
<1>2. EstimatesFollowSlowdown <=>
          \A t \in Task, n \in Node : known[t][n].own = Divided(OfTask(n, t), slowdown[n])
  BY DEF EstimatesFollowSlowdown, Divided
<1> QED BY <1>1, <1>2 DEF AllFollow, Follows

LEMMA FollowsInit == Init => EstimatesFollowSlowdown
<1> SUFFICES ASSUME Init PROVE AllFollow
  BY InitTyped, FollowsIs
<1> SUFFICES ASSUME NEW n \in Node, NEW t \in Task
             PROVE  known[t][n].own = Divided(KeepsTo(history[n], t, Len(history[n])), slowdown[n])
  BY DEF AllFollow, Follows
<1>1. history[n] = <<>> /\ Len(<<>>) = 0 /\ <<>> \in Seq(Measure)
  BY DEF Init
<1>2. KeepsTo(<<>>, t, 0) = <<>>
  BY <1>1, KeepsFirst
<1>3. known[t][n].own = <<>>
  BY DEF Init, NoEstimate
<1> QED BY <1>1, <1>2, <1>3, DividedEmpty

LEMMA FollowsLearn ==
    ASSUME TypeOK, TypeOK', EstimatesFollowSlowdown, NEW p \in Pod, Learn(p)
    PROVE  EstimatesFollowSlowdown'
<1> DEFINE n == node[p]
           e == [pod |-> p, occ |-> Occupancy(p)]
           a == slowdown'[n]
           h == Append(history[n], e)
<1>1. /\ n \in Node /\ e \in Measure /\ a \in Slowdown
      /\ history' = [history EXCEPT ![n] = h]
      /\ slowdown' = [slowdown EXCEPT ![n] = a]
      /\ known' = IF a # slowdown[n] THEN Relearned(known, n, h, a) ELSE Update(known, n, p, Divisor(a, e))
  BY LearnIs
<1>2. e.pod = p
  OBVIOUS
<1> HIDE DEF e, a
<1>3. known \in Knowledge /\ history[n] \in Seq(Measure) /\ h \in Seq(Measure)
  BY <1>1, AppendProperties DEF TypeOK, Knowledge
<1>4. \A m \in Node : Follows(known, m, history[m], slowdown[m])
  BY FollowsIs DEF AllFollow
<1>5. Follows(known', n, h, a)
  <2>1. CASE a # slowdown[n]
    BY <1>1, <1>3, <2>1, AgainFollows
  <2>2. CASE a = slowdown[n]
    BY <1>1, <1>2, <1>3, <1>4, <2>2, UpdateFollows
  <2> QED BY <2>1, <2>2
<1>6. \A m \in Node \ {n}, t \in Task : known'[t][m] = known[t][m]
  <2>1. CASE a # slowdown[n]
    <3>1. \A t \in Task, m \in Node \ {n} : Relearned(known, n, h, a)[t][m] = known[t][m]
      <4> HIDE DEF h
      <4> QED BY <1>1, <1>3, AgainFollows
    <3> QED BY <1>1, <2>1, <3>1
  <2>2. CASE a = slowdown[n]
    BY <1>1, <1>3, <2>2, UpdateElsewhere
  <2> QED BY <2>1, <2>2
<1> HIDE DEF h
<1>7. ASSUME NEW m \in Node PROVE Follows(known', m, history'[m], slowdown'[m])
  <2>1. CASE m = n
    BY <1>1, <1>5, <2>1 DEF TypeOK
  <2>2. CASE m # n
    <3>1. history'[m] = history[m] /\ slowdown'[m] = slowdown[m]
      BY <1>1, <2>2 DEF TypeOK
    <3> QED BY <1>4, <1>6, <2>2, <3>1 DEF Follows
  <2> QED BY <2>1, <2>2
<1>8. AllFollow'
  BY <1>7 DEF AllFollow
<1> QED BY <1>8, FollowsIs, PTL

LEMMA FollowsStep ==
    TypeOK /\ TypeOK' /\ EstimatesFollowSlowdown /\ [Next]_vars => EstimatesFollowSlowdown'
<1> SUFFICES ASSUME TypeOK, TypeOK', EstimatesFollowSlowdown, [Next]_vars PROVE EstimatesFollowSlowdown'
  OBVIOUS
<1>1. CASE UNCHANGED <<known, history, slowdown>>
  <2>1. AllFollow'
    BY <1>1, FollowsIs DEF AllFollow
  <2> QED BY <2>1, FollowsIs, PTL
<1>2. Decide \/ Poll \/ BeginRead \/ EndRead \/ UNCHANGED vars => UNCHANGED <<known, history, slowdown>>
  BY DEF Decide, Poll, BeginRead, EndRead, vars, load, observer
<1>3. ASSUME NEW p \in Pod, Snapshot(p) \/ PlaceUnseen(p) \/ Finish(p) \/ Raises(p)
      PROVE  UNCHANGED <<known, history, slowdown>>
  BY <1>3 DEF Snapshot, PlaceUnseen, Finish, Raises, load, observer
<1>4. ASSUME NEW p \in Pod, Learn(p) PROVE EstimatesFollowSlowdown'
  BY <1>4, FollowsLearn
<1> QED BY <1>1, <1>2, <1>3, <1>4 DEF Next

\* However often the slowdown of a node moves (learn_alone, kaptain.py:340-354), its estimates are what
\* its last slowdown makes of every runtime kept there: computing them again from the first runtime, and
\* adding one runtime at a time while the slowdown stands, come to the same.
THEOREM EstimatesFollow == Spec => []EstimatesFollowSlowdown
<1>1. Init => TypeOK /\ EstimatesFollowSlowdown
  BY InitTyped, FollowsInit
<1>2. (TypeOK /\ EstimatesFollowSlowdown) /\ [Next]_vars => (TypeOK /\ EstimatesFollowSlowdown)'
  BY TypedStep, FollowsStep
<1> QED BY <1>1, <1>2, PTL DEF Spec


-----------------------------------------------------------------------------
(* A runtime is kept once.                                                 *)

Has(n, i, p) == i \in DOMAIN history[n] /\ history[n][i].pod = p

\* The history of a node has the seen pods that ran there, each at one place.
Placed ==
    /\ \A n \in Node : \A i \in DOMAIN history[n] : history[n][i].pod \in seen /\ node[history[n][i].pod] = n
    /\ \A n \in Node : \A i, j \in DOMAIN history[n] : history[n][i].pod = history[n][j].pod => i = j
    /\ \A p \in seen : \E i \in DOMAIN history[node[p]] : history[node[p]][i].pod = p

\* A read under way has only pods it has not learned from.
Unlearned == list # NoList /\ list.reading => list.todo \cap seen = {}

OnceInv == Placed /\ Unlearned

LEMMA OnceInit == Init => OnceInv
<1> SUFFICES ASSUME Init PROVE OnceInv
  OBVIOUS
<1>1. \A n \in Node : DOMAIN history[n] = {}
  BY DEF Init
<1> QED BY <1>1 DEF Init, OnceInv, Placed, Unlearned

\* The pods seen have finished: a decision moves none of them.
LEMMA SeenStay ==
    ASSUME TypeOK, Decide \/ (\E p \in Pod : PlaceUnseen(p)) \/ UNCHANGED node
    PROVE  \A q \in seen : node'[q] = node[q]
<1>1. ASSUME NEW p \in Pod, NEW n \in Node, pod[p] = "pending", Bound(p, n), NEW q \in seen
      PROVE  node'[q] = node[q]
  BY <1>1 DEF Bound, TypeOK
<1>2. CASE Decide
  <2>1. snapshot.pod \in Pod /\ pod[snapshot.pod] = "pending" /\ DOMAIN snapshot.requested \subseteq Node
    BY <1>2 DEF Decide, TypeOK
  <2> QED BY <1>1, <1>2, <2>1 DEF Decide, pods
<1>3. ASSUME NEW p \in Pod, PlaceUnseen(p) PROVE \A q \in seen : node'[q] = node[q]
  BY <1>1, <1>3 DEF PlaceUnseen
<1> QED BY <1>2, <1>3

LEMMA PlacedStays ==
    ASSUME TypeOK, Placed, UNCHANGED <<history, seen>>, \A q \in seen : node'[q] = node[q]
    PROVE  Placed'
  BY DEF Placed

LEMMA PlacedLearn ==
    ASSUME TypeOK, OnceInv, NEW p \in Pod, Learn(p)
    PROVE  Placed'
<1> DEFINE n == node[p]
           e == [pod |-> p, occ |-> Occupancy(p)]
           h == Append(history[n], e)
           z == Len(history[n])
<1>1. n \in Node /\ e \in Measure /\ history' = [history EXCEPT ![n] = h]
  BY LearnIs
<1>2. p \notin seen /\ seen' = seen \cup {p} /\ UNCHANGED node
  BY DEF Learn, ToLearn, Locked, OnceInv, Unlearned, pods
<1>3. e.pod = p
  OBVIOUS
<1> HIDE DEF e
<1>4. history[n] \in Seq(Measure) /\ z \in Nat /\ DOMAIN history[n] = 1 .. z
  BY <1>1 DEF TypeOK
<1>5. /\ h \in Seq(Measure) /\ Len(h) = z + 1
      /\ \A i \in 1 .. z : h[i] = history[n][i]
      /\ h[z + 1] = e
  BY <1>1, <1>4, AppendProperties
<1>6. DOMAIN h = 1 .. z + 1
  BY <1>5
<1> HIDE DEF h, z
<1>7. /\ history'[n] = h
      /\ \A m \in Node \ {n} : history'[m] = history[m]
  BY <1>1 DEF TypeOK
<1>8. \A i \in DOMAIN h : (i \in DOMAIN history[n] /\ h[i] = history[n][i]) \/ (i = z + 1 /\ h[i].pod = p)
  BY <1>3, <1>4, <1>5, <1>6
<1>9. ASSUME NEW m \in Node, NEW i \in DOMAIN history'[m]
      PROVE  history'[m][i].pod \in seen' /\ node'[history'[m][i].pod] = m
  <2>1. CASE m = n
    BY <1>2, <1>7, <1>8, <2>1 DEF OnceInv, Placed
  <2>2. CASE m # n
    BY <1>2, <1>7, <2>2 DEF OnceInv, Placed
  <2> QED BY <2>1, <2>2
<1>10. ASSUME NEW m \in Node, NEW i \in DOMAIN history'[m], NEW j \in DOMAIN history'[m],
              history'[m][i].pod = history'[m][j].pod
       PROVE  i = j
  <2>1. CASE m = n
    <3>1. \A k \in DOMAIN history[n] : history[n][k].pod # p
      BY <1>1, <1>2 DEF OnceInv, Placed
    <3> QED BY <1>1, <1>7, <1>8, <1>10, <2>1, <3>1 DEF OnceInv, Placed
  <2>2. CASE m # n
    BY <1>7, <1>10, <2>2 DEF OnceInv, Placed
  <2> QED BY <2>1, <2>2
<1>11. ASSUME NEW q \in seen' PROVE \E i \in DOMAIN history'[node'[q]] : history'[node'[q]][i].pod = q
  <2>1. CASE q = p
    <3>1. z + 1 \in DOMAIN h /\ h[z + 1].pod = p
      BY <1>3, <1>4, <1>5, <1>6
    <3> QED BY <1>2, <1>7, <2>1, <3>1
  <2>2. CASE q # p
    <3>1. q \in seen /\ q \in Pod /\ node[q] \in Node
      BY <1>2, <2>2 DEF TypeOK
    <3>2. PICK i \in DOMAIN history[node[q]] : history[node[q]][i].pod = q
      BY <3>1 DEF OnceInv, Placed
    <3>3. i \in DOMAIN history'[node[q]] /\ history'[node[q]][i].pod = q
      <4>1. CASE node[q] = n
        BY <1>4, <1>5, <1>6, <1>7, <3>2, <4>1
      <4>2. CASE node[q] # n
        BY <1>7, <3>1, <3>2, <4>2
      <4> QED BY <4>1, <4>2
    <3> QED BY <1>2, <3>3
  <2> QED BY <2>1, <2>2
<1> QED BY <1>9, <1>10, <1>11 DEF Placed

LEMMA OnceStep == TypeOK /\ OnceInv /\ [Next]_vars => OnceInv'
<1> SUFFICES ASSUME TypeOK, OnceInv, [Next]_vars PROVE OnceInv'
  OBVIOUS
<1>1. ASSUME NEW p \in Pod, Learn(p) PROVE OnceInv'
  <2>1. Placed'
    BY <1>1, PlacedLearn
  <2>2. /\ list # NoList /\ list.reading /\ list \in [todo : SUBSET Pod, running : SUBSET Pod, reading : BOOLEAN]
        /\ list' = [list EXCEPT !.todo = @ \ {p}] /\ seen' = seen \cup {p}
    BY <1>1 DEF Learn, ToLearn, Locked, TypeOK
  <2>3. list'.todo = list.todo \ {p}
    BY <2>2
  <2> QED BY <2>1, <2>2, <2>3 DEF OnceInv, Unlearned
<1>2. ASSUME UNCHANGED <<history, seen>>, \A q \in seen : node'[q] = node[q], Unlearned' PROVE OnceInv'
  BY <1>2, PlacedStays DEF OnceInv
<1>3. CASE BeginRead
  <2>1. list \in [todo : SUBSET Pod, running : SUBSET Pod, reading : BOOLEAN]
        /\ list' = [list EXCEPT !.reading = TRUE, !.todo = @ \ seen] /\ UNCHANGED <<history, seen, node>>
    BY <1>3 DEF TypeOK, BeginRead, pods, load
  <2>2. list'.todo = list.todo \ seen
    BY <2>1
  <2> QED BY <1>2, <2>1, <2>2 DEF Unlearned
<1>4. CASE Poll \/ EndRead
  <2>1. UNCHANGED <<history, seen, node>>
    BY <1>4 DEF Poll, EndRead, pods, load
  <2>2. Unlearned'
    BY <1>4 DEF Poll, EndRead, Unlearned
  <2> QED BY <1>2, <2>1, <2>2
<1>5. ASSUME NEW p \in Pod, Raises(p) PROVE OnceInv'
  <2>1. /\ list # NoList /\ list.reading /\ list \in [todo : SUBSET Pod, running : SUBSET Pod, reading : BOOLEAN]
        /\ list' = [list EXCEPT !.todo = @ \ {p}] /\ UNCHANGED <<history, seen, node>>
    BY <1>5 DEF Raises, ToLearn, Locked, TypeOK, pods, load
  <2>2. list'.todo = list.todo \ {p}
    BY <2>1
  <2> QED BY <1>2, <2>1, <2>2 DEF OnceInv, Unlearned
<1>6. CASE Decide \/ \E p \in Pod : PlaceUnseen(p)
  <2>1. UNCHANGED <<history, seen, list>>
    BY <1>6 DEF Decide, PlaceUnseen, load, observer
  <2>2. \A q \in seen : node'[q] = node[q]
    BY <1>6, SeenStay
  <2> QED BY <1>2, <2>1, <2>2 DEF OnceInv, Unlearned
<1>7. CASE UNCHANGED vars \/ \E p \in Pod : Snapshot(p) \/ Finish(p)
  <2>1. UNCHANGED <<history, seen, list, node>>
    BY <1>7 DEF Snapshot, Finish, vars, pods, load, observer
  <2> QED BY <1>2, <2>1 DEF OnceInv, Unlearned
<1> QED BY <1>1, <1>3, <1>4, <1>5, <1>6, <1>7 DEF Next

LEMMA OnceKeeps == TypeOK /\ OnceInv => KeptOnce
<1> SUFFICES ASSUME TypeOK, OnceInv, NEW p \in Pod
             PROVE  Cardinality(Kept(p)) = IF p \in seen THEN 1 ELSE 0
  BY DEF KeptOnce
<1>1. CASE p \notin seen
  <2>1. Kept(p) = {}
    BY <1>1 DEF Kept, OnceInv, Placed
  <2> QED BY <1>1, <2>1, FS_EmptySet
<1>2. CASE p \in seen
  <2>1. node[p] \in Node
    BY <1>2 DEF TypeOK
  <2>2. PICK i \in DOMAIN history[node[p]] : history[node[p]][i].pod = p
    BY <1>2 DEF OnceInv, Placed
  <2>3. <<node[p], i>> \in Kept(p)
    BY <2>1, <2>2 DEF Kept
  <2>4. ASSUME NEW k \in Kept(p) PROVE k = <<node[p], i>>
    <3>1. /\ k \in Node \X UNION {DOMAIN history[n] : n \in Node}
          /\ k[2] \in DOMAIN history[k[1]] /\ history[k[1]][k[2]].pod = p /\ k[1] \in Node
      BY DEF Kept
    <3>2. k[1] = node[p]
      BY <3>1 DEF OnceInv, Placed
    <3>3. k[2] = i
      BY <2>1, <2>2, <3>1, <3>2 DEF OnceInv, Placed
    <3> QED BY <3>1, <3>2, <3>3
  <2>5. Kept(p) = {<<node[p], i>>}
    BY <2>3, <2>4
  <2> QED BY <1>2, <2>5, FS_Singleton
<1> QED BY <1>1, <1>2

\* A pod whose learning raised waits for the next read and one learned from is passed over by the later
\* ones (Cluster.read, kaptain.py:316-330): its runtime is kept on its node, once.
THEOREM RuntimesKeptOnce == Spec => []KeptOnce
<1>1. Init => TypeOK /\ OnceInv
  BY InitTyped, OnceInit
<1>2. (TypeOK /\ OnceInv) /\ [Next]_vars => (TypeOK /\ OnceInv)'
  BY TypedStep, OnceStep
<1> QED BY <1>1, <1>2, OnceKeeps, PTL DEF Spec
=============================================================================
