----------------------------- MODULE CollectorsProofs -----------------------------
(***************************************************************************)
(* A run of kexp for any number of pods, any delay of the watch and        *)
(* wherever it breaks: pods are created as they arrive, each is seen as it *)
(* happens, and the report's figures are true of the run.                  *)
(*                                                                         *)
(* What the watch has said of a pod is in two places, the rows written and *)
(* the events on their way, and a row carries the time it was read. Honest *)
(* says of both that the first event of a kind is the one that was sent    *)
(* when it happened; reading, sending and losing events keep it.           *)
(***************************************************************************)
EXTENDS Collectors, FiniteSetTheorems, SequenceTheorems, TLAPS

Events == [event : {"ADDED", "MODIFIED", "ENDED"}, pod : Nat \cup {Probe, Empty}, node : {Empty, "node"}, time : Nat]

About(p) == {e \in Events : e.pod = p}

Bindings(p) == {e \in Events : e.pod = p /\ e.node # Empty}

Additions == {e \in Events : e.event = "ADDED" /\ e.node = Empty}

Known(s, E) == \E i \in DOMAIN s : s[i] \in E

Starts(s, E, i) == i \in DOMAIN s /\ s[i] \in E /\ \A j \in 1 .. i - 1 : s[j] \notin E

\* The first event of E, among the rows r and the events s on their way, is of G and from the time t.
Honest(r, s, E, G, t) ==
    /\ \A i \in DOMAIN r : Starts(r, E, i) => r[i] \in G /\ r[i].time - t \in 0 .. Delay
    /\ \A i \in DOMAIN s : Starts(s, E, i) /\ ~Known(r, E) => s[i] \in G /\ s[i].time = t

\* Whether an event is of E or G does not hang on its time.
Timeless(E) == E \subseteq Events /\ \A e \in Events, t \in Nat : [e EXCEPT !.time = t] \in E <=> e \in E

LEMMA KindsAreTimeless ==
    ASSUME NEW p
    PROVE  Timeless(About(p)) /\ Timeless(Bindings(p)) /\ Timeless(Additions) /\ Timeless(Events)
<1>1. ASSUME NEW e \in Events, NEW t \in Nat
      PROVE  /\ [e EXCEPT !.time = t] \in Events
             /\ [e EXCEPT !.time = t].event = e.event /\ [e EXCEPT !.time = t].pod = e.pod
             /\ [e EXCEPT !.time = t].node = e.node
  BY DEF Events
<1> QED BY <1>1 DEF Timeless, About, Bindings, Additions

-----------------------------------------------------------------------------
(* Rows and events on their way.                                           *)

\* A lost end of the stream changes no first event.
LEMMA CutHonest ==
    ASSUME NEW r \in Seq(Events), NEW s \in Seq(Events), NEW n \in 0 .. Len(s), NEW E, NEW G, NEW t,
           Honest(r, s, E, G, t)
    PROVE  /\ SubSeq(s, 1, n) \in Seq(Events)
           /\ Honest(r, SubSeq(s, 1, n), E, G, t)
           /\ Known(SubSeq(s, 1, n), E) => Known(s, E)
<1> DEFINE c == SubSeq(s, 1, n)
<1>1. /\ c \in Seq(Events) /\ Len(c) = n /\ \A i \in 1 .. n : c[i] = s[i]
  <2>1. \A i \in 1 .. n : s[i] \in Events
    BY ElementOfSeq
  <2> QED BY <2>1, SubSeqProperties
<1>2. DOMAIN c = 1 .. n /\ DOMAIN s = 1 .. Len(s) /\ Len(s) \in Nat
  BY <1>1, LenProperties
<1> HIDE DEF c
<1>3. ASSUME NEW i \in DOMAIN c, Starts(c, E, i)
      PROVE  Starts(s, E, i) /\ c[i] = s[i]
  BY <1>1, <1>2, <1>3 DEF Starts
<1>4. Known(c, E) => Known(s, E)
  BY <1>1, <1>2 DEF Known
<1>5. Honest(r, c, E, G, t)
  BY <1>2, <1>3 DEF Honest, Starts
<1> QED BY <1>1, <1>4, <1>5 DEF c

\* What is sent leaves the first event first; it is the first itself only when there was none.
LEMMA SendHonest ==
    ASSUME NEW r \in Seq(Events), NEW s \in Seq(Events), NEW e \in Seq(Events), NEW E, NEW G, NEW t,
           Honest(r, s, E, G, t),
           \/ Known(r, E) \/ Known(s, E)
           \/ \A i \in DOMAIN e : e[i] \in E => e[i] \in G /\ e[i].time = t
    PROVE  /\ s \o e \in Seq(Events)
           /\ Honest(r, s \o e, E, G, t)
           /\ Known(s \o e, E) <=> Known(s, E) \/ Known(e, E)
<1> DEFINE w == s \o e
<1>1. /\ w \in Seq(Events) /\ Len(w) = Len(s) + Len(e)
      /\ \A i \in 1 .. Len(s) + Len(e) : w[i] = IF i <= Len(s) THEN s[i] ELSE e[i - Len(s)]
  BY ConcatProperties
<1>2. /\ DOMAIN w = 1 .. Len(s) + Len(e) /\ DOMAIN s = 1 .. Len(s) /\ DOMAIN e = 1 .. Len(e)
      /\ Len(s) \in Nat /\ Len(e) \in Nat
  BY <1>1, LenProperties
<1> HIDE DEF w
<1>3. Known(w, E) <=> Known(s, E) \/ Known(e, E)
  <2>1. ASSUME NEW i \in DOMAIN e, e[i] \in E PROVE Known(w, E)
    <3>1. i + Len(s) \in DOMAIN w /\ w[i + Len(s)] = e[i]
      BY <1>1, <1>2
    <3> QED BY <2>1, <3>1 DEF Known
  <2>2. ASSUME NEW i \in DOMAIN s, s[i] \in E PROVE Known(w, E)
    <3>1. i \in DOMAIN w /\ w[i] = s[i]
      BY <1>1, <1>2
    <3> QED BY <2>2, <3>1 DEF Known
  <2>3. ASSUME NEW i \in DOMAIN w, w[i] \in E PROVE Known(s, E) \/ Known(e, E)
    <3>1. CASE i <= Len(s)
      BY <1>1, <1>2, <2>3, <3>1 DEF Known
    <3>2. CASE i > Len(s)
      <4>1. i - Len(s) \in DOMAIN e /\ e[i - Len(s)] = w[i]
        BY <1>1, <1>2, <3>2
      <4> QED BY <2>3, <4>1 DEF Known
    <3> QED BY <1>2, <3>1, <3>2
  <2> QED BY <2>1, <2>2, <2>3 DEF Known
<1>4. ASSUME NEW i \in DOMAIN w, Starts(w, E, i), ~Known(r, E)
      PROVE  w[i] \in G /\ w[i].time = t
  <2>1. CASE i <= Len(s)
    <3>1. Starts(s, E, i) /\ w[i] = s[i]
      BY <1>1, <1>2, <1>4, <2>1 DEF Starts
    <3> QED BY <1>4, <3>1 DEF Honest, Starts
  <2>2. CASE i > Len(s)
    <3>1. ~Known(s, E)
      <4>1. ASSUME NEW j \in DOMAIN s PROVE s[j] \notin E
        <5>1. j \in 1 .. i - 1 /\ w[j] = s[j]
          BY <1>1, <1>2, <2>2
        <5> QED BY <1>4, <5>1 DEF Starts
      <4> QED BY <4>1 DEF Known
    <3>2. i - Len(s) \in DOMAIN e /\ e[i - Len(s)] = w[i]
      BY <1>1, <1>2, <2>2
    <3> QED BY <1>4, <3>1, <3>2 DEF Starts
  <2> QED BY <1>2, <2>1, <2>2
<1>5. Honest(r, w, E, G, t)
  BY <1>4 DEF Honest
<1> QED BY <1>1, <1>3, <1>5 DEF w

\* A row that is not of the kind changes nothing.
LEMMA NoteHonest ==
    ASSUME NEW r \in Seq(Events), NEW s, NEW e \in Events, NEW E, NEW G, NEW t,
           Honest(r, s, E, G, t), e \notin E
    PROVE  Honest(Append(r, e), s, E, G, t) /\ (Known(Append(r, e), E) <=> Known(r, E))
<1> DEFINE w == Append(r, e)
<1>1. /\ Len(w) = Len(r) + 1 /\ \A i \in 1 .. Len(r) : w[i] = r[i]
      /\ w[Len(r) + 1] = e /\ w \in Seq(Events)
  BY AppendProperties
<1>2. DOMAIN w = 1 .. Len(r) + 1 /\ DOMAIN r = 1 .. Len(r) /\ Len(r) \in Nat
  BY <1>1, LenProperties
<1> HIDE DEF w
<1>3. Known(w, E) <=> Known(r, E)
  BY <1>1, <1>2 DEF Known
<1>4. ASSUME NEW i \in DOMAIN w, Starts(w, E, i)
      PROVE  Starts(r, E, i) /\ w[i] = r[i]
  BY <1>1, <1>2, <1>4 DEF Starts
<1>5. Honest(w, s, E, G, t)
  BY <1>3, <1>4 DEF Honest, Starts
<1> QED BY <1>3, <1>5 DEF w

\* An event that is not of the kind may be dropped.
LEMMA DropHonest ==
    ASSUME NEW r, NEW s \in Seq(Events), s # <<>>, NEW E, NEW G, NEW t,
           Honest(r, s, E, G, t), Head(s) \notin E
    PROVE  Honest(r, Tail(s), E, G, t) /\ (Known(Tail(s), E) <=> Known(s, E))
<1> DEFINE w == Tail(s)
<1>1. w \in Seq(Events) /\ Len(w) = Len(s) - 1 /\ \A i \in 1 .. Len(w) : w[i] = s[i + 1]
  BY HeadTailProperties
<1>2. DOMAIN w = 1 .. Len(s) - 1 /\ DOMAIN s = 1 .. Len(s) /\ Len(s) \in Nat /\ Len(s) > 0 /\ Head(s) = s[1]
  BY <1>1, LenProperties, EmptySeq
<1> HIDE DEF w
<1>3. Known(w, E) <=> Known(s, E)
  <2>1. ASSUME NEW i \in DOMAIN s, s[i] \in E PROVE Known(w, E)
    <3>1. i - 1 \in DOMAIN w /\ w[i - 1] = s[i]
      BY <1>1, <1>2, <2>1
    <3> QED BY <2>1, <3>1 DEF Known
  <2>2. ASSUME NEW i \in DOMAIN w, w[i] \in E PROVE Known(s, E)
    <3>1. i + 1 \in DOMAIN s /\ w[i] = s[i + 1]
      BY <1>1, <1>2, <2>2
    <3> QED BY <2>2, <3>1 DEF Known
  <2> QED BY <2>1, <2>2 DEF Known
<1>4. ASSUME NEW i \in DOMAIN w, Starts(w, E, i)
      PROVE  Starts(s, E, i + 1) /\ w[i] = s[i + 1]
  <2>1. i + 1 \in DOMAIN s /\ w[i] = s[i + 1] /\ s[i + 1] \in E
    BY <1>1, <1>2, <1>4 DEF Starts
  <2>2. ASSUME NEW j \in 1 .. i PROVE s[j] \notin E
    <3>1. CASE j = 1
      BY <1>2, <3>1
    <3>2. CASE j # 1
      <4>1. j - 1 \in 1 .. i - 1 /\ w[j - 1] = s[j]
        BY <1>1, <1>2, <1>4, <3>2 DEF Starts
      <4> QED BY <1>4, <4>1 DEF Starts
    <3> QED BY <3>1, <3>2
  <2> QED BY <1>2, <2>1, <2>2 DEF Starts
<1>5. Honest(r, w, E, G, t)
  BY <1>2, <1>4 DEF Honest, Starts
<1> QED BY <1>3, <1>5 DEF w

\* The head is written with the time it is read at.
LEMMA ReadHonest ==
    ASSUME NEW r \in Seq(Events), NEW s \in Seq(Events), s # <<>>, NEW E, NEW G, NEW t \in Nat, NEW n \in Nat,
           Timeless(E), Timeless(G), Honest(r, s, E, G, t), n - Head(s).time \in 0 .. Delay
    PROVE  LET e == [Head(s) EXCEPT !.time = n]
           IN  /\ e \in Events
               /\ Honest(Append(r, e), Tail(s), E, G, t)
               /\ Known(Append(r, e), E) \/ Known(Tail(s), E) <=> Known(r, E) \/ Known(s, E)
<1> DEFINE h == Head(s)
           e == [h EXCEPT !.time = n]
           w == Append(r, e)
<1>1. h \in Events /\ h = s[1] /\ 1 \in DOMAIN s
  BY HeadTailProperties, EmptySeq, LenProperties
<1>2. e \in Events /\ e.time = n
  BY <1>1 DEF Events
<1>3. (e \in E <=> h \in E) /\ (e \in G <=> h \in G)
  BY <1>1 DEF Timeless
<1>4. CASE h \notin E
  <2>1. Honest(r, Tail(s), E, G, t) /\ (Known(Tail(s), E) <=> Known(s, E))
    BY <1>4, DropHonest
  <2>2. Honest(w, Tail(s), E, G, t) /\ (Known(w, E) <=> Known(r, E))
    BY <1>2, <1>3, <1>4, <2>1, NoteHonest
  <2> QED BY <1>2, <2>1, <2>2
<1>5. CASE h \in E
  <2>1. /\ Len(w) = Len(r) + 1 /\ \A i \in 1 .. Len(r) : w[i] = r[i]
        /\ w[Len(r) + 1] = e /\ w \in Seq(Events)
    BY <1>2, AppendProperties
  <2>2. DOMAIN w = 1 .. Len(r) + 1 /\ DOMAIN r = 1 .. Len(r) /\ Len(r) \in Nat
    BY <2>1, LenProperties
  <2> HIDE DEF w, e, h
  <2>3. Known(w, E) /\ Known(s, E)
    BY <1>1, <1>3, <1>5, <2>1, <2>2 DEF Known
  <2>4. ASSUME NEW i \in DOMAIN w, Starts(w, E, i)
        PROVE  w[i] \in G /\ w[i].time - t \in 0 .. Delay
    <3>1. CASE i <= Len(r)
      <4>1. Starts(r, E, i) /\ w[i] = r[i]
        BY <2>1, <2>2, <2>4, <3>1 DEF Starts
      <4> QED BY <4>1 DEF Honest, Starts
    <3>2. CASE i = Len(r) + 1
      <4>1. ~Known(r, E)
        <5>1. ASSUME NEW j \in DOMAIN r PROVE r[j] \notin E
          BY <2>1, <2>2, <2>4, <3>2 DEF Starts
        <5> QED BY <5>1 DEF Known
      <4>2. Starts(s, E, 1)
        BY <1>1, <1>5 DEF Starts
      <4>3. h \in G /\ h.time = t
        BY <1>1, <4>1, <4>2 DEF Honest
      <4> QED BY <1>2, <1>3, <2>1, <3>2, <4>3 DEF h
    <3> QED BY <2>2, <3>1, <3>2
  <2>5. Honest(w, Tail(s), E, G, t)
    BY <2>3, <2>4 DEF Honest
  <2> QED BY <1>2, <2>3, <2>5 DEF w, e, h
<1> QED BY <1>4, <1>5

-----------------------------------------------------------------------------
(* Something that happens to a pod, and what the watch says of it.         *)

\* It is told, by events of E, if and only if it happened, b, at the time t: at first by one of G. Once the
\* link l is closed it may never be.
Follows(r, s, l, E, G, b, t) ==
    /\ Known(r, E) \/ Known(s, E) => b
    /\ b => Honest(r, s, E, G, t)
    /\ b /\ l # "closed" => Known(r, E) \/ Known(s, E)

LEMMA FollowsCut ==
    ASSUME NEW r \in Seq(Events), NEW s \in Seq(Events), NEW n \in 0 .. Len(s), NEW l, NEW E, NEW G, NEW b \in BOOLEAN,
           NEW t, Follows(r, s, l, E, G, b, t)
    PROVE  Follows(r, SubSeq(s, 1, n), "closed", E, G, b, t)
<1>1. CASE b
  BY <1>1, CutHonest DEF Follows
<1>2. CASE ~b
  <2>1. Honest(r, s, E, G, t)
    BY <1>2 DEF Follows, Honest, Known, Starts
  <2> QED BY <1>2, <2>1, CutHonest DEF Follows
<1> QED BY <1>1, <1>2

LEMMA FollowsNote ==
    ASSUME NEW r \in Seq(Events), NEW s, NEW e \in Events, NEW l, NEW E, NEW G, NEW b \in BOOLEAN, NEW t,
           Follows(r, s, l, E, G, b, t), e \notin E
    PROVE  Follows(Append(r, e), s, l, E, G, b, t)
<1>1. Honest(r, s, E, G, t)
  BY DEF Follows, Honest, Known, Starts
<1> QED BY <1>1, NoteHonest DEF Follows

LEMMA FollowsDrop ==
    ASSUME NEW r, NEW s \in Seq(Events), s # <<>>, NEW l, NEW E, NEW G, NEW b \in BOOLEAN, NEW t,
           Follows(r, s, l, E, G, b, t), Head(s) \notin E
    PROVE  Follows(r, Tail(s), l, E, G, b, t)
<1>1. Honest(r, s, E, G, t)
  BY DEF Follows, Honest, Known, Starts
<1> QED BY <1>1, DropHonest DEF Follows

LEMMA FollowsRead ==
    ASSUME NEW r \in Seq(Events), NEW s \in Seq(Events), s # <<>>, NEW l, NEW E, NEW G, NEW b \in BOOLEAN,
           NEW t \in Nat, NEW n \in Nat, Timeless(E), Timeless(G), Follows(r, s, l, E, G, b, t),
           n - Head(s).time \in 0 .. Delay
    PROVE  Follows(Append(r, [Head(s) EXCEPT !.time = n]), Tail(s), l, E, G, b, t)
<1>1. Honest(r, s, E, G, t)
  BY DEF Follows, Honest, Known, Starts
<1> DEFINE e == [Head(s) EXCEPT !.time = n]
<1>2. /\ Honest(Append(r, e), Tail(s), E, G, t)
      /\ Known(Append(r, e), E) \/ Known(Tail(s), E) <=> Known(r, E) \/ Known(s, E)
  BY <1>1, ReadHonest
<1> QED BY <1>2 DEF Follows

\* Events sent of what happened before, or of nothing of the kind.
LEMMA FollowsSend ==
    ASSUME NEW r \in Seq(Events), NEW s \in Seq(Events), NEW e \in Seq(Events), NEW l, NEW E, NEW G,
           NEW b \in BOOLEAN, NEW t, Follows(r, s, l, E, G, b, t), Known(e, E) => b
    PROVE  Follows(r, IF l = "open" THEN s \o e ELSE s, l, E, G, b, t)
<1>1. CASE l # "open"
  BY <1>1
<1>2. CASE l = "open" /\ b
  <2>1. Honest(r, s, E, G, t) /\ (Known(r, E) \/ Known(s, E))
    BY <1>2 DEF Follows
  <2>2. Honest(r, s \o e, E, G, t) /\ (Known(s \o e, E) <=> Known(s, E) \/ Known(e, E))
    BY <2>1, SendHonest
  <2> QED BY <1>2, <2>1, <2>2 DEF Follows
<1>3. CASE l = "open" /\ ~b
  <2>1. Honest(r, s, E, G, t) /\ ~Known(r, E) /\ ~Known(s, E)
    BY <1>3 DEF Follows, Honest, Known, Starts
  <2>2. \A i \in DOMAIN e : e[i] \in E => e[i] \in G /\ e[i].time = t
    BY <1>3 DEF Known
  <2>3. Known(s \o e, E) <=> Known(s, E) \/ Known(e, E)
    BY <2>1, <2>2, SendHonest
  <2> QED BY <1>3, <2>1, <2>3 DEF Follows
<1> QED BY <1>1, <1>2, <1>3

\* It happens: what is sent of it is of G, and says when.
LEMMA FollowsStart ==
    ASSUME NEW r \in Seq(Events), NEW s \in Seq(Events), NEW e \in Seq(Events), NEW l \in {"open", "closed"},
           NEW E, NEW G, NEW t, NEW u, Follows(r, s, l, E, G, FALSE, u), Known(e, E),
           \A i \in DOMAIN e : e[i] \in E => e[i] \in G /\ e[i].time = t
    PROVE  Follows(r, IF l = "open" THEN s \o e ELSE s, l, E, G, TRUE, t)
<1>1. Honest(r, s, E, G, t) /\ ~Known(r, E) /\ ~Known(s, E)
  BY DEF Follows, Honest, Known, Starts
<1>2. Honest(r, s \o e, E, G, t) /\ (Known(s \o e, E) <=> Known(s, E) \/ Known(e, E))
  BY <1>1, SendHonest
<1> QED BY <1>1, <1>2 DEF Follows

\* SetToSeq lists a finite set.
LEMMA Listing ==
    ASSUME NEW S, IsFiniteSet(S)
    PROVE  /\ SetToSeq(S) \in Seq(S)
           /\ \A x \in S : \E i \in DOMAIN SetToSeq(S) : SetToSeq(S)[i] = x
<1> DEFINE n == Cardinality(S)
           f == SetToSeq(S)
<1>1. n \in Nat /\ ExistsBijection(1 .. n, S)
  BY FS_CardinalityType
<1>2. PICK g : g \in Bijection(1 .. n, S)
  BY <1>1 DEF ExistsBijection
<1>3. g \in [1 .. n -> S] /\ IsInjective(g)
  BY <1>2 DEF Bijection, Injection
<1>4. f \in [1 .. n -> S] /\ IsInjective(f)
  BY <1>3 DEF SetToSeq
<1>5. f \in Injection(1 .. n, S)
  BY <1>4 DEF Injection
<1>6. IsFiniteSet(1 .. n) /\ Cardinality(1 .. n) = n
  BY <1>1, FS_Interval
<1>7. f \in Surjection(1 .. n, S)
  <2> HIDE DEF f
  <2> QED BY <1>5, <1>6, FS_Injection
<1>8. \A x \in S : \E i \in 1 .. n : f[i] = x
  <2> HIDE DEF f
  <2> QED BY <1>7 DEF Surjection
<1>9. f \in Seq(S) /\ DOMAIN f = 1 .. n
  <2> HIDE DEF f
  <2> QED BY <1>1, <1>4
<1> QED BY <1>8, <1>9

-----------------------------------------------------------------------------
(* The run.                                                                *)

\* No pod is created before the watch is seen to work, and it says nothing before it is open.
Opening ==
    /\ link = "opening" => stream = <<>> /\ ~opened
    /\ stage = "submitting" \/ Created # {} => opened
    /\ stage \in {"probing", "confirming"} => Created = {}

\* Nothing the watch still has is older than its delay.
Streamed ==
    /\ rows \in Seq(Events) /\ stream \in Seq(Events)
    /\ \A i \in DOMAIN stream : now - stream[i].time \in 0 .. Delay

Followed ==
    \A p \in Pods :
        /\ Follows(rows, stream, link, About(p), Additions, p \in Created, pod[p].created)
        /\ Follows(rows, stream, link, Bindings(p), Events, p \in Placed, pod[p].bound)

Inv == TypeOK /\ Opening /\ Streamed /\ Followed

LEMMA PodsFinite ==
    ASSUME TypeOK
    PROVE  /\ Pods \subseteq Nat /\ IsFiniteSet(Pods) /\ Pods # {}
           /\ now \in Nat /\ Probe \notin Pods /\ Empty \notin Pods
           /\ \A new \in SUBSET Pods : IsFiniteSet(new)
<1>1. arrival \in Seq(Nat) /\ arrival # <<>>
  BY CollectorsAssumption DEF TypeOK
<1>2. Pods = 1 .. Len(arrival) /\ Len(arrival) \in Nat /\ Len(arrival) > 0
  BY <1>1, LenProperties, EmptySeq DEF Pods
<1>3. IsFiniteSet(Pods)
  BY <1>2, FS_Interval
<1>4. now \in Nat
  BY CollectorsAssumption DEF TypeOK
<1>5. Pods \subseteq Nat /\ 1 \in Pods
  BY <1>2
<1>6. Probe \notin Pods /\ Empty \notin Pods
  BY <1>5, CollectorsAssumption
<1>7. \A new \in SUBSET Pods : IsFiniteSet(new)
  BY <1>3, FS_Subset
<1> QED BY <1>3, <1>4, <1>5, <1>6, <1>7

LEMMA EventTyped ==
    ASSUME TypeOK, NEW type \in {"ADDED", "MODIFIED", "ENDED"}, NEW p \in Nat \cup {Probe, Empty},
           NEW node \in {Empty, "node"}
    PROVE  Event(type, p, node) \in Events
BY PodsFinite DEF Event, Events

LEMMA InitInv == Init => Inv
<1> SUFFICES ASSUME Init PROVE Inv
  OBVIOUS
<1>1. Created = {} /\ Placed = {} /\ Finished = {}
  BY DEF Init, Unborn, Created, Placed, Finished, Pods
<1>2. TypeOK
  <2>1. pod \in [Pods -> [phase : Phases, created : Nat, bound : Nat, finished : Nat]]
    BY DEF Init, Unborn, Phases, Pods
  <2>2. now \in 0 .. MaxTime /\ InTime(since)
    BY CollectorsAssumption DEF Init, InTime
  <2>3. waiting = Pods /\ stage = "probing"
    BY DEF Init, Pods
  <2> QED BY <1>1, <2>1, <2>2, <2>3 DEF Init, TypeOK, Stages, Running
<1>3. rows = <<>> /\ stream = <<>> /\ DOMAIN rows = {} /\ DOMAIN stream = {}
  BY DEF Init
<1>4. Opening
  BY <1>1, <1>3 DEF Init, Opening
<1>5. Streamed
  BY <1>3, EmptySeq DEF Streamed
<1>6. Followed
  BY <1>1, <1>3 DEF Followed, Follows, Known
<1> QED BY <1>2, <1>4, <1>5, <1>6 DEF Inv

\* What creating some of the pods that wait does to the pods.
LEMMA CreatesPods ==
    ASSUME TypeOK, stage = "submitting", NEW new \in SUBSET waiting, Creates(new), UNCHANGED <<now, arrival>>
    PROVE  /\ Created' = Created \cup new /\ Placed' = Placed /\ Finished' = Finished
           /\ \A p \in Pods \ new : pod'[p] = pod[p]
           /\ \A p \in new : pod'[p].created = now /\ p \notin Created
           /\ pod' \in [Pods -> [phase : Phases, created : Nat, bound : Nat, finished : Nat]]
<1>1. now \in Nat /\ waiting = Pods \ Created /\ Pods' = Pods
  BY PodsFinite DEF TypeOK, Pods
<1>2. pod' = [p \in Pods |-> IF p \in new THEN [Unborn EXCEPT !.phase = "pending", !.created = now] ELSE pod[p]]
  BY DEF Creates
<1>3. \A p \in new : /\ pod'[p] = [phase |-> "pending", created |-> now, bound |-> 0, finished |-> 0]
                     /\ pod[p].phase = "none"
  BY <1>1, <1>2 DEF Unborn, Created
<1>4. \A p \in Pods \ new : pod'[p] = pod[p]
  BY <1>2
<1>5. pod' \in [Pods -> [phase : Phases, created : Nat, bound : Nat, finished : Nat]]
  <2>1. \A p \in Pods : pod'[p] \in [phase : Phases, created : Nat, bound : Nat, finished : Nat]
    BY <1>1, <1>3, <1>4 DEF TypeOK, Phases
  <2>2. pod' = [p \in Pods |-> pod'[p]]
    BY <1>2
  <2> QED BY <2>1, <2>2
<1>6. Created' = Created \cup new /\ Placed' = Placed /\ Finished' = Finished
  BY <1>1, <1>3, <1>4 DEF Created, Placed, Finished
<1> QED BY <1>1, <1>3, <1>4, <1>5, <1>6

\* Each pod's state goes only one way.
PodsGo ==
    /\ Pods' = Pods /\ arrival' = arrival /\ now' \in now .. MaxTime
    /\ pod' \in [Pods -> [phase : Phases, created : Nat, bound : Nat, finished : Nat]]
    /\ Created \subseteq Created' /\ Placed \subseteq Placed' /\ Finished \subseteq Finished'
    /\ \A p \in Pods :
          /\ p \in Created => pod'[p].created = pod[p].created
          /\ p \in Placed => pod'[p].bound = pod[p].bound
          /\ p \in Finished => pod'[p].finished = pod[p].finished /\ pod'[p].phase = pod[p].phase
          /\ p \in Created' \ Created => pod'[p].created = now
          /\ p \in Placed' \ Placed => pod'[p].bound = now /\ p \in Created
          /\ p \in Finished' \ Finished => pod'[p].finished = now /\ p \in Placed

LEMMA PodsStay ==
    ASSUME TypeOK, UNCHANGED <<arrival, pod>>, now' \in now .. MaxTime
    PROVE  PodsGo /\ Created' = Created /\ Placed' = Placed /\ Finished' = Finished
BY DEF TypeOK, PodsGo, Pods, Created, Placed, Finished

\* A pod that is bound or finishes stays created.
LEMMA MovesPod ==
    ASSUME TypeOK, NEW q \in Pods, Bind(q) \/ Finish(q)
    PROVE  PodsGo /\ Created' = Created
<1>1. now \in Nat /\ now \in now .. MaxTime
  BY PodsFinite DEF TypeOK
<1>2. /\ pod \in [Pods -> [phase : Phases, created : Nat, bound : Nat, finished : Nat]]
      /\ {"bound", "succeeded", "failed"} \subseteq Phases
  BY DEF TypeOK, Phases
<1>3. ASSUME NEW p \in Pods, Bind(p)
      PROVE  PodsGo /\ Created' = Created
  <2>1. /\ pod' = [pod EXCEPT ![p].phase = "bound", ![p].bound = now] /\ pod[p].phase = "pending"
        /\ arrival' = arrival /\ now' = now
    BY <1>3 DEF Bind
  <2>2. \A r \in Pods \ {p} : pod'[r] = pod[r]
    BY <1>2, <2>1
  <2>3. /\ pod'[p].phase = "bound" /\ pod'[p].bound = now /\ pod'[p].created = pod[p].created
        /\ pod' \in [Pods -> [phase : Phases, created : Nat, bound : Nat, finished : Nat]]
    BY <1>1, <1>2, <2>1
  <2>4. Created' = Created /\ Placed' = Placed \cup {p} /\ Finished' = Finished /\ p \in Created
        /\ p \notin Placed /\ p \notin Finished /\ Pods' = Pods
    BY <2>1, <2>2, <2>3 DEF Created, Placed, Finished, Pods
  <2> QED BY <1>1, <2>1, <2>2, <2>3, <2>4 DEF PodsGo
<1>4. ASSUME NEW p \in Pods, Finish(p)
      PROVE  PodsGo /\ Created' = Created
  <2>1. PICK phase \in {"succeeded", "failed"} :
           pod' = [pod EXCEPT ![p].phase = phase, ![p].finished = now]
    BY <1>4 DEF Finish
  <2>2. pod[p].phase = "bound" /\ arrival' = arrival /\ now' = now
    BY <1>4 DEF Finish
  <2>3. \A r \in Pods \ {p} : pod'[r] = pod[r]
    BY <1>2, <2>1
  <2>4. /\ pod'[p].phase = phase /\ pod'[p].finished = now /\ pod'[p].created = pod[p].created
        /\ pod'[p].bound = pod[p].bound
        /\ pod' \in [Pods -> [phase : Phases, created : Nat, bound : Nat, finished : Nat]]
    BY <1>1, <1>2, <2>1
  <2>5. Created' = Created /\ Placed' = Placed /\ Finished' = Finished \cup {p} /\ p \in Placed
        /\ p \notin Finished /\ Pods' = Pods
    BY <2>1, <2>2, <2>3, <2>4 DEF Created, Placed, Finished, Pods
  <2> QED BY <1>1, <2>2, <2>3, <2>4, <2>5 DEF PodsGo
<1> QED BY <1>3, <1>4

LEMMA NextPods ==
    ASSUME TypeOK, Next
    PROVE  PodsGo /\ (Created' # Created => stage = "submitting")
<1>1. now \in Nat /\ now \in now .. MaxTime
  BY PodsFinite DEF TypeOK
<1>2. CASE Tick
  <2>1. now' \in now .. MaxTime
    BY <1>1, <1>2, CollectorsAssumption DEF Tick
  <2> QED BY <1>2, <2>1, PodsStay DEF Tick
<1>3. ASSUME NEW p \in Pods, Bind(p) \/ Finish(p)
      PROVE  PodsGo /\ Created' = Created
  BY <1>3, MovesPod
<1>4. ASSUME stage = "submitting", NEW new \in SUBSET waiting, Creates(new), UNCHANGED <<now, arrival>>
      PROVE  PodsGo
  BY <1>1, <1>4, CreatesPods DEF PodsGo, Pods, Created, Placed, Finished
<1>5. CASE Submits
  BY <1>4, <1>5 DEF Submits, Due
<1>6. CASE CallRaises
  <2>1. CASE pod' = pod
    BY <1>1, <1>6, <2>1, PodsStay DEF CallRaises
  <2>2. CASE stage = "submitting" /\ \E new \in SUBSET Due : Creates(new)
    BY <1>4, <1>6, <2>2 DEF CallRaises, Due
  <2> QED BY <1>6, <2>1, <2>2 DEF CallRaises
<1>7. ASSUME UNCHANGED <<now, arrival, pod>>
      PROVE  PodsGo /\ Created' = Created
  BY <1>1, <1>7, PodsStay
<1>8. CASE Opens \/ Breaks \/ ReadsEvent \/ ReaderEnds
  BY <1>7, <1>8 DEF Opens, Breaks, ReadsEvent, ReaderEnds
<1>9. CASE \E n \in Nodes : Asks(n) \/ Answers(n) \/ SamplerEnds(n)
  BY <1>7, <1>9 DEF Asks, Answers, SamplerEnds
<1>10. CASE CreatesProbe \/ Confirms \/ GivesUpWatch \/ Completes \/ TimesOut
  BY <1>7, <1>10 DEF CreatesProbe, Confirms, GivesUpWatch, Completes, TimesOut
<1>11. CASE JoinsSamplers \/ JoinsWatcher \/ Collects \/ Reports \/ Cancelled
  BY <1>7, <1>11 DEF JoinsSamplers, JoinsWatcher, Collects, Reports, Cancelled
<1>12. CASE Submits
  BY <1>5, <1>12 DEF Submits
<1>13. CASE CallRaises /\ Created' # Created
  <2>1. pod' # pod
    BY <1>13 DEF CallRaises, Created, Pods
  <2> QED BY <1>6, <1>13, <2>1 DEF CallRaises
<1> QED BY <1>2, <1>3, <1>5, <1>6, <1>8, <1>9, <1>10, <1>11, <1>12, <1>13, PodsStay DEF Next, Main, Tick

\* TypeOK but for the pods and the clock.
Rest ==
    /\ link \in {"opening", "open", "closed"}
    /\ opened \in BOOLEAN /\ watcher \in {"reading", "done"}
    /\ sampler \in [Nodes -> {"waiting", "asking", "done"}]
    /\ stage \in Stages /\ InTime(since)
    /\ waiting = CASE stage \in {"probing", "confirming"} -> Pods
                   [] stage = "submitting" -> Pods \ Created
                   [] OTHER -> {}
    /\ status \in {"aborted", "complete", "timeout"} /\ cancelled \in BOOLEAN

LEMMA NextType == Inv /\ [Next]_vars => TypeOK' /\ Opening'
<1> SUFFICES ASSUME Inv, [Next]_vars PROVE TypeOK' /\ Opening'
  OBVIOUS
<1>1. TypeOK /\ Opening
  BY DEF Inv
<1>2. CASE UNCHANGED vars
  <2>1. /\ UNCHANGED <<now, arrival, pod, link, stream, opened, watcher, sampler>>
        /\ UNCHANGED <<stage, since, waiting, status, cancelled>>
    BY <1>2 DEF vars, watch, reader, runner
  <2>2. TypeOK'
    <3>1. Pods' = Pods /\ Created' = Created /\ Placed' = Placed /\ Finished' = Finished
      BY <2>1 DEF Pods, Created, Placed, Finished
    <3> QED BY <1>1, <2>1, <3>1 DEF TypeOK, InTime
  <2>3. Opening'
    BY <1>1, <2>1 DEF Opening, Pods, Created
  <2> QED BY <2>2, <2>3
<1> SUFFICES ASSUME Next PROVE TypeOK' /\ Opening'
  BY <1>2
<1>3. PodsGo /\ (Created' # Created => stage = "submitting") /\ now \in Nat /\ now' \in Nat /\ now <= now'
  <2>1. PodsGo /\ (Created' # Created => stage = "submitting")
    BY <1>1, NextPods
  <2>2. now \in Nat /\ now' \in now .. MaxTime
    BY <1>1, <2>1, PodsFinite DEF PodsGo
  <2> QED BY <2>1, <2>2, CollectorsAssumption
<1>4. now' \in 0 .. MaxTime /\ Pods' = Pods /\ arrival' = arrival
  BY <1>1, <1>3 DEF PodsGo, TypeOK
<1>5. arrival' \in {ArrivalTimes(a) : a \in Experiments}
  BY <1>1, <1>4 DEF TypeOK
<1>6. ASSUME NEW p \in Pods
      PROVE  /\ p \in Created' => pod'[p].created \in 0 .. now'
             /\ p \in Placed' => pod'[p].bound \in pod'[p].created .. now'
             /\ p \in Finished' => pod'[p].finished \in pod'[p].bound .. now'
  <2>1. /\ p \in Created => pod[p].created \in 0 .. now
        /\ p \in Placed => pod[p].bound \in pod[p].created .. now
        /\ p \in Finished => pod[p].finished \in pod[p].bound .. now
        /\ pod[p].created \in Nat /\ pod[p].bound \in Nat /\ pod[p].finished \in Nat
    BY <1>1 DEF TypeOK, InTime
  <2>2. p \in Created' => pod'[p].created \in 0 .. now'
    BY <1>3, <2>1 DEF PodsGo
  <2>3. (p \in Placed => p \in Created) /\ (p \in Finished => p \in Placed)
    BY DEF Placed, Created, Finished
  <2>4. p \in Placed' => pod'[p].bound \in pod'[p].created .. now'
    BY <1>3, <2>1, <2>3 DEF PodsGo
  <2>5. p \in Finished' => pod'[p].finished \in pod'[p].bound .. now'
    BY <1>3, <2>1, <2>3 DEF PodsGo
  <2> QED BY <2>2, <2>4, <2>5
<1>7. Rest' => TypeOK'
  <2>1. pod' \in [Pods -> [phase : Phases, created : Nat, bound : Nat, finished : Nat]]
    BY <1>3 DEF PodsGo
  <2> QED BY <1>4, <1>5, <1>6, <2>1 DEF TypeOK, Rest, InTime
<1>8. Rest
  BY <1>1 DEF TypeOK, Rest
<1>9. InTime(since) => since \in 0 .. now'
  BY <1>3 DEF InTime
<1> SUFFICES Rest' /\ Opening'
  BY <1>7
<1>10. CASE Tick
  <2>1. UNCHANGED <<arrival, pod, link, stream, opened, watcher, sampler, stage, since, waiting, status, cancelled>>
    BY <1>10 DEF Tick, watch, reader, runner
  <2> QED BY <1>1, <1>8, <1>9, <2>1 DEF Rest, InTime, Opening, Pods, Created
<1>11. CASE Opens
  <2>1. UNCHANGED <<now, arrival, pod, opened, watcher, sampler, stage, since, waiting, status, cancelled>> /\ link' = "open"
    BY <1>11 DEF Opens, reader, runner
  <2> QED BY <1>1, <1>8, <2>1 DEF Rest, InTime, Opening, Pods, Created
<1>12. CASE Breaks
  <2>1. UNCHANGED <<now, arrival, pod, opened, watcher, sampler, stage, since, waiting, status, cancelled>> /\ link' = "closed"
    BY <1>12 DEF Breaks, reader, runner
  <2> QED BY <1>1, <1>8, <2>1 DEF Rest, InTime, Opening, Pods, Created
<1>13. CASE \E p \in Pods : Bind(p) \/ Finish(p)
  <2>1. /\ UNCHANGED <<now, arrival, link, opened, watcher, sampler, stage, since, waiting, status, cancelled>>
        /\ link # "open" => stream' = stream
    BY <1>13 DEF Bind, Finish, Sends, reader, runner
  <2>2. stage = "submitting" => Created' = Created
    BY <1>1, <1>13 DEF Bind, Finish, TypeOK, Created, Pods
  <2>3. Created' = Created
    BY <1>3, <2>2
  <2> QED BY <1>1, <1>4, <1>8, <2>1, <2>3 DEF Rest, InTime, Opening
<1>14. CASE ReadsEvent
  <2>1. /\ UNCHANGED <<now, arrival, pod, link, watcher, sampler, stage, since, waiting, status, cancelled>>
        /\ stream # <<>>
    BY <1>14 DEF ReadsEvent, runner
  <2>2. link # "opening" /\ opened' \in BOOLEAN /\ (opened => opened')
    <3>1. link # "opening"
      BY <1>1, <2>1 DEF Opening
    <3>2. opened' = opened \/ opened' = TRUE
      BY <1>14 DEF ReadsEvent
    <3>3. opened \in BOOLEAN
      BY <1>8 DEF Rest
    <3>4. CASE opened' = opened
      BY <3>1, <3>3, <3>4
    <3>5. CASE opened' = TRUE
      BY <3>1, <3>5
    <3> QED BY <3>2, <3>4, <3>5
  <2>3. Rest'
    BY <1>8, <2>1, <2>2 DEF Rest, InTime, Pods, Created
  <2>4. Opening'
    BY <1>1, <2>1, <2>2 DEF Opening, Pods, Created
  <2> QED BY <2>3, <2>4
<1>15. CASE ReaderEnds
  <2>1. /\ UNCHANGED <<now, arrival, pod, link, stream, opened, sampler, stage, since, waiting, status, cancelled>>
        /\ watcher' = "done"
    BY <1>15 DEF ReaderEnds, watch, runner
  <2> QED BY <1>1, <1>8, <2>1 DEF Rest, InTime, Opening, Pods, Created
<1>16. CASE \E n \in Nodes : Asks(n) \/ Answers(n) \/ SamplerEnds(n)
  <2>1. PICK n \in Nodes, x \in {"waiting", "asking", "done"} : sampler' = [sampler EXCEPT ![n] = x]
    BY <1>16 DEF Asks, Answers, SamplerEnds
  <2>2. UNCHANGED <<now, arrival, pod, link, stream, opened, watcher, stage, since, waiting, status, cancelled>>
    BY <1>16 DEF Asks, Answers, SamplerEnds, watch, reader, runner
  <2>3. sampler' \in [Nodes -> {"waiting", "asking", "done"}]
    BY <1>8, <2>1 DEF Rest
  <2> QED BY <1>1, <1>8, <2>2, <2>3 DEF Rest, InTime, Opening, Pods, Created
<1>17. ASSUME NEW next, GoesTo(next), now' = now
       PROVE  stage' = next /\ InTime(since)'
  BY <1>3, <1>17 DEF GoesTo, InTime
<1>18. CASE CreatesProbe
  <2>1. /\ UNCHANGED <<now, arrival, pod, link, opened, watcher, sampler, waiting, status, cancelled>>
        /\ stage = "probing" /\ GoesTo("confirming") /\ (link # "open" => stream' = stream)
    BY <1>18 DEF CreatesProbe, Sends, reader
  <2>2. stage' = "confirming" /\ InTime(since)' /\ Created' = Created
    BY <1>17, <2>1 DEF Pods, Created
  <2>3. Rest'
    BY <1>4, <1>8, <2>1, <2>2 DEF Rest, Stages, Running
  <2>4. Opening'
    BY <1>1, <2>1, <2>2 DEF Opening
  <2> QED BY <2>3, <2>4
<1>19. CASE Confirms
  <2>1. /\ UNCHANGED <<now, arrival, pod, link, stream, opened, watcher, sampler, waiting, status, cancelled>>
        /\ stage = "confirming" /\ GoesTo("submitting") /\ opened
    BY <1>19 DEF Confirms, watch, reader
  <2> QED BY <1>1, <1>8, <1>17, <2>1 DEF Rest, Opening, Pods, Created, Stages, Running
<1>20. CASE GivesUpWatch \/ Completes \/ TimesOut
  <2>1. /\ UNCHANGED <<now, arrival, pod, link, stream, opened, watcher, sampler, cancelled>>
        /\ GoesTo("joining") /\ waiting' = {} /\ status' \in {status, "complete", "timeout"}
    BY <1>20 DEF GivesUpWatch, Completes, TimesOut, Leaves, watch, reader
  <2> QED BY <1>1, <1>8, <1>17, <2>1 DEF Rest, Opening, Pods, Created, Stages
<1>21. CASE Submits
  <2>1. /\ UNCHANGED <<now, arrival, link, opened, watcher, sampler, status, cancelled>>
        /\ stage = "submitting" /\ Creates(Due) /\ waiting' = waiting \ Due
        /\ IF waiting' = {} THEN GoesTo("waiting") ELSE UNCHANGED <<stage, since>>
        /\ link # "open" => stream' = stream
    BY <1>21 DEF Submits, Creates, Sends, reader
  <2>2. Created' = Created \cup Due
    BY <1>1, <2>1, CreatesPods DEF Due
  <2>3. waiting = Pods \ Created /\ opened
    BY <1>1, <1>8, <2>1 DEF Rest, Opening
  <2>4. waiting' = Pods \ Created'
    BY <2>1, <2>2, <2>3
  <2>5. InTime(since)' /\ (stage' = "submitting" \/ (stage' = "waiting" /\ waiting' = {}))
    <3>1. CASE waiting' = {}
      BY <1>17, <2>1, <3>1
    <3>2. CASE waiting' # {}
      <4>1. UNCHANGED <<now, stage, since>> /\ stage = "submitting"
        BY <2>1, <3>2
      <4> QED BY <1>8, <4>1 DEF InTime, Rest
    <3> QED BY <3>1, <3>2
  <2>6. Rest'
    BY <1>4, <1>8, <2>1, <2>4, <2>5 DEF Rest, Stages, Running
  <2>7. Opening'
    BY <1>1, <2>1, <2>3, <2>5 DEF Opening
  <2> QED BY <2>6, <2>7
<1>22. CASE CallRaises
  <2>1. /\ UNCHANGED <<now, arrival, link, opened, watcher, sampler, status, cancelled>>
        /\ GoesTo("joining") /\ waiting' = {} /\ (link # "open" => stream' = stream)
    BY <1>22 DEF CallRaises, Leaves, Creates, Sends, reader
  <2>2. Created' # {} => opened
    BY <1>1, <1>3 DEF Opening
  <2> QED BY <1>1, <1>8, <1>17, <2>1, <2>2 DEF Rest, Opening, Stages, Running
<1>23. CASE JoinsSamplers
  <2>1. /\ UNCHANGED <<now, arrival, pod, opened, watcher, sampler, waiting, status, cancelled>>
        /\ link' = "closed" /\ stage = "joining" /\ GoesTo("closing")
    BY <1>23 DEF JoinsSamplers, reader
  <2> QED BY <1>1, <1>8, <1>17, <2>1 DEF Rest, Opening, Pods, Created, Stages
<1>24. CASE JoinsWatcher \/ Collects \/ Reports
  <2>1. /\ UNCHANGED <<now, arrival, pod, link, stream, opened, watcher, sampler, waiting, status, cancelled>>
        /\ stage \in {"closing", "collecting", "reporting"}
        /\ \E next \in {"collecting", "reporting", "over"} : GoesTo(next)
    BY <1>24 DEF JoinsWatcher, Collects, Reports, watch, reader
  <2> QED BY <1>1, <1>8, <1>17, <2>1 DEF Rest, Opening, Pods, Created, Stages
<1>25. CASE Cancelled
  <2>1. /\ UNCHANGED <<now, arrival, pod, link, stream, opened, watcher, sampler>>
        /\ cancelled' = TRUE /\ status' \in {status, "aborted"}
    <3>1. status' \in {status, "aborted"}
      BY <1>25 DEF Cancelled
    <3> QED BY <1>25, <3>1 DEF Cancelled, watch, reader
  <2>2. /\ GoesTo("joining") \/ GoesTo("collecting") \/ GoesTo("over")
        /\ \/ waiting' = {}
           \/ waiting' = waiting /\ stage \in {"joining", "closing", "collecting", "reporting"}
    <3>1. CASE stage \in Running /\ Leaves
      <4>1. GoesTo("joining") /\ waiting' = {}
        BY <3>1 DEF Leaves
      <4> QED BY <4>1
    <3>2. CASE stage \in {"joining", "closing"} /\ GoesTo("collecting") /\ UNCHANGED waiting
      BY <3>2
    <3>3. CASE stage \in {"collecting", "reporting"} /\ GoesTo("over") /\ UNCHANGED waiting
      BY <3>3
    <3> QED BY <1>25, <3>1, <3>2, <3>3 DEF Cancelled
  <2>3. /\ stage' \in {"joining", "collecting", "over"} /\ InTime(since)' /\ Created' = Created
        /\ waiting' = {}
    BY <1>8, <1>17, <2>1, <2>2 DEF Pods, Created, Rest
  <2>4. Rest'
    BY <1>8, <2>1, <2>3 DEF Rest, Stages
  <2>5. Opening'
    BY <1>1, <2>1, <2>3 DEF Opening
  <2> QED BY <2>4, <2>5
<1> QED BY <1>10, <1>11, <1>12, <1>13, <1>14, <1>15, <1>16, <1>18, <1>19, <1>20, <1>21, <1>22, <1>23, <1>24, <1>25
        DEF Next, Main

\* What is sent when some of the pods are created.
LEMMA Announced ==
    ASSUME TypeOK, NEW new \in SUBSET Pods
    PROVE  LET order == SetToSeq(new)
               e     == [i \in DOMAIN order |-> Event("ADDED", order[i], Empty)]
           IN  /\ e \in Seq(Events)
               /\ \A i \in DOMAIN e : e[i] \in Additions /\ e[i].pod \in new /\ e[i].time = now
               /\ \A p \in new : Known(e, About(p))
<1> DEFINE order == SetToSeq(new)
           e     == [i \in DOMAIN order |-> Event("ADDED", order[i], Empty)]
<1>1. order \in Seq(new) /\ \A x \in new : \E i \in DOMAIN order : order[i] = x
  BY PodsFinite, Listing
<1>2. DOMAIN order = 1 .. Len(order) /\ Len(order) \in Nat /\ \A i \in DOMAIN order : order[i] \in new
  <2> HIDE DEF order
  <2> QED BY <1>1, LenProperties, ElementOfSeq
<1> HIDE DEF order
<1>3. ASSUME NEW i \in DOMAIN order
      PROVE  /\ e[i] = Event("ADDED", order[i], Empty) /\ e[i] \in Events
             /\ e[i].event = "ADDED" /\ e[i].node = Empty /\ e[i].pod = order[i] /\ e[i].time = now
  <2>1. order[i] \in Nat \cup {Probe, Empty}
    BY <1>2, PodsFinite
  <2>2. Event("ADDED", order[i], Empty) \in Events
    BY <2>1, EventTyped
  <2> QED BY <2>2 DEF Event
<1>4. DOMAIN e = DOMAIN order
  OBVIOUS
<1>5. e \in Seq(Events)
  <2>1. e \in [1 .. Len(order) -> Events]
    BY <1>2, <1>3
  <2> QED BY <1>2, <2>1, SeqDef
<1>6. \A i \in DOMAIN e : e[i] \in Additions /\ e[i].pod \in new /\ e[i].time = now
  BY <1>2, <1>3, <1>4 DEF Additions
<1>7. ASSUME NEW p \in new PROVE Known(e, About(p))
  <2>1. PICK i \in DOMAIN order : order[i] = p
    BY <1>1
  <2>2. e[i] \in About(p)
    BY <1>3, <2>1 DEF About
  <2> QED BY <1>4, <2>1, <2>2 DEF Known
<1> QED BY <1>5, <1>6, <1>7 DEF order

\* The watch opens before there are pods: it starts with nothing, or with the probe.
LEMMA OpenedEmpty ==
    ASSUME TypeOK, Opening, Opens
    PROVE  /\ stream' \in Seq(Events) /\ link = "opening" /\ link' = "open" /\ Created = {}
           /\ \A i \in DOMAIN stream' : stream'[i].pod = Probe /\ stream'[i].time = now
<1> DEFINE there == SetToSeq(Created)
           seen  == [i \in DOMAIN there |-> Event("ADDED", there[i], IF there[i] \in Placed THEN "node" ELSE Empty)]
           first == IF stage = "confirming" THEN <<Event("ADDED", Probe, Empty)>> ELSE <<>>
<1>1. link = "opening" /\ link' = "open" /\ stream' = first \o seen
  BY DEF Opens
<1>2. Created = {}
  BY <1>1 DEF Opening
<1>3. there \in Seq({})
  BY <1>2, Listing, FS_EmptySet
<1>4. DOMAIN there = {}
  <2> HIDE DEF there
  <2>1. Len(there) = 0
    BY <1>3, LenProperties, ElementOfSeq
  <2> QED BY <1>3, <2>1, LenProperties
<1>5. seen = <<>>
  <2>1. DOMAIN seen = {} /\ seen \in [1 .. 0 -> Events]
    <3> HIDE DEF there
    <3> QED BY <1>4
  <2>2. seen \in Seq(Events)
    <3> HIDE DEF seen
    <3> QED BY <2>1, SeqDef
  <2>3. Len(seen) = 0
    <3> HIDE DEF seen
    <3> QED BY <2>1, <2>2, LenProperties
  <2> HIDE DEF seen
  <2> QED BY <2>2, <2>3, EmptySeq
<1>6. first \in Seq(Events) /\ \A i \in DOMAIN first : first[i].pod = Probe /\ first[i].time = now
  <2>1. Event("ADDED", Probe, Empty) \in Events
    BY EventTyped
  <2>2. Event("ADDED", Probe, Empty).pod = Probe /\ Event("ADDED", Probe, Empty).time = now
    BY DEF Event
  <2>3. CASE stage = "confirming"
    <3>1. first = <<Event("ADDED", Probe, Empty)>>
      BY <2>3
    <3> HIDE DEF first
    <3> QED BY <2>1, <2>2, <3>1
  <2>4. CASE stage # "confirming"
    BY <2>4
  <2> QED BY <2>3, <2>4
<1>7. stream' = first
  <2> HIDE DEF first, seen
  <2> QED BY <1>1, <1>5, <1>6, ConcatEmptySeq
<1> QED BY <1>1, <1>2, <1>6, <1>7

\* The actions that change neither watch.csv nor the stream.
Quiet ==
    \/ Tick \/ Confirms \/ GivesUpWatch \/ Completes \/ TimesOut \/ JoinsWatcher \/ Collects \/ Reports \/ Cancelled
    \/ \E n \in Nodes : Asks(n) \/ Answers(n) \/ SamplerEnds(n)

\* Those that create pods, if they do.
LEMMA CreatesSome ==
    ASSUME TypeOK, Submits \/ CallRaises
    PROVE  /\ UNCHANGED <<now, arrival, link, rows>>
           /\ \/ UNCHANGED <<pod, stream>>
              \/ stage = "submitting" /\ \E new \in SUBSET waiting : new \subseteq Pods /\ Creates(new)
<1>1. stage = "submitting" => waiting \subseteq Pods
  BY DEF TypeOK
<1>2. CASE Submits
  BY <1>1, <1>2 DEF Submits, Due, reader
<1>3. CASE CallRaises
  <2>1. UNCHANGED <<now, arrival, link, rows>>
    BY <1>3 DEF CallRaises, reader
  <2>2. \/ UNCHANGED <<pod, stream>>
        \/ stage = "submitting" /\ \E new \in SUBSET Due : Creates(new)
    BY <1>3 DEF CallRaises
  <2> QED BY <1>1, <2>1, <2>2 DEF Due
<1> QED BY <1>2, <1>3

LEMMA QuietUnchanged ==
    ASSUME Quiet
    PROVE  UNCHANGED <<link, stream, rows>>
BY DEF Quiet, Tick, Confirms, GivesUpWatch, Completes, TimesOut, JoinsWatcher, Collects, Reports, Cancelled,
       Asks, Answers, SamplerEnds, watch, reader

LEMMA NextStreamed == Inv /\ [Next]_vars => Streamed'
<1> SUFFICES ASSUME Inv, [Next]_vars PROVE Streamed'
  OBVIOUS
<1>1. /\ TypeOK /\ rows \in Seq(Events) /\ stream \in Seq(Events) /\ now \in Nat /\ Delay \in Nat
      /\ DOMAIN stream = 1 .. Len(stream) /\ Len(stream) \in Nat
  BY PodsFinite, CollectorsAssumption, LenProperties DEF Inv, Streamed
<1>2. \A i \in DOMAIN stream : stream[i] \in Events /\ now - stream[i].time \in 0 .. Delay
  BY <1>1, ElementOfSeq DEF Inv, Streamed
<1>3. CASE UNCHANGED <<rows, stream, now>>
  BY <1>3 DEF Inv, Streamed
<1>4. ASSUME NEW e \in Seq(Events), \A i \in DOMAIN e : e[i].time = now, Sends(e), UNCHANGED <<rows, now>>
      PROVE  Streamed'
  <2>1. CASE stream' = stream
    BY <1>3, <1>4, <2>1
  <2>2. CASE stream' = stream \o e
    <3>1. /\ stream' \in Seq(Events) /\ Len(stream') = Len(stream) + Len(e)
          /\ \A i \in 1 .. Len(stream) + Len(e) :
                stream'[i] = IF i <= Len(stream) THEN stream[i] ELSE e[i - Len(stream)]
      BY <1>1, <1>4, <2>2, ConcatProperties
    <3>2. DOMAIN stream' = 1 .. Len(stream) + Len(e) /\ DOMAIN e = 1 .. Len(e) /\ Len(e) \in Nat
      BY <1>4, <3>1, LenProperties
    <3>3. ASSUME NEW i \in DOMAIN stream' PROVE now - stream'[i].time \in 0 .. Delay
      <4>1. CASE i <= Len(stream)
        BY <1>1, <1>2, <3>1, <3>2, <4>1
      <4>2. CASE i > Len(stream)
        <5>1. i - Len(stream) \in DOMAIN e /\ stream'[i] = e[i - Len(stream)]
          BY <1>1, <3>1, <3>2, <4>2
        <5> QED BY <1>1, <1>4, <5>1
      <4> QED BY <1>1, <3>2, <4>1, <4>2
    <3> QED BY <1>1, <1>4, <3>1, <3>3 DEF Streamed
  <2> QED BY <1>4, <2>1, <2>2 DEF Sends
<1>5. CASE Tick
  <2>1. \A i \in DOMAIN stream : now - stream[i].time < Delay
    BY <1>5 DEF Tick
  <2>2. UNCHANGED <<rows, stream>> /\ now' = now + 1
    BY <1>5 DEF Tick, watch, reader
  <2>3. \A i \in DOMAIN stream : now' - stream[i].time \in 0 .. Delay
    BY <1>1, <1>2, <2>1, <2>2 DEF Events
  <2> QED BY <1>1, <2>2, <2>3 DEF Streamed
<1>6. CASE Quiet
  <2>1. Tick \/ now' = now
    BY <1>6 DEF Quiet, Confirms, GivesUpWatch, Completes, TimesOut, JoinsWatcher, Collects, Reports, Cancelled,
                Asks, Answers, SamplerEnds
  <2> QED BY <1>3, <1>5, <1>6, <2>1, QuietUnchanged
<1>7. CASE Opens
  <2>1. UNCHANGED <<rows, now>>
    BY <1>7 DEF Opens, reader
  <2> QED BY <1>1, <1>7, <2>1, OpenedEmpty DEF Inv, Streamed
<1>8. CASE Breaks \/ JoinsSamplers
  <2>1. UNCHANGED <<rows, now>> /\ \E n \in 0 .. Len(stream) : stream' = SubSeq(stream, 1, n)
    BY <1>8 DEF Breaks, JoinsSamplers, reader
  <2>2. PICK n \in 0 .. Len(stream) : stream' = SubSeq(stream, 1, n)
    BY <2>1
  <2>3. stream' \in Seq(Events) /\ Len(stream') = n /\ \A i \in 1 .. n : stream'[i] = stream[i]
    BY <1>1, <1>2, <2>2, SubSeqProperties
  <2>4. \A i \in DOMAIN stream' : i \in DOMAIN stream /\ stream'[i] = stream[i]
    BY <1>1, <2>3, LenProperties
  <2> QED BY <1>1, <1>2, <2>1, <2>3, <2>4 DEF Streamed
<1>9. ASSUME NEW p \in Nat \cup {Probe, Empty}, NEW type \in {"ADDED", "MODIFIED"}, NEW node \in {Empty, "node"},
             Sends(<<Event(type, p, node)>>), UNCHANGED <<rows, now>>
      PROVE  Streamed'
  <2>1. Event(type, p, node) \in Events /\ Event(type, p, node).time = now
    BY <1>1, EventTyped DEF Event
  <2> DEFINE e == <<Event(type, p, node)>>
  <2>2. e \in Seq(Events) /\ \A i \in DOMAIN e : e[i].time = now
    BY <2>1
  <2>3. Sends(e)
    BY <1>9
  <2> HIDE DEF e
  <2> QED BY <1>4, <1>9, <2>2, <2>3
<1>10. CASE CreatesProbe
  BY <1>9, <1>10 DEF CreatesProbe, reader
<1>11. CASE \E p \in Pods : Bind(p) \/ Finish(p)
  <2>1. PICK p \in Pods : Bind(p) \/ Finish(p)
    BY <1>11
  <2>2. p \in Nat
    BY <1>1, PodsFinite
  <2> QED BY <1>9, <2>1, <2>2 DEF Bind, Finish, reader
<1>12. CASE Submits \/ CallRaises
  <2>1. CASE \E new \in SUBSET waiting : new \subseteq Pods /\ Creates(new)
    <3>1. PICK new \in SUBSET Pods : Creates(new)
      BY <2>1
    <3> DEFINE order == SetToSeq(new)
               e     == [i \in DOMAIN order |-> Event("ADDED", order[i], Empty)]
    <3>2. e \in Seq(Events) /\ \A i \in DOMAIN e : e[i].time = now
      BY <1>1, Announced
    <3>3. Sends(e)
      BY <3>1 DEF Creates
    <3> HIDE DEF e
    <3> QED BY <1>1, <1>4, <1>12, <3>2, <3>3, CreatesSome
  <2> QED BY <1>1, <1>3, <1>12, <2>1, CreatesSome
<1>13. CASE ReadsEvent
  <2>1. stream # <<>> /\ stream' = Tail(stream) /\ now' = now
    BY <1>13 DEF ReadsEvent
  <2>2. stream' \in Seq(Events) /\ Len(stream') = Len(stream) - 1 /\ \A i \in 1 .. Len(stream') : stream'[i] = stream[i + 1]
    BY <1>1, <2>1, HeadTailProperties
  <2>3. \A i \in DOMAIN stream' : i + 1 \in DOMAIN stream /\ stream'[i] = stream[i + 1]
    BY <1>1, <2>2, LenProperties
  <2>4. [Head(stream) EXCEPT !.time = now] \in Events
    <3>1. Head(stream) \in Events
      BY <1>1, <2>1, HeadTailProperties
    <3> QED BY <1>1, <3>1 DEF Events
  <2>5. rows' \in Seq(Events)
    <3>1. rows' = rows \/ rows' = Append(rows, [Head(stream) EXCEPT !.time = now])
      BY <1>13 DEF ReadsEvent
    <3>2. Append(rows, [Head(stream) EXCEPT !.time = now]) \in Seq(Events)
      BY <1>1, <2>4, AppendProperties
    <3> QED BY <1>1, <3>1, <3>2
  <2> QED BY <1>2, <2>1, <2>2, <2>3, <2>5 DEF Streamed
<1>14. CASE ReaderEnds
  <2>1. UNCHANGED <<stream, now>> /\ (rows' = rows \/ rows' = Append(rows, Event("ENDED", Empty, Empty)))
    BY <1>14 DEF ReaderEnds, watch
  <2>2. Event("ENDED", Empty, Empty) \in Events
    BY <1>1, EventTyped
  <2>3. rows' \in Seq(Events)
    <3>1. Append(rows, Event("ENDED", Empty, Empty)) \in Seq(Events)
      BY <1>1, <2>2, AppendProperties
    <3> QED BY <1>1, <2>1, <3>1
  <2> QED BY <1>1, <1>2, <2>1, <2>3 DEF Streamed
<1>15. CASE UNCHANGED vars
  BY <1>3, <1>15 DEF vars, watch, reader
<1> QED BY <1>6, <1>7, <1>8, <1>10, <1>11, <1>12, <1>13, <1>14, <1>15 DEF Next, Main, Quiet

LEMMA NextFollowed == Inv /\ [Next]_vars => Followed'
<1> SUFFICES ASSUME Inv, [Next]_vars PROVE Followed'
  OBVIOUS
<1>1. /\ TypeOK /\ Opening /\ rows \in Seq(Events) /\ stream \in Seq(Events) /\ now \in Nat
      /\ link \in {"opening", "open", "closed"}
  BY PodsFinite DEF Inv, Streamed, TypeOK
<1>2. CASE UNCHANGED vars
  <2>1. UNCHANGED <<arrival, pod, link, stream, rows>>
    BY <1>2 DEF vars, watch, reader
  <2> QED BY <2>1 DEF Inv, Followed, Pods, Created, Placed
<1> SUFFICES ASSUME Next PROVE Followed'
  BY <1>2
<1>3. PodsGo
  BY <1>1, NextPods
<1> SUFFICES ASSUME NEW p \in Pods
             PROVE  /\ Follows(rows', stream', link', About(p), Additions, p \in Created', pod'[p].created)
                    /\ Follows(rows', stream', link', Bindings(p), Events, p \in Placed', pod'[p].bound)
  BY <1>3 DEF Followed, PodsGo
<1> DEFINE A(r, s, l) == Follows(r, s, l, About(p), Additions, p \in Created, pod[p].created)
           B(r, s, l) == Follows(r, s, l, Bindings(p), Events, p \in Placed, pod[p].bound)
<1>4. A(rows, stream, link) /\ B(rows, stream, link)
  BY DEF Inv, Followed
<1>5. (p \in Created) \in BOOLEAN /\ (p \in Placed) \in BOOLEAN /\ p # Probe /\ p # Empty
      /\ pod[p].created \in Nat /\ pod[p].bound \in Nat
  BY <1>1, PodsFinite DEF TypeOK
<1>6. Timeless(About(p)) /\ Timeless(Bindings(p)) /\ Timeless(Additions) /\ Timeless(Events)
  BY KindsAreTimeless
<1>7. ASSUME A(rows', stream', link'), p \in Created' <=> p \in Created
      PROVE  Follows(rows', stream', link', About(p), Additions, p \in Created', pod'[p].created)
  <2>1. CASE p \in Created
    BY <1>3, <1>7, <2>1 DEF PodsGo
  <2>2. CASE p \notin Created
    BY <1>7, <2>2 DEF Follows
  <2> QED BY <2>1, <2>2
<1>8. ASSUME B(rows', stream', link'), p \in Placed' <=> p \in Placed
      PROVE  Follows(rows', stream', link', Bindings(p), Events, p \in Placed', pod'[p].bound)
  <2>1. CASE p \in Placed
    BY <1>3, <1>8, <2>1 DEF PodsGo
  <2>2. CASE p \notin Placed
    BY <1>8, <2>2 DEF Follows
  <2> QED BY <2>1, <2>2
<1>9. ASSUME A(rows', stream', link'), B(rows', stream', link'), UNCHANGED <<arrival, pod>>
      PROVE  /\ Follows(rows', stream', link', About(p), Additions, p \in Created', pod'[p].created)
             /\ Follows(rows', stream', link', Bindings(p), Events, p \in Placed', pod'[p].bound)
  <2>1. Created' = Created /\ Placed' = Placed
    BY <1>9 DEF Created, Placed, Pods
  <2> QED BY <1>7, <1>8, <1>9, <2>1
<1>10. CASE Quiet
  <2>1. UNCHANGED <<arrival, pod>>
    BY <1>10 DEF Quiet, Tick, Confirms, GivesUpWatch, Completes, TimesOut, JoinsWatcher, Collects, Reports,
                 Cancelled, Asks, Answers, SamplerEnds
  <2> QED BY <1>4, <1>9, <1>10, <2>1, QuietUnchanged
<1>11. CASE Opens
  <2>1. UNCHANGED <<arrival, pod, rows>>
    BY <1>11 DEF Opens, reader
  <2>2. /\ link = "opening" /\ p \notin Created
        /\ \A i \in DOMAIN stream' : stream'[i].pod = Probe
    BY <1>1, <1>11, OpenedEmpty
  <2>3. ~Known(stream', About(p)) /\ ~Known(stream', Bindings(p)) /\ p \notin Placed
    BY <1>5, <2>2 DEF Known, About, Bindings, Created, Placed
  <2>4. A(rows', stream', link')
    BY <1>4, <2>1, <2>2, <2>3 DEF Follows
  <2>5. B(rows', stream', link')
    BY <1>4, <2>1, <2>3 DEF Follows
  <2> QED BY <1>9, <2>1, <2>4, <2>5
<1>12. CASE Breaks \/ JoinsSamplers
  <2>1. UNCHANGED <<arrival, pod, rows>> /\ link' = "closed"
    BY <1>12 DEF Breaks, JoinsSamplers, reader
  <2>2. PICK n \in 0 .. Len(stream) : stream' = SubSeq(stream, 1, n)
    BY <1>12 DEF Breaks, JoinsSamplers
  <2>3. A(rows', stream', link')
    BY <1>1, <1>4, <1>5, <2>1, <2>2, FollowsCut
  <2>4. B(rows', stream', link')
    BY <1>1, <1>4, <1>5, <2>1, <2>2, FollowsCut
  <2> QED BY <1>9, <2>1, <2>3, <2>4
<1>13. ASSUME NEW e \in Seq(Events), Sends(e), UNCHANGED <<link, rows>>
       PROVE  /\ (Known(e, About(p)) => p \in Created) => A(rows', stream', link')
              /\ (Known(e, Bindings(p)) => p \in Placed) => B(rows', stream', link')
  <2>1. stream' = IF link = "open" THEN stream \o e ELSE stream
    BY <1>13 DEF Sends
  <2>2. (Known(e, About(p)) => p \in Created) => A(rows, IF link = "open" THEN stream \o e ELSE stream, link)
    BY <1>1, <1>4, <1>5, FollowsSend
  <2>3. (Known(e, Bindings(p)) => p \in Placed) => B(rows, IF link = "open" THEN stream \o e ELSE stream, link)
    BY <1>1, <1>4, <1>5, FollowsSend
  <2> QED BY <1>13, <2>1, <2>2, <2>3
<1>14. ASSUME NEW q \in Nat \cup {Probe}, NEW type \in {"ADDED", "MODIFIED"}, NEW node \in {Empty, "node"}
       PROVE  LET e == <<Event(type, q, node)>>
              IN  /\ e \in Seq(Events)
                  /\ Known(e, About(p)) => q = p
                  /\ Known(e, Bindings(p)) => q = p
                  /\ q = p /\ node # Empty => Known(e, Bindings(p))
                  /\ \A i \in DOMAIN e : e[i] \in Events /\ e[i].time = now
  <2> DEFINE x == Event(type, q, node)
             e == <<x>>
  <2>1. x \in Events /\ x.time = now /\ x.pod = q /\ x.node = node
    BY <1>1, EventTyped DEF Event
  <2>2. e \in Seq(Events) /\ DOMAIN e = {1} /\ e[1] = x
    BY <2>1
  <2> HIDE DEF e, x
  <2>3. Known(e, About(p)) => q = p
    BY <2>1, <2>2 DEF Known, About
  <2>4. Known(e, Bindings(p)) => q = p
    BY <2>1, <2>2 DEF Known, Bindings
  <2>5. q = p /\ node # Empty => Known(e, Bindings(p))
    BY <2>1, <2>2 DEF Known, Bindings
  <2> QED BY <2>1, <2>2, <2>3, <2>4, <2>5 DEF e, x
<1>15. CASE CreatesProbe
  <2>1. UNCHANGED <<arrival, pod, link, rows>> /\ Sends(<<Event("ADDED", Probe, Empty)>>)
    BY <1>15 DEF CreatesProbe, reader
  <2> DEFINE e == <<Event("ADDED", Probe, Empty)>>
  <2>2. e \in Seq(Events) /\ ~Known(e, About(p)) /\ ~Known(e, Bindings(p)) /\ Sends(e)
    BY <1>5, <1>14, <2>1
  <2> HIDE DEF e
  <2>3. A(rows', stream', link') /\ B(rows', stream', link')
    BY <1>13, <2>1, <2>2
  <2> QED BY <1>9, <2>1, <2>3
<1>16. ASSUME NEW q \in Pods, Bind(q) \/ Finish(q)
       PROVE  /\ Follows(rows', stream', link', About(p), Additions, p \in Created', pod'[p].created)
              /\ Follows(rows', stream', link', Bindings(p), Events, p \in Placed', pod'[p].bound)
  <2> DEFINE e == <<Event("MODIFIED", q, "node")>>
  <2>1. UNCHANGED <<arrival, link, rows>> /\ Sends(e)
    BY <1>16 DEF Bind, Finish, reader
  <2>2. "node" # Empty /\ q \in Nat
    BY <1>1, CollectorsAssumption, PodsFinite
  <2>3. /\ e \in Seq(Events)
        /\ Known(e, About(p)) => q = p
        /\ Known(e, Bindings(p)) => q = p
        /\ q = p => Known(e, Bindings(p))
        /\ \A i \in DOMAIN e : e[i] \in Events /\ e[i].time = now
    BY <1>14, <2>2
  <2> HIDE DEF e
  <2>4. q \in Created /\ Created' = Created
    <3>1. q \in Created
      BY <1>16 DEF Bind, Finish, Created
    <3>2. Created' = Created
      BY <1>1, <1>16, MovesPod
    <3> QED BY <3>1, <3>2
  <2>5. A(rows', stream', link')
    BY <1>13, <2>1, <2>3, <2>4
  <2>6. CASE p # q \/ q \in Placed
    <3>1. p \in Placed' <=> p \in Placed
      BY <1>1, <1>3, <1>16, <2>6 DEF Bind, Finish, TypeOK, Placed, Pods, PodsGo
    <3>2. B(rows', stream', link')
      BY <1>13, <2>1, <2>3, <2>6
    <3> QED BY <1>7, <1>8, <2>4, <2>5, <3>1, <3>2
  <2>7. CASE p = q /\ q \notin Placed
    <3>1. Bind(q)
      BY <1>16, <2>7 DEF Finish, Placed
    <3>2. p \in Placed'
      BY <1>1, <2>7, <3>1 DEF Bind, TypeOK, Placed, Pods
    <3>3. pod'[p].bound = now
      BY <1>3, <2>7, <3>2 DEF PodsGo
    <3>4. link \in {"open", "closed"}
      BY <1>1, <2>4 DEF Opening
    <3>5. stream' = IF link = "open" THEN stream \o e ELSE stream
      BY <2>1 DEF Sends
    <3>6. Follows(rows, stream, link, Bindings(p), Events, FALSE, pod[p].bound)
      BY <1>4, <2>7 DEF Follows
    <3>7. Follows(rows, IF link = "open" THEN stream \o e ELSE stream, link, Bindings(p), Events, TRUE, now)
      BY <1>1, <2>3, <2>7, <3>4, <3>6, FollowsStart
    <3>8. Follows(rows', stream', link', Bindings(p), Events, p \in Placed', pod'[p].bound)
      BY <2>1, <3>2, <3>3, <3>5, <3>7
    <3> QED BY <1>7, <2>4, <2>5, <3>8
  <2> QED BY <2>6, <2>7
<1>17. CASE Submits \/ CallRaises
  <2>1. UNCHANGED <<now, arrival, link, rows>>
    BY <1>1, <1>17, CreatesSome
  <2>2. CASE UNCHANGED <<pod, stream>>
    BY <1>4, <1>9, <2>1, <2>2
  <2>3. CASE stage = "submitting" /\ \E new \in SUBSET waiting : new \subseteq Pods /\ Creates(new)
    <3>1. PICK new \in SUBSET waiting : new \subseteq Pods /\ Creates(new)
      BY <2>3
    <3> DEFINE order == SetToSeq(new)
               e     == [i \in DOMAIN order |-> Event("ADDED", order[i], Empty)]
    <3>2. /\ e \in Seq(Events) /\ \A q \in new : Known(e, About(q))
          /\ \A i \in DOMAIN e : e[i] \in Additions /\ e[i].pod \in new /\ e[i].time = now
      BY <1>1, <3>1, Announced
    <3>3. Sends(e)
      BY <3>1 DEF Creates
    <3> HIDE DEF e
    <3>4. /\ Created' = Created \cup new /\ Placed' = Placed
          /\ \A q \in new : pod'[q].created = now /\ q \notin Created
      BY <1>1, <2>1, <2>3, <3>1, CreatesPods
    <3>5. ~Known(e, Bindings(p))
      BY <3>2 DEF Known, Bindings, Additions
    <3>6. B(rows', stream', link')
      BY <1>13, <2>1, <3>2, <3>3, <3>5
    <3>7. CASE p \notin new
      <4>1. ~Known(e, About(p))
        BY <3>2, <3>7 DEF Known, About
      <4>2. A(rows', stream', link')
        BY <1>13, <2>1, <3>2, <3>3, <4>1
      <4> QED BY <1>7, <1>8, <3>4, <3>6, <3>7, <4>2
    <3>8. CASE p \in new
      <4>1. link \in {"open", "closed"}
        BY <1>1, <2>3 DEF Opening
      <4>2. stream' = IF link = "open" THEN stream \o e ELSE stream
        BY <3>3 DEF Sends
      <4>3. Follows(rows, stream, link, About(p), Additions, FALSE, pod[p].created)
        BY <1>4, <3>4, <3>8 DEF Follows
      <4>4. Known(e, About(p)) /\ \A i \in DOMAIN e : e[i] \in About(p) => e[i] \in Additions /\ e[i].time = now
        BY <3>2, <3>8
      <4>5. Follows(rows, IF link = "open" THEN stream \o e ELSE stream, link, About(p), Additions, TRUE, now)
        BY <1>1, <3>2, <4>1, <4>3, <4>4, FollowsStart
      <4>6. Follows(rows', stream', link', About(p), Additions, p \in Created', pod'[p].created)
        BY <2>1, <3>4, <3>8, <4>2, <4>5
      <4> QED BY <1>8, <3>4, <3>6, <4>6
    <3> QED BY <3>7, <3>8
  <2> QED BY <1>1, <1>17, <2>2, <2>3, CreatesSome
<1>18. CASE ReadsEvent
  <2>1. UNCHANGED <<arrival, pod, link>> /\ stream # <<>> /\ stream' = Tail(stream)
    BY <1>18 DEF ReadsEvent
  <2>2. Head(stream) \in Events /\ now - Head(stream).time \in 0 .. Delay
    <3>1. 1 \in DOMAIN stream /\ Head(stream) = stream[1]
      BY <1>1, <2>1, EmptySeq, LenProperties
    <3> QED BY <1>1, <2>1, <3>1, HeadTailProperties DEF Inv, Streamed
  <2>3. CASE Head(stream).pod = Probe
    <3>1. rows' = rows
      BY <1>18, <2>3 DEF ReadsEvent
    <3>2. Head(stream) \notin About(p) /\ Head(stream) \notin Bindings(p)
      BY <1>5, <2>3 DEF About, Bindings
    <3>3. A(rows', stream', link')
      BY <1>1, <1>4, <1>5, <2>1, <3>1, <3>2, FollowsDrop
    <3>4. B(rows', stream', link')
      BY <1>1, <1>4, <1>5, <2>1, <3>1, <3>2, FollowsDrop
    <3> QED BY <1>9, <2>1, <3>3, <3>4
  <2>4. CASE Head(stream).pod # Probe
    <3>1. rows' = Append(rows, [Head(stream) EXCEPT !.time = now])
      BY <1>18, <2>4 DEF ReadsEvent
    <3>2. A(rows', stream', link')
      BY <1>1, <1>4, <1>5, <1>6, <2>1, <2>2, <3>1, FollowsRead
    <3>3. B(rows', stream', link')
      BY <1>1, <1>4, <1>5, <1>6, <2>1, <2>2, <3>1, FollowsRead
    <3> QED BY <1>9, <2>1, <3>2, <3>3
  <2> QED BY <2>3, <2>4
<1>19. CASE ReaderEnds
  <2> DEFINE e == Event("ENDED", Empty, Empty)
  <2>1. UNCHANGED <<arrival, pod, stream, link>> /\ (rows' = rows \/ rows' = Append(rows, e))
    BY <1>19 DEF ReaderEnds, watch
  <2>2. e \in Events /\ e \notin About(p) /\ e \notin Bindings(p)
    BY <1>1, <1>5, EventTyped DEF Event, About, Bindings
  <2> HIDE DEF e
  <2>3. A(rows', stream', link')
    BY <1>1, <1>4, <1>5, <2>1, <2>2, FollowsNote
  <2>4. B(rows', stream', link')
    BY <1>1, <1>4, <1>5, <2>1, <2>2, FollowsNote
  <2> QED BY <1>9, <2>1, <2>3, <2>4
<1> QED BY <1>10, <1>11, <1>12, <1>15, <1>16, <1>17, <1>18, <1>19 DEF Next, Main, Quiet

\* Every behaviour keeps the invariant.
LEMMA Invariance == Spec => []Inv
<1>1. Inv /\ [Next]_vars => Inv'
  BY NextType, NextStreamed, NextFollowed DEF Inv
<1> QED BY InitInv, <1>1, PTL DEF Spec

-----------------------------------------------------------------------------
(* The report.                                                             *)

LEMMA LeastIn ==
    ASSUME NEW S \in SUBSET Nat, S # {}
    PROVE  Min(S) \in S /\ \A y \in S : Min(S) <= y
<1>1. PICK x \in S : \A y \in S : <<y, x>> \notin OpToRel(<, Nat)
  BY NatLessThanWellFounded, WFMin
<1>2. \A y \in S : ~ (y < x)
  BY <1>1, Zenon DEF OpToRel
<1>3. \A y \in S : x <= y
  BY <1>2
<1> QED BY <1>3 DEF Min

LEMMA GreatestIn ==
    ASSUME NEW n \in Nat, NEW S \in SUBSET (0 .. n), S # {}
    PROVE  Max(S) \in S /\ \A y \in S : Max(S) >= y
<1> DEFINE T == {n - x : x \in S}
<1>1. T \in SUBSET Nat /\ T # {}
  <2>1. \A x \in S : n - x \in Nat
    OBVIOUS
  <2> QED BY <2>1, Zenon
<1>2. Min(T) \in T /\ \A y \in T : Min(T) <= y
  <2> HIDE DEF T
  <2> QED BY <1>1, LeastIn
<1>3. PICK x \in S : Min(T) = n - x
  BY <1>2
<1>4. \A y \in S : x >= y
  BY <1>2, <1>3
<1> QED BY <1>4 DEF Max

\* The first row of a pod, and its first with a node.
LEMMA FirstRowsTrue ==
    ASSUME Inv, NEW p \in Pods, NEW i \in DOMAIN rows
    PROVE  /\ Starts(rows, About(p), i) =>
                  /\ p \in Created /\ rows[i].event = "ADDED" /\ rows[i].node = Empty
                  /\ rows[i].time - pod[p].created \in 0 .. Delay
           /\ Starts(rows, Bindings(p), i) => p \in Placed /\ rows[i].time - pod[p].bound \in 0 .. Delay
<1>1. CASE Starts(rows, About(p), i)
  <2>1. Known(rows, About(p))
    BY <1>1 DEF Starts, Known
  <2>2. p \in Created /\ rows[i] \in Additions /\ rows[i].time - pod[p].created \in 0 .. Delay
    BY <1>1, <2>1 DEF Inv, Followed, Follows, Honest
  <2>3. ~ Starts(rows, Bindings(p), i)
    BY <2>2 DEF Starts, Bindings, Additions
  <2> QED BY <2>2, <2>3 DEF Additions
<1>2. CASE Starts(rows, Bindings(p), i)
  <2>1. Known(rows, Bindings(p))
    BY <1>2 DEF Starts, Known
  <2>2. p \in Placed /\ rows[i].time - pod[p].bound \in 0 .. Delay
    BY <1>2, <2>1 DEF Inv, Followed, Follows, Honest
  <2>3. ~ Starts(rows, About(p), i)
    <3>1. rows[i].node # Empty
      BY <1>2 DEF Starts, Bindings
    <3> QED BY <1>1, <3>1
  <2> QED BY <2>2, <2>3
<1> QED BY <1>1, <1>2

LEMMA SeenFirst == Inv => SeenAsItHappens
<1> SUFFICES ASSUME Inv, NEW i \in FirstRows
             PROVE  /\ rows[i].event = "ADDED" /\ rows[i].node = Empty
                    /\ rows[i].time - pod[rows[i].pod].created \in 0 .. Delay
  BY DEF SeenAsItHappens
<1>1. i \in DOMAIN rows /\ rows[i].pod \in Pods /\ \A j \in 1 .. i - 1 : rows[j].pod # rows[i].pod
  BY DEF FirstRows
<1>2. rows[i] \in Events
  BY <1>1, ElementOfSeq, LenProperties DEF Inv, Streamed
<1>3. Starts(rows, About(rows[i].pod), i)
  BY <1>1, <1>2 DEF Starts, About
<1> QED BY <1>1, <1>3, FirstRowsTrue

\* A pod's placement wait is its own.
LEMMA WaitTrue ==
    ASSUME Inv, NEW p \in Pods, BoundRows(rows, p) # {}
    PROVE  p \in Placed /\ Near(PlacementWait(rows, p), pod[p].bound - pod[p].created)
<1> DEFINE about == {i \in DOMAIN rows : rows[i] \in About(p)}
           bindings == {i \in DOMAIN rows : rows[i] \in Bindings(p)}
           k == Min(about)
           h == Min(bindings)
<1>1. /\ rows \in Seq(Events) /\ DOMAIN rows \subseteq Nat \ {0} /\ (\A i \in DOMAIN rows : rows[i] \in Events)
      /\ \A i \in DOMAIN rows : 1 .. i - 1 \subseteq DOMAIN rows
  BY ElementOfSeq, LenProperties DEF Inv, Streamed
<1>2. /\ \A i \in DOMAIN rows : i \in about <=> rows[i].pod = p
      /\ \A i \in DOMAIN rows : i \in bindings <=> rows[i].pod = p /\ rows[i].node # Empty
      /\ about \subseteq DOMAIN rows /\ bindings \subseteq about
      /\ BoundRows(rows, p) \subseteq bindings /\ CreatedRows(rows, p) \subseteq about
  BY <1>1 DEF About, Bindings, BoundRows, CreatedRows
<1>3. k \in about /\ \A i \in about : k <= i
  <2> HIDE DEF about, bindings
  <2> QED BY <1>1, <1>2, LeastIn
<1>4. h \in bindings /\ \A i \in bindings : h <= i
  <2> HIDE DEF about, bindings
  <2> QED BY <1>1, <1>2, LeastIn
<1>5. Starts(rows, About(p), k)
  <2>1. \A j \in 1 .. k - 1 : j \notin about
    <3> HIDE DEF about
    <3> QED BY <1>1, <1>2, <1>3
  <2>2. \A j \in 1 .. k - 1 : j \in DOMAIN rows
    <3> HIDE DEF about
    <3> QED BY <1>1, <1>2, <1>3
  <2> QED BY <1>3, <2>1, <2>2 DEF Starts
<1>6. Starts(rows, Bindings(p), h)
  <2>1. \A j \in 1 .. h - 1 : j \notin bindings
    <3> HIDE DEF about, bindings
    <3> QED BY <1>1, <1>2, <1>4
  <2>2. \A j \in 1 .. h - 1 : j \in DOMAIN rows
    <3> HIDE DEF about, bindings
    <3> QED BY <1>1, <1>2, <1>4
  <2> QED BY <1>4, <2>1, <2>2 DEF Starts
<1> HIDE DEF about, bindings, k, h
<1>7. /\ rows[k].event = "ADDED" /\ rows[k].node = Empty /\ rows[k].time - pod[p].created \in 0 .. Delay
      /\ p \in Placed /\ rows[h].time - pod[p].bound \in 0 .. Delay
  BY <1>2, <1>3, <1>4, <1>5, <1>6, FirstRowsTrue
<1>8. k \in CreatedRows(rows, p) /\ k < h /\ h \in BoundRows(rows, p)
  <2>1. k \in CreatedRows(rows, p)
    BY <1>2, <1>3, <1>7 DEF CreatedRows
  <2>2. k # h /\ k <= h /\ k \in Nat /\ h \in Nat
    BY <1>1, <1>2, <1>3, <1>4, <1>7
  <2> QED BY <1>2, <1>4, <2>1, <2>2 DEF BoundRows
<1>9. Min(CreatedRows(rows, p)) = k
  <2>1. CreatedRows(rows, p) \in SUBSET Nat
    BY <1>1, <1>2
  <2>2. Min(CreatedRows(rows, p)) \in CreatedRows(rows, p) /\ Min(CreatedRows(rows, p)) <= k
    BY <1>8, <2>1, LeastIn
  <2>3. k <= Min(CreatedRows(rows, p))
    BY <1>2, <1>3, <2>2
  <2> QED BY <1>8, <2>1, <2>2, <2>3
<1>10. Min(BoundRows(rows, p)) = h
  <2>1. BoundRows(rows, p) \in SUBSET Nat
    BY <1>1, <1>2
  <2>2. Min(BoundRows(rows, p)) \in BoundRows(rows, p) /\ Min(BoundRows(rows, p)) <= h
    BY <1>8, <2>1, LeastIn
  <2>3. h <= Min(BoundRows(rows, p))
    BY <1>2, <1>4, <2>2
  <2> QED BY <1>8, <2>1, <2>2, <2>3
<1>11. /\ rows[k].time \in Nat /\ rows[h].time \in Nat /\ pod[p].created \in Nat /\ pod[p].bound \in Nat
       /\ Delay \in Nat
  BY <1>1, <1>2, <1>3, <1>4, CollectorsAssumption DEF Events, Inv, TypeOK
<1> QED BY <1>7, <1>9, <1>10, <1>11 DEF PlacementWait, Near

\* Pods were created as long after the submission began as they arrive, and none that waits is late.
Timely ==
    \E b \in Nat :
        /\ \A p \in Created : pod[p].created = b + arrival[p]
        /\ stage = "submitting" => b = since /\ \A p \in waiting : arrival[p] >= now - since

LEMMA ArrivalsTyped ==
    ASSUME TypeOK
    PROVE  /\ \A p \in Pods : arrival[p] \in Nat /\ pod[p].created \in Nat
           /\ now \in Nat /\ since \in Nat /\ since <= now
<1>1. arrival \in Seq(Nat)
  BY CollectorsAssumption DEF TypeOK
<1>2. \A p \in Pods : arrival[p] \in Nat
  BY <1>1, ElementOfSeq, LenProperties DEF Pods
<1>3. now \in Nat /\ since \in 0 .. now
  BY PodsFinite DEF TypeOK, InTime
<1> QED BY <1>2, <1>3 DEF TypeOK

LEMMA NextTimely == Inv /\ Timely /\ [Next]_vars => Timely'
<1> SUFFICES ASSUME Inv, Timely, [Next]_vars PROVE Timely'
  OBVIOUS
<1>1. TypeOK /\ Opening /\ now \in Nat /\ since \in Nat
  BY ArrivalsTyped DEF Inv
<1>2. \A p \in Pods : arrival[p] \in Nat
  BY <1>1, ArrivalsTyped
<1>3. PICK b \in Nat :
         /\ \A p \in Created : pod[p].created = b + arrival[p]
         /\ stage = "submitting" => b = since /\ \A p \in waiting : arrival[p] >= now - since
  BY DEF Timely
<1>4. CASE UNCHANGED vars
  <2>1. UNCHANGED <<now, arrival, pod, stage, since, waiting>>
    BY <1>4 DEF vars, runner
  <2> QED BY <1>3, <2>1 DEF Timely, Created, Pods
<1> SUFFICES ASSUME Next PROVE Timely'
  BY <1>4
<1>5. PodsGo /\ (Created' # Created => stage = "submitting")
  BY <1>1, NextPods
<1>6. ASSUME Created' = Created
      PROVE  \A p \in Created' : pod'[p].created = b + arrival'[p]
  BY <1>3, <1>5, <1>6 DEF PodsGo, Created
<1>7. ASSUME Created' = Created, stage' # "submitting" \/ UNCHANGED <<now, stage, since, waiting, arrival>>
      PROVE  Timely'
  <2>1. CASE stage' # "submitting"
    BY <1>6, <1>7, <2>1 DEF Timely
  <2>2. CASE UNCHANGED <<now, stage, since, waiting, arrival>>
    BY <1>3, <1>6, <1>7, <2>2 DEF Timely
  <2> QED BY <1>7, <2>1, <2>2
<1>8. CASE Tick
  <2>1. now' = now + 1 /\ UNCHANGED <<arrival, pod, stage, since, waiting>> /\ ~Busy
    BY <1>8 DEF Tick, runner
  <2>2. Created' = Created
    BY <2>1 DEF Created, Pods
  <2>3. CASE stage # "submitting"
    BY <1>7, <2>1, <2>2, <2>3
  <2>4. CASE stage = "submitting"
    <3>1. waiting \subseteq Pods
      BY <1>1, <2>4 DEF TypeOK
    <3>2. \A p \in waiting : ~ (arrival[p] <= now - since)
      BY <2>1, <2>4 DEF Busy, Due
    <3>3. \A p \in waiting : arrival[p] >= now' - since
      BY <1>1, <1>2, <2>1, <3>1, <3>2
    <3> QED BY <1>3, <1>6, <2>1, <2>2, <2>4, <3>3 DEF Timely
  <2> QED BY <2>3, <2>4
<1>9. CASE Confirms
  <2>1. UNCHANGED <<now, arrival, waiting>> /\ stage = "confirming" /\ since' = now
    BY <1>9 DEF Confirms, GoesTo
  <2>2. Created' = {} /\ waiting = Pods
    BY <1>1, <1>5, <2>1 DEF Opening, TypeOK
  <2>3. \A p \in waiting' : arrival'[p] >= now' - since'
    BY <1>1, <1>2, <2>1, <2>2
  <2> QED BY <1>1, <2>1, <2>2, <2>3 DEF Timely
<1>10. ASSUME stage = "submitting", NEW new \in SUBSET Due, Creates(new), UNCHANGED <<now, arrival>>
       PROVE  /\ \A p \in Created' : pod'[p].created = b + arrival'[p]
              /\ Created' = Created \cup new
  <2>1. waiting \subseteq Pods /\ new \in SUBSET waiting
    BY <1>1, <1>10 DEF TypeOK, Due
  <2>2. /\ Created' = Created \cup new
        /\ \A p \in Pods \ new : pod'[p] = pod[p]
        /\ \A p \in new : pod'[p].created = now /\ p \notin Created
    BY <1>1, <1>10, <2>1, CreatesPods
  <2>3. ASSUME NEW p \in new PROVE pod'[p].created = b + arrival'[p]
    <3>1. arrival[p] <= now - since /\ arrival[p] >= now - since /\ b = since /\ p \in Pods
      BY <1>3, <1>10, <2>1 DEF Due
    <3> QED BY <1>1, <1>2, <1>10, <2>2, <3>1
  <2>4. \A p \in Created \ new : p \in Pods \ new
    BY DEF Created
  <2> QED BY <1>3, <1>10, <2>2, <2>3, <2>4
<1>11. CASE Submits
  <2>1. stage = "submitting" /\ Creates(Due) /\ UNCHANGED <<now, arrival>> /\ waiting' = waiting \ Due
    BY <1>11 DEF Submits
  <2>2. stage' = "submitting" => since' = since
    BY <1>11 DEF Submits, GoesTo
  <2>3. \A p \in waiting' : arrival'[p] >= now' - since
    BY <1>3, <2>1
  <2> QED BY <1>3, <1>10, <2>1, <2>2, <2>3 DEF Timely
<1>12. CASE CallRaises
  <2>1. stage' = "joining" /\ UNCHANGED <<now, arrival>>
    BY <1>12 DEF CallRaises, Leaves, GoesTo
  <2>2. CASE pod' = pod
    <3>1. Created' = Created
      BY <2>1, <2>2 DEF Created, Pods
    <3> QED BY <1>7, <2>1, <3>1
  <2>3. CASE stage = "submitting" /\ \E new \in SUBSET Due : Creates(new)
    BY <1>10, <2>1, <2>3 DEF Timely
  <2> QED BY <1>12, <2>2, <2>3 DEF CallRaises
<1>13. CASE Quiet /\ ~Tick /\ ~Confirms
  <2>1. UNCHANGED <<arrival, pod>>
    BY <1>13 DEF Quiet, GivesUpWatch, Completes, TimesOut, JoinsWatcher, Collects, Reports, Cancelled, Asks, Answers,
                 SamplerEnds
  <2>2. stage' # "submitting" \/ UNCHANGED <<now, stage, since, waiting, arrival>>
    <3>1. CASE GivesUpWatch \/ Completes \/ TimesOut \/ JoinsWatcher \/ Reports
      BY <3>1 DEF GivesUpWatch, Completes, TimesOut, JoinsWatcher, Reports, Leaves, GoesTo
    <3>2. CASE Collects
      BY <3>2 DEF Collects, GoesTo
    <3>3. CASE Cancelled
      BY <3>3 DEF Cancelled, Leaves, GoesTo
    <3>4. CASE \E n \in Nodes : Asks(n) \/ Answers(n) \/ SamplerEnds(n)
      BY <3>4 DEF Asks, Answers, SamplerEnds, runner
    <3> QED BY <1>13, <3>1, <3>2, <3>3, <3>4 DEF Quiet
  <2>3. Created' = Created
    BY <2>1 DEF Created, Pods
  <2> QED BY <1>7, <2>2, <2>3
<1>14. CASE \E p \in Pods : Bind(p) \/ Finish(p)
  <2>1. UNCHANGED <<now, stage, since, waiting, arrival>>
    BY <1>14 DEF Bind, Finish, runner
  <2>2. Created' = Created
    BY <1>1, <1>14, MovesPod
  <2> QED BY <1>7, <2>1, <2>2
<1>15. CASE Opens \/ Breaks \/ ReadsEvent \/ ReaderEnds
  <2>1. UNCHANGED <<now, stage, since, waiting, arrival, pod>>
    BY <1>15 DEF Opens, Breaks, ReadsEvent, ReaderEnds, runner
  <2>2. Created' = Created
    BY <2>1 DEF Created, Pods
  <2> QED BY <1>7, <2>1, <2>2
<1>16. CASE CreatesProbe \/ JoinsSamplers
  <2>1. stage' # "submitting" /\ UNCHANGED <<arrival, pod>>
    BY <1>16 DEF CreatesProbe, JoinsSamplers, GoesTo
  <2>2. Created' = Created
    BY <2>1 DEF Created, Pods
  <2> QED BY <1>7, <2>1, <2>2
<1> QED BY <1>8, <1>9, <1>11, <1>12, <1>13, <1>14, <1>15, <1>16 DEF Next, Main, Quiet

\* pods.json tells the truth of the pods that had finished, of all if the run completed.
Listed ==
    /\ status = "complete" => Finished = Pods
    /\ stage \notin {"reporting", "over"} => listed = Missing
    /\ listed # Missing =>
          /\ DOMAIN listed \subseteq Pods
          /\ \A p \in DOMAIN listed : listed[p].phase \in {"succeeded", "failed"} =>
                /\ p \in Finished /\ listed[p].phase = pod[p].phase
                /\ listed[p].created = pod[p].created /\ listed[p].finished = pod[p].finished
          /\ status = "complete" =>
                \A p \in Pods : p \in DOMAIN listed /\ listed[p].phase \in {"succeeded", "failed"}

LEMMA NextListed == Inv /\ Listed /\ [Next]_vars => Listed'
<1> SUFFICES ASSUME Inv, Listed, [Next]_vars PROVE Listed'
  OBVIOUS
<1>1. CASE UNCHANGED vars
  <2>1. UNCHANGED <<arrival, pod, stage, status, listed>>
    BY <1>1 DEF vars, runner
  <2> QED BY <2>1 DEF Listed, Finished, Pods
<1> SUFFICES ASSUME Next PROVE Listed'
  BY <1>1
<1>2. TypeOK /\ PodsGo
  BY NextPods DEF Inv
<1>3. \A p \in Finished : p \in Created /\ p \in Finished' /\ p \in Pods
  BY <1>2 DEF PodsGo, Finished, Created
<1>4. ASSUME UNCHANGED <<status, listed>>, stage' \notin {"reporting", "over"} => stage \notin {"reporting", "over"}
      PROVE  Listed'
  <2>1. status' = "complete" => Finished' = Pods'
    BY <1>2, <1>3, <1>4 DEF Listed, PodsGo, Finished
  <2>2. ASSUME listed # Missing
        PROVE  \A p \in DOMAIN listed : listed[p].phase \in {"succeeded", "failed"} =>
                 /\ p \in Finished' /\ listed[p].phase = pod'[p].phase
                 /\ listed[p].created = pod'[p].created /\ listed[p].finished = pod'[p].finished
    BY <1>2, <1>3, <2>2 DEF Listed, PodsGo
  <2>3. listed # Missing => DOMAIN listed \subseteq Pods'
    BY <1>2 DEF Listed, PodsGo
  <2>4. listed # Missing /\ status = "complete" =>
           \A p \in Pods' : p \in DOMAIN listed /\ listed[p].phase \in {"succeeded", "failed"}
    BY <1>2 DEF Listed, PodsGo
  <2>5. stage' \notin {"reporting", "over"} => listed' = Missing
    BY <1>4 DEF Listed
  <2> QED BY <1>4, <2>1, <2>2, <2>3, <2>4, <2>5 DEF Listed
<1>5. ASSUME stage = "collecting", CollectsSome, UNCHANGED <<arrival, pod, status>>, stage' \in {"reporting", "over"}
      PROVE  Listed'
  <2>1. Finished' = Finished /\ Pods' = Pods
    BY <1>5 DEF Finished, Pods
  <2>2. CASE listed' = Missing
    BY <1>5, <2>1, <2>2 DEF Listed
  <2>3. CASE listed' = [p \in Created |-> pod[p]]
    <3>1. DOMAIN listed' = Created /\ \A p \in Created : listed'[p] = pod[p]
      BY <2>3
    <3>2. Created \subseteq Pods /\ Finished \subseteq Created
      BY DEF Created, Finished
    <3>3. \A p \in Finished : pod[p].phase \in {"succeeded", "failed"}
      BY DEF Finished
    <3>4. \A p \in Created : pod[p].phase \in {"succeeded", "failed"} => p \in Finished
      BY DEF Created, Finished
    <3>5. status = "complete" => Finished = Pods
      BY DEF Listed
    <3> QED BY <1>5, <2>1, <3>1, <3>2, <3>3, <3>4, <3>5 DEF Listed
  <2> QED BY <1>5, <2>2, <2>3 DEF CollectsSome
<1>6. ASSUME stage \notin {"reporting", "over"}, UNCHANGED listed, status' = "complete" => Finished' = Pods'
      PROVE  Listed'
  BY <1>6 DEF Listed
<1>7. CASE Completes
  <2>1. stage = "waiting" /\ Finished = Pods /\ UNCHANGED <<arrival, pod, listed>>
    BY <1>7 DEF Completes
  <2> QED BY <1>6, <2>1 DEF Finished, Pods
<1>8. CASE TimesOut
  BY <1>6, <1>8 DEF TimesOut
<1>9. CASE Collects
  <2>1. stage' \in {"reporting", "over"}
    BY <1>9 DEF Collects, GoesTo
  <2> QED BY <1>5, <1>9, <2>1 DEF Collects
<1>10. CASE Cancelled
  <2>1. CASE stage \in Running /\ UNCHANGED <<status, listed>>
    BY <1>4, <2>1 DEF Running
  <2>2. CASE stage \in {"joining", "closing"} /\ status' = "aborted" /\ UNCHANGED listed
    BY <1>6, <2>2
  <2>3. CASE stage = "collecting" /\ CollectsSome /\ GoesTo("over") /\ UNCHANGED status
    BY <1>5, <1>10, <2>3 DEF Cancelled, GoesTo
  <2>4. CASE stage = "reporting" /\ GoesTo("over") /\ UNCHANGED <<status, listed>>
    BY <1>4, <2>4 DEF GoesTo
  <2> QED BY <1>10, <2>1, <2>2, <2>3, <2>4 DEF Cancelled
<1>11. CASE Confirms \/ GivesUpWatch \/ JoinsWatcher \/ Reports \/ CreatesProbe \/ JoinsSamplers
  <2>1. UNCHANGED <<status, listed>>
    BY <1>11 DEF Confirms, GivesUpWatch, JoinsWatcher, Reports, CreatesProbe, JoinsSamplers
  <2>2. stage' \notin {"reporting", "over"} => stage \notin {"reporting", "over"}
    BY <1>11 DEF Confirms, GivesUpWatch, JoinsWatcher, Reports, CreatesProbe, JoinsSamplers, Leaves, GoesTo
  <2> QED BY <1>4, <2>1, <2>2
<1>12. CASE Submits \/ CallRaises
  <2>1. UNCHANGED <<status, listed>> /\ stage \notin {"reporting", "over"}
    BY <1>12 DEF Submits, CallRaises
  <2> QED BY <1>4, <2>1
<1>13. CASE Tick \/ Opens \/ Breaks \/ ReadsEvent \/ ReaderEnds
  <2>1. UNCHANGED <<stage, status, listed>>
    BY <1>13 DEF Tick, Opens, Breaks, ReadsEvent, ReaderEnds, runner
  <2> QED BY <1>4, <2>1
<1>14. CASE \/ \E p \in Pods : Bind(p) \/ Finish(p)
            \/ \E n \in Nodes : Asks(n) \/ Answers(n) \/ SamplerEnds(n)
  <2>1. UNCHANGED <<stage, status, listed>>
    BY <1>14 DEF Bind, Finish, Asks, Answers, SamplerEnds, runner
  <2> QED BY <1>4, <2>1
<1> QED BY <1>7, <1>8, <1>9, <1>10, <1>11, <1>12, <1>13, <1>14 DEF Next, Main

LEMMA PlacementTrue ==
    ASSUME Inv, Printed.placement \notin {Missing, Incomplete}, NEW p \in Pods
    PROVE  p \in Placed /\ Near(Printed.placement[p], pod[p].bound - pod[p].created)
<1>1. Printed.placement = Placement(rows, Pods)
  BY DEF Printed, Figures
<1>2. Placement(rows, Pods) = PlacementWaits(rows, Pods) /\ DOMAIN PlacementWaits(rows, Pods) = Pods
  BY <1>1, Zenon DEF Placement
<1>3. p \in Covered(rows, Pods) /\ PlacementWaits(rows, Pods)[p] = PlacementWait(rows, p)
  BY <1>2 DEF PlacementWaits
<1>4. BoundRows(rows, p) # {}
  BY <1>3 DEF Covered
<1> QED BY <1>1, <1>2, <1>3, <1>4, WaitTrue

LEMMA MakespanTrue ==
    ASSUME Inv, Listed, Printed.makespan \notin {Missing, Incomplete}
    PROVE  /\ \A p \in Pods : pod[p].phase = "succeeded"
           /\ \A p, q \in Pods : pod[q].finished - pod[p].created <= Printed.makespan
           /\ \E p, q \in Pods : pod[q].finished - pod[p].created = Printed.makespan
<1> DEFINE done == Succeeded(listed)
           F == {listed[p].finished : p \in done}
           C == {listed[p].created : p \in done}
<1>1. /\ listed # Missing /\ Cardinality(done) = Cardinality(Pods)
      /\ Printed.makespan = Max(F) - Min(C)
  <2>1. Printed.makespan = IF listed = Missing THEN Missing ELSE Makespan(listed, Cardinality(Pods))
    BY DEF Printed, Figures
  <2>2. listed # Missing /\ Printed.makespan = Makespan(listed, Cardinality(Pods))
    BY <2>1, Zenon
  <2> QED BY <2>2, Zenon DEF Makespan
<1>2. done = Pods
  <2>1. done \subseteq Pods
    BY <1>1 DEF Listed, Succeeded
  <2> QED BY <1>1, <2>1, PodsFinite, FS_Subset DEF Inv
<1>3. ASSUME NEW p \in Pods
      PROVE  /\ pod[p].phase = "succeeded" /\ listed[p].finished = pod[p].finished
             /\ listed[p].created = pod[p].created
             /\ pod[p].created \in Nat /\ pod[p].finished \in 0 .. now
  <2>1. p \in DOMAIN listed /\ listed[p].phase = "succeeded"
    BY <1>2 DEF Succeeded
  <2>2. p \in Finished /\ p \in Placed
    BY <1>1, <2>1 DEF Listed, Finished, Placed
  <2>3. pod[p].created \in Nat /\ pod[p].bound \in Nat /\ pod[p].finished \in Nat /\ now \in Nat
    BY PodsFinite DEF Inv, TypeOK
  <2>4. pod[p].finished \in pod[p].bound .. now
    BY <2>2 DEF Inv, TypeOK
  <2> QED BY <1>1, <2>1, <2>2, <2>3, <2>4 DEF Listed
<1>4. F = {pod[p].finished : p \in Pods} /\ C = {pod[p].created : p \in Pods}
  BY <1>2, <1>3
<1> HIDE DEF F, C, done
<1>5. F \in SUBSET (0 .. now) /\ F # {} /\ C \in SUBSET Nat /\ C # {} /\ now \in Nat
  BY <1>3, <1>4, PodsFinite DEF Inv
<1>6. Max(F) \in F /\ \A y \in F : Max(F) >= y
  BY <1>5, GreatestIn
<1>7. Min(C) \in C /\ \A y \in C : Min(C) <= y
  BY <1>5, LeastIn
<1>8. \A p, q \in Pods : pod[q].finished - pod[p].created <= Max(F) - Min(C)
  <2>1. TAKE p, q \in Pods
  <2>2. pod[q].finished \in F /\ pod[p].created \in C
    BY <1>4
  <2>3. Max(F) >= pod[q].finished /\ Min(C) <= pod[p].created
    BY <1>6, <1>7, <2>2
  <2>4. pod[q].finished \in 0 .. now /\ pod[p].created \in Nat
    BY <1>3
  <2>5. Max(F) \in 0 .. now /\ Min(C) \in Nat
    BY <1>5, <1>6, <1>7
  <2> QED BY <1>5, <2>3, <2>4, <2>5
<1>9. \E p, q \in Pods : pod[q].finished - pod[p].created = Max(F) - Min(C)
  <2>1. PICK q \in Pods : Max(F) = pod[q].finished
    BY <1>4, <1>6
  <2>2. PICK p \in Pods : Min(C) = pod[p].created
    BY <1>4, <1>7
  <2> QED BY <2>1, <2>2
<1> QED BY <1>1, <1>3, <1>8, <1>9

LEMMA CountsTrue ==
    ASSUME Inv, Listed, status = "complete", Printed.counts # Missing
    PROVE  Printed.counts.unfinished = 0
<1> DEFINE good == Succeeded(listed)
           bad  == Failed(listed)
<1>1. listed # Missing /\ Printed.counts = Counts(listed, Cardinality(Pods))
  <2>1. Printed.counts = IF listed = Missing THEN Missing ELSE Counts(listed, Cardinality(Pods))
    BY DEF Printed, Figures
  <2> QED BY <2>1, Zenon
<1>2. Printed.counts.unfinished = Cardinality(Pods) - Cardinality(good) - Cardinality(bad)
  BY <1>1 DEF Counts
<1>3. good \cup bad = Pods /\ good \cap bad = {}
  BY <1>1 DEF Listed, Succeeded, Failed
<1>4. IsFiniteSet(good) /\ IsFiniteSet(bad)
  <2>1. good \in SUBSET Pods /\ bad \in SUBSET Pods
    BY <1>3
  <2> QED BY <2>1, PodsFinite DEF Inv
<1>5. Cardinality(Pods) = Cardinality(good) + Cardinality(bad) - 0
  <2>1. Cardinality(good \cup bad) = Cardinality(good) + Cardinality(bad) - Cardinality(good \cap bad)
    BY <1>4, FS_Union
  <2> QED BY <1>3, <2>1, FS_EmptySet
<1>6. Cardinality(good) \in Nat /\ Cardinality(bad) \in Nat
  BY <1>4, FS_CardinalityType
<1> HIDE DEF good, bad
<1> QED BY <1>2, <1>5, <1>6

-----------------------------------------------------------------------------
(* The theorems.                                                           *)

\* The state of a run (run_pods, kexp.py:315-347) is what TypeOK says, in every behaviour.
THEOREM RunTypeCorrect == Spec => []TypeOK
<1>1. Inv => TypeOK
  BY DEF Inv
<1> QED BY <1>1, Invariance, PTL

\* Once the probe was seen every pod is seen as it happens (confirm_watch, kexp.py:300-312): the first row
\* of a pod in watch.csv is its creation, not placed yet, and no later than the stream's delay.
THEOREM PodsSeenAsTheyHappen == Spec => []SeenAsItHappens
BY Invariance, SeenFirst, PTL

\* What the report prints is true of the run (report, kexp.py:739-771), however many pods there are, wherever
\* the watch breaks, whatever call fails and whenever the job is cancelled.
THEOREM ReportIsHonest == Spec => []ReportHonest
<1>1. Init => Listed
  BY DEF Init, Listed
<1>2. Inv /\ Listed => ReportHonest
  <2> SUFFICES ASSUME Inv, Listed PROVE ReportHonest
    OBVIOUS
  <2> QED BY PlacementTrue, MakespanTrue, CountsTrue DEF ReportHonest
<1> QED BY <1>1, <1>2, NextListed, Invariance, PTL DEF Spec

\* Pods are created as far apart as the experiment has them arrive (submit, kexp.py:252-264), in every
\* experiment.
THEOREM SubmissionKeepsArrivals == Spec => []ArrivalsKept
<1>1. Init => Timely
  BY DEF Init, Timely, Created, Unborn
<1>2. Inv /\ Timely => ArrivalsKept
  <2> SUFFICES ASSUME Inv, Timely, NEW p \in Created, NEW q \in Created
               PROVE  pod[p].created - pod[q].created = arrival[p] - arrival[q]
    BY DEF ArrivalsKept
  <2>1. PICK b \in Nat : \A r \in Created : pod[r].created = b + arrival[r]
    BY DEF Timely
  <2>2. arrival[p] \in Nat /\ arrival[q] \in Nat
    BY ArrivalsTyped DEF Inv, Created
  <2> QED BY <2>1, <2>2
<1> QED BY <1>1, <1>2, NextTimely, Invariance, PTL DEF Spec

-----------------------------------------------------------------------------
(* The nodes.                                                              *)

LEMMA ReadingsTyped ==
    ASSUME NEW end \in Nat, NEW telemetry \in Seq([node : Nodes, time : 0 .. end, cpu : Nat]), NEW n
    PROVE  DOMAIN Readings(telemetry, n) \in SUBSET (0 .. end)
<1>1. \A i \in DOMAIN telemetry : telemetry[i].time \in 0 .. end
  <2>1. \A i \in 1 .. Len(telemetry) : telemetry[i] \in [node : Nodes, time : 0 .. end, cpu : Nat]
    BY ElementOfSeq
  <2> QED BY <2>1, LenProperties
<1>2. {telemetry[i].time : i \in DOMAIN telemetry} \in SUBSET (0 .. end)
  BY <1>1
<1> QED BY <1>2, Zenon DEF Readings

\* Wherever the imbalance is taken (imbalance_series, kexp.py:719-736), a node has a reading to hold, the
\* last one so far, and one still to come or at that very time: an index of the bisection is never -1,
\* which would be read as the last reading of the run, for any number of nodes sampled at any times.
THEOREM ReadingInForce ==
    ASSUME NEW end \in Nat, NEW telemetry \in Seq([node : Nodes, time : 0 .. end, cpu : Nat]),
           NEW t \in DOMAIN OverTime(telemetry, Nodes),
           NEW n \in Measured(UsageSeries(telemetry, Nodes))
    PROVE  LET times == DOMAIN UsageSeries(telemetry, Nodes)[n]
               held  == Held(times, t)
           IN  /\ held \in times /\ held <= t
               /\ \A s \in times : s <= t => s <= held
               /\ \E s \in times : t <= s
<1> DEFINE cpu == UsageSeries(telemetry, Nodes)
           firsts == {Min(DOMAIN cpu[m]) : m \in Measured(cpu)}
           lasts  == {Max(DOMAIN cpu[m]) : m \in Measured(cpu)}
<1>1. \A m \in Measured(cpu) : DOMAIN cpu[m] \in SUBSET (0 .. end) /\ DOMAIN cpu[m] # {}
  BY ReadingsTyped DEF Measured, UsageSeries
<1>2. t \in Instants(cpu)
  BY DEF OverTime, ImbalanceSeries
<1> HIDE DEF cpu
<1>3. \A m \in Measured(cpu) :
          /\ Min(DOMAIN cpu[m]) \in DOMAIN cpu[m]
          /\ Max(DOMAIN cpu[m]) \in DOMAIN cpu[m]
  <2> SUFFICES ASSUME NEW m \in Measured(cpu)
               PROVE  Min(DOMAIN cpu[m]) \in DOMAIN cpu[m] /\ Max(DOMAIN cpu[m]) \in DOMAIN cpu[m]
    OBVIOUS
  <2> DEFINE times == DOMAIN cpu[m]
  <2>1. times \in SUBSET (0 .. end) /\ times # {}
    BY <1>1
  <2> HIDE DEF times
  <2>2. times \in SUBSET Nat
    BY <2>1
  <2>3. Min(times) \in times /\ Max(times) \in times
    BY <2>1, <2>2, LeastIn, GreatestIn
  <2> QED BY <2>3 DEF times
<1>13. n \in Measured(cpu)
  BY DEF cpu
<1>4. /\ firsts \in SUBSET (0 .. end) /\ Min(DOMAIN cpu[n]) \in firsts
      /\ lasts \in SUBSET (0 .. end) /\ Max(DOMAIN cpu[n]) \in lasts
  BY <1>1, <1>3 DEF cpu
<1>5. First(cpu) = Max(firsts) /\ Final(cpu) = Min(lasts)
  BY DEF First, Final
<1> HIDE DEF firsts, lasts
<1>6. First(cpu) \in Nat /\ Min(DOMAIN cpu[n]) <= First(cpu)
  <2>1. firsts \in SUBSET (0 .. end) /\ firsts # {}
    BY <1>4
  <2>2. Max(firsts) \in firsts /\ \A y \in firsts : Max(firsts) >= y
    BY <2>1, GreatestIn
  <2>3. First(cpu) \in firsts /\ \A y \in firsts : First(cpu) >= y
    BY <1>5, <2>2, Zenon
  <2>4. First(cpu) >= Min(DOMAIN cpu[n])
    BY <1>4, <2>3, Zenon
  <2>5. First(cpu) \in 0 .. end /\ Min(DOMAIN cpu[n]) \in 0 .. end
    BY <1>4, <2>3, Zenon
  <2> QED BY <2>4, <2>5
<1>7. Final(cpu) \in Nat /\ Final(cpu) <= Max(DOMAIN cpu[n])
  <2>1. lasts \in SUBSET Nat /\ lasts # {}
    BY <1>4
  <2>2. Min(lasts) \in lasts /\ \A y \in lasts : Min(lasts) <= y
    BY <2>1, LeastIn
  <2>3. Final(cpu) \in lasts /\ \A y \in lasts : Final(cpu) <= y
    BY <1>5, <2>2, Zenon
  <2>4. Final(cpu) <= Max(DOMAIN cpu[n])
    BY <1>4, <2>3, Zenon
  <2>5. Final(cpu) \in 0 .. end
    BY <1>4, <2>3, Zenon
  <2> QED BY <2>4, <2>5
<1>8. t \in First(cpu) .. Final(cpu)
  BY <1>2, Zenon DEF Instants
<1> DEFINE times == DOMAIN cpu[n]
           past  == {s \in times : s <= t}
<1>9. /\ times \in SUBSET (0 .. end) /\ t \in Nat
      /\ Min(times) \in past
      /\ Max(times) \in times /\ t <= Max(times)
  <2>1. times \in SUBSET (0 .. end) /\ Min(times) \in times /\ Max(times) \in times
    BY <1>1, <1>3, <1>13
  <2> HIDE DEF times
  <2>2. t \in Nat /\ Min(times) <= t /\ t <= Max(times)
    BY <1>6, <1>7, <1>8, <2>1 DEF times
  <2> QED BY <2>1, <2>2
<1>10. past \in SUBSET (0 .. end) /\ past # {}
  BY <1>9
<1>11. Held(times, t) = Max(past)
  BY <1>10 DEF Held
<1> HIDE DEF past
<1>12. Max(past) \in past /\ \A s \in past : Max(past) >= s
  BY <1>10, GreatestIn
<1> QED BY <1>9, <1>11, <1>12 DEF past, cpu
=============================================================================
