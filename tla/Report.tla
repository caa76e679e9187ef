---------------------------------- MODULE Report ----------------------------------
(***************************************************************************)
(* What kexp works out from an experiment and from the files of a run:     *)
(* the arrival of every pod, and the figures of the report. Times are in   *)
(* steps of the runner's clock, CPU usage in percent of what a node can    *)
(* allocate; medians, percentiles and the layout are left out.             *)
(***************************************************************************)
EXTENDS Integers, Sequences, FiniteSets, Folds, FiniteSetsExt, SequencesExt

CONSTANTS
    Empty,         \* an empty cell of watch.csv
    Missing,        \* a file that was not collected, a figure reported missing
    Incomplete,     \* a figure reported incomplete
    Step            \* IMBALANCE_STEP_S

ASSUME StepAssumption == Step \in Nat \ {0}

-----------------------------------------------------------------------------
(* Arrival processes: the arrival time of every pod.                       *)

Fixed(a, count) == [i \in 1 .. count |-> (i - 1) * a.interval]

\* normal and poisson draw the gaps, and never a negative one.
FromGaps(gaps) == [i \in 1 .. Len(gaps) + 1 |-> FoldLeft(+, 0, SubSeq(gaps, 1, i - 1))]

Bursts(a) ==
    LET steady == [i \in 1 .. a.steadyCount |-> (i - 1) * a.steadyInterval]
        burst(k) == Last(steady) + ((k - 1) \div a.burstSize + 1) * a.burstGap
    IN  steady \o [k \in 1 .. a.bursts * a.burstSize |-> burst(k)]

ArrivalTimes(a) ==
    CASE a.process = "fixed"  -> Fixed(a, a.count)
      [] a.process = "drawn"  -> FromGaps(a.gaps)
      [] a.process = "bursts" -> Bursts(a)

-----------------------------------------------------------------------------
(* The pods: pods.json lists each with its phase and its times.            *)

Succeeded(pods) == {p \in DOMAIN pods : pods[p].phase = "succeeded"}
Failed(pods)    == {p \in DOMAIN pods : pods[p].phase = "failed"}

\* First pod created -> last pod finished.
Makespan(pods, expected) ==
    IF expected = 0 \/ Cardinality(Succeeded(pods)) # expected
    THEN Incomplete
    ELSE Max({pods[p].finished : p \in Succeeded(pods)}) - Min({pods[p].created : p \in Succeeded(pods)})

-----------------------------------------------------------------------------
(* The watch: watch.csv has a row for every change streamed.               *)

\* A pod is created at its first row without a node, if that row adds it, and bound at the first with one after.
CreatedRows(rows, p) == {i \in DOMAIN rows : rows[i].pod = p /\ rows[i].event = "ADDED" /\ rows[i].node = Empty}

BoundRows(rows, p) ==
    {i \in DOMAIN rows : rows[i].pod = p /\ rows[i].node # Empty /\ \E j \in CreatedRows(rows, p) : j < i}

\* PlacementWait that keeps the last row with a node, not the first.
LastBound(rows, p) == rows[Max(BoundRows(rows, p))].time - rows[Min(CreatedRows(rows, p))].time

PlacementWait(rows, p) == rows[Min(BoundRows(rows, p))].time - rows[Min(CreatedRows(rows, p))].time

\* The pods whose wait is known.
Covered(rows, pods) == {p \in pods : BoundRows(rows, p) # {}}

PlacementWaits(rows, pods) == [p \in Covered(rows, pods) |-> PlacementWait(rows, p)]

WatchEnded(rows) == \E i \in DOMAIN rows : rows[i].event = "ENDED"

\* The report's figures are of every pod or are not given.
Placement(rows, pods) ==
    LET waits == PlacementWaits(rows, pods)
    IN  IF DOMAIN waits = {} THEN Missing ELSE IF DOMAIN waits # pods THEN Incomplete ELSE waits

-----------------------------------------------------------------------------
(* The nodes: telemetry.csv has a row for every sample, with the kubelet's *)
(* own time and the CPU in percent of what the node can allocate.          *)

\* A reading the kubelet returns twice counts once.
Readings(telemetry, n) ==
    LET rows(t) == {i \in DOMAIN telemetry : telemetry[i].node = n /\ telemetry[i].time = t}
        times   == {t \in {telemetry[i].time : i \in DOMAIN telemetry} : rows(t) # {}}
    IN  [t \in times |-> telemetry[Max(rows(t))].cpu]

UsageSeries(telemetry, nodes) == [n \in nodes |-> Readings(telemetry, n)]

\* n^2 times the variance of n values.
Spread(values) ==
    LET square(pair) == (values[pair[1]] - values[pair[2]]) * (values[pair[1]] - values[pair[2]])
    IN  MapThenSumSet(square, (DOMAIN values) \X (DOMAIN values))

Measured(cpu) == {n \in DOMAIN cpu : DOMAIN cpu[n] # {}}

\* Every measured node has a reading from the first of these times, and until the last.
First(cpu) == Max({Min(DOMAIN cpu[n]) : n \in Measured(cpu)})
Final(cpu) == Min({Max(DOMAIN cpu[n]) : n \in Measured(cpu)})

Instants(cpu) ==
    IF Cardinality(Measured(cpu)) < 2 THEN {} ELSE {t \in First(cpu) .. Final(cpu) : (t - First(cpu)) % Step = 0}

\* bisect_right(times, t) - 1 as Python reads an index: before the first time it is -1, the last one.
Held(times, t) ==
    LET past == {s \in times : s <= t}
    IN  IF past = {} THEN Max(times) ELSE Max(past)

ImbalanceSeries(cpu) ==
    [t \in Instants(cpu) |-> Spread([n \in Measured(cpu) |-> cpu[n][Held(DOMAIN cpu[n], t)]])]

\* The report prints its mean.
OverTime(telemetry, nodes) == ImbalanceSeries(UsageSeries(telemetry, nodes))

-----------------------------------------------------------------------------
(* The report: rows is watch.csv, listed what pods.json lists, or Missing. *)

Counts(listed, expected) ==
    LET succeeded == Cardinality(Succeeded(listed))
        failed    == Cardinality(Failed(listed))
    IN  [succeeded |-> succeeded, failed |-> failed, unfinished |-> expected - succeeded - failed]

Figures(listed, rows, pods) ==
    LET expected == Cardinality(pods)
    IN  [counts    |-> IF listed = Missing THEN Missing ELSE Counts(listed, expected),
         makespan  |-> IF listed = Missing THEN Missing ELSE Makespan(listed, expected),
         placement |-> Placement(rows, pods),
         ended     |-> WatchEnded(rows)]
================================================================================
