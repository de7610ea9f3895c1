---------------------------- MODULE SiteProgress ----------------------------
(***************************************************************************)
(* The progress report of a site (routers/kpi_progress.py): it reads all   *)
(* baselines, then the snapshots of one metric after the other, then all   *)
(* baselines again (kpi_measurement.py), and compares what it has read     *)
(* with the targets (kpi_progress_calc.py).  Each read is a transaction;   *)
(* the collector and other requests write in between.                     *)
(***************************************************************************)
EXTENDS Integers, Sequences, FiniteSetsExt

CONSTANTS
    KpiMetrics,     \* the metrics, in the order the table is read
    Targets,        \* per metric: [percent, direction]; (0, "reduction") if it has none
    Values,         \* values of baselines and snapshots
    MaxTime,        \* bound: times of measurement
    MaxWrites       \* bound: writes

VARIABLES
    base,       \* the value of each metric's baseline, or NoBaseline
    snaps,      \* the snapshots of each metric, in the order they were recorded
    req,        \* the request: where it is, what it has read, its answer
    raced,      \* metrics written since the request under way began
    spent       \* writes so far

vars == <<base, snaps, req, raced, spent>>

NoBaseline == -1
Metrics == {KpiMetrics[i] : i \in DOMAIN KpiMetrics}
Baselined == {m \in Metrics : base[m] # NoBaseline}
Idle == [pc |-> "idle", count |-> 0, todo |-> {}, current |-> [m \in {} |-> 0], met |-> [m \in {} |-> FALSE]]

\* Of these metrics, the one that the table has first.
Place(m) == CHOOSE i \in DOMAIN KpiMetrics : KpiMetrics[i] = m
First(S) == CHOOSE m \in S : \A k \in S : Place(m) <= Place(k)

\* The improvement in percent of the baseline, times the baseline.
Improvement(baseline, current, direction) ==
    IF direction = "reduction" THEN (baseline - current) * 100 ELSE (current - baseline) * 100

\* A mutant of TargetMet: a target just reached is not met.
TargetMetBeyond(m, baseline, current) ==
    IF baseline = 0 THEN 0 >= Targets[m].percent
    ELSE Improvement(baseline, current, Targets[m].direction) > Targets[m].percent * baseline

\* A baseline of zero counts as no improvement.
TargetMet(m, baseline, current) ==
    IF baseline = 0 THEN 0 >= Targets[m].percent
    ELSE Improvement(baseline, current, Targets[m].direction) >= Targets[m].percent * baseline

\* A mutant of Latest: the snapshot recorded last.
LatestRecorded(m) == IF snaps[m] = <<>> THEN {} ELSE {snaps[m][Len(snaps[m])].value}

\* The last snapshot in the order of measured_at; the database may put any of
\* several at one time last.
Latest(m) ==
    {snaps[m][i].value : i \in {k \in DOMAIN snaps[m] : \A j \in DOMAIN snaps[m] : snaps[m][j].at <= snaps[m][k].at}}

----------------------------------------------------------------------------

Init ==
    /\ base = [m \in Metrics |-> NoBaseline]
    /\ snaps = [m \in Metrics |-> <<>>]
    /\ req = Idle
    /\ raced = {}
    /\ spent = 0

Writes(m) ==
    /\ spent < MaxWrites /\ spent' = spent + 1
    /\ raced' = IF req.pc = "idle" THEN {} ELSE raced \cup {m}
    /\ UNCHANGED req

\* Records or replaces the baseline, one for each metric of the site.
RecordBaseline(m, value) ==
    /\ Writes(m) /\ base' = [base EXCEPT ![m] = value]
    /\ UNCHANGED snaps

DeleteBaseline(m) ==
    /\ base[m] # NoBaseline
    /\ Writes(m) /\ base' = [base EXCEPT ![m] = NoBaseline]
    /\ UNCHANGED snaps

\* The collector measures now, a backfill records what was measured earlier.
RecordSnapshot(m, value, at) ==
    /\ Writes(m) /\ snaps' = [snaps EXCEPT ![m] = Append(@, [value |-> value, at |-> at])]
    /\ UNCHANGED base

ReadBaselines ==
    /\ req.pc = "idle"
    /\ req' = [Idle EXCEPT !.pc = "snapshots", !.count = Cardinality(Baselined), !.todo = Baselined]
    /\ UNCHANGED <<base, snaps, raced, spent>>

\* A metric without a snapshot has no current value.
ReadSnapshots ==
    /\ req.pc = "snapshots" /\ req.todo # {}
    /\ LET m == First(req.todo) IN
       \/ Latest(m) = {} /\ req' = [req EXCEPT !.todo = @ \ {m}]
       \/ \E value \in Latest(m) :
             req' = [req EXCEPT !.todo = @ \ {m},
                                !.current = [k \in DOMAIN @ \cup {m} |-> IF k = m THEN value ELSE @[k]]]
    /\ UNCHANGED <<base, snaps, raced, spent>>

\* get_all_progress reads the baselines again and the answer counts what it has
\* for them.
Answer ==
    /\ req.pc = "snapshots" /\ req.todo = {}
    /\ req' = [req EXCEPT !.pc = "answered",
                          !.met = [m \in Baselined \cap DOMAIN req.current |-> TargetMet(m, base[m], req.current[m])]]
    /\ UNCHANGED <<base, snaps, raced, spent>>

Return ==
    /\ req.pc = "answered"
    /\ req' = Idle /\ raced' = {}
    /\ UNCHANGED <<base, snaps, spent>>

Next ==
    \/ ReadBaselines \/ ReadSnapshots \/ Answer \/ Return
    \/ \E m \in Metrics : \/ DeleteBaseline(m)
                          \/ \E value \in Values : RecordBaseline(m, value)
                          \/ \E value \in Values, at \in 0..MaxTime : RecordSnapshot(m, value, at)

Spec == Init /\ [][Next]_vars

----------------------------------------------------------------------------

\* The target says how far below, or above, its baseline a value must lie.
Reaches(m, value) ==
    LET percent == Targets[m].percent IN
    \/ base[m] > 0 /\ Targets[m].direction = "reduction" /\ value * 100 <= base[m] * (100 - percent)
    \/ base[m] > 0 /\ Targets[m].direction # "reduction" /\ value * 100 >= base[m] * (100 + percent)
    \/ base[m] = 0 /\ percent = 0

\* The report never shows more metrics than it counts baselines, whatever is
\* written while it is put together; and of the metrics nobody writes meanwhile
\* it shows those with a baseline and a snapshot, each with the verdict on what
\* was measured last, which need not be what was recorded last
\* (routers/kpi_progress.py:226).
ProgressIsConsistent ==
    req.pc = "answered" =>
        /\ Cardinality(DOMAIN req.met) <= req.count
        /\ \A m \in Metrics \ raced :
              /\ m \in DOMAIN req.met <=> base[m] # NoBaseline /\ snaps[m] # <<>>
              /\ m \in DOMAIN req.met => \E i \in DOMAIN snaps[m] :
                    /\ \A j \in DOMAIN snaps[m] : snaps[m][j].at <= snaps[m][i].at
                    /\ req.met[m] = Reaches(m, snaps[m][i].value)
=============================================================================
