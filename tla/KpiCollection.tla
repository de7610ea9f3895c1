--------------------------- MODULE KpiCollection ---------------------------
(***************************************************************************)
(* KPI collection of the web UI: the scheduler (kpi_scheduler.py), the     *)
(* collector (kpi_collector.py) and the KPI tables they share with the     *)
(* REST routes (kpi_measurement.py, routers/kpi_progress.py).              *)
(*                                                                         *)
(* Two coroutines of one event loop write the tables: "boot" runs once     *)
(* after start-up (seed, backfill, realign, collect) and "loop" collects   *)
(* every interval.  They give way to each other only at an await, so a     *)
(* step below goes from one await to the next.  The REST routes run in     *)
(* worker threads and interleave with every table access of both.          *)
(*                                                                         *)
(* Time is counted in months, since the collector asks for the previous    *)
(* calendar month: the trend point of month k is at 2 * k, and what is     *)
(* measured in month k at 2 * k + 1.  A row is what it was read from, when *)
(* and on which platform; equal rows stand for equal values.  Snapshots    *)
(* measured in one month count as one; equal trend points are counted up   *)
(* to MinPoints.  Adapters are left out: each call opens its own and closes  *)
(* it in a finally block.                                                  *)
(***************************************************************************)
EXTENDS Integers, Sequences, FiniteSetsExt

CONSTANTS
    KpiMetrics,     \* _KPI_METRICS, a sequence
    MinPoints,      \* min_existing_points: as many snapshots stop a backfill
    MaxRetries,     \* _MAX_RETRIES
    LastMonth,      \* bound: the months that pass
    MaxPlatform,    \* bound: how often a platform is configured
    MaxStarts,      \* bound: starts of the service
    MaxRounds,      \* bound: intervals that end
    MaxRequests     \* bound: requests to the REST routes

VARIABLES
    task,       \* per coroutine: where it waits, its metrics left, what it read
    base,       \* the baseline row of each metric, or None
    snaps,      \* how many snapshots of each metric equal a given row
    clock,      \* the month, and the platform configured (0: none)
    raced,      \* metrics whose rows a request changed since the start
    spent       \* the service's starts, intervals and requests so far

vars == <<task, base, snaps, clock, raced, spent>>

None == [src |-> "none", at |-> 0, plat |-> 0]
Metrics == {KpiMetrics[i] : i \in DOMAIN KpiMetrics}
Rows == [src: {"trend", "live", "admin"}, at: 0..(2 * LastMonth + 1), plat: 0..MaxPlatform]
Idle == [pc |-> "off", todo |-> {}, try |-> 1, seen |-> {}, at |-> [month |-> 1, plat |-> 0]]

\* Of the metrics left, the one that _KPI_METRICS names first, and the others.
Place(m) == CHOOSE i \in DOMAIN KpiMetrics : KpiMetrics[i] = m
First(S) == CHOOSE m \in S : \A k \in S : Place(m) <= Place(k)
Rest(S) == S \ {First(S)}

\* `at` is the month and the platform a call of the collector began with; its
\* period is the previous calendar month, TimePeriod.last_month().
InWindow(row, at) == row.at \in {2 * at.month - 2, 2 * at.month - 1}
Trend(k, at) == [src |-> "trend", at |-> 2 * k, plat |-> at.plat]
Live(at) == [src |-> "live", at |-> 2 * at.month + 1, plat |-> at.plat]
Typed == [src |-> "admin", at |-> 2 * clock.month + 1, plat |-> 0]

\* What get_trend answers: the previous month, or all it has when the
\* platform ignores the dates of the request.
TrendPoints(at) ==
    {Trend(k, at) : k \in IF clock.honours THEN {at.month - 1} ELSE 0..at.month}

\* _derive_co2_total and _derive_material_efficiency.
Derivable(m, up) ==
    \/ m = "co2_total" /\ "energy" \in up
    \/ m = "material_efficiency" /\ "production" \in up

\* What get_trend, get_kpi, the factor for the energy total and the production
\* records give a collector: any of them may be missing.
Sources == {"trend", "direct"} \cup {s \in {"energy", "production"} : \E m \in Metrics : Derivable(m, {s})}

MetricResult(m, up, at) ==
    IF "direct" \in up \/ Derivable(m, up) THEN Live(at) ELSE None

Stored(m) == {r \in Rows : snaps[m][r] > 0}
Total(m, R) == MapThenSumSet(LAMBDA r : snaps[m][r], R)
Earliest(S) == CHOOSE r \in S : \A q \in S : r.at <= q.at
Counted(r, n) == IF r.src = "trend" /\ n < MinPoints THEN n + 1 ELSE IF n = 0 THEN 1 ELSE n
\* The oldest trend point of the period, else the value of the metric.
BaselineResult(m, up, at) ==
    IF "trend" \in up THEN Earliest(TrendPoints(at)) ELSE MetricResult(m, up, at)

Recorded(m, R) == [snaps EXCEPT ![m] = [r \in Rows |-> IF r \in R THEN Counted(r, @[r]) ELSE @[r]]]

Init ==
    /\ task = [t \in {"boot", "loop"} |-> Idle]
    /\ base = [m \in Metrics |-> None]
    /\ snaps = [m \in Metrics |-> [r \in Rows |-> 0]]
    /\ clock \in [month: {1}, plat: {0}, honours: BOOLEAN]
    /\ raced = {}
    /\ spent = [starts |-> 0, rounds |-> 0, requests |-> 0]

----------------------------------------------------------------------------
(* The scheduler.  No other coroutine runs while "boot" realigns, which    *)
(* has no await.                                                           *)

\* `t` takes a step that leaves it waiting at `pc` with the metrics `todo`.
Goto(t, pc, todo) ==
    task' = [task EXCEPT ![t].pc = pc, ![t].todo = todo, ![t].seen = {},
                         ![t].at = IF todo = {} THEN Idle.at ELSE @]

\* A call begins: it reads the clock, and create_async the configuration.
Open(t, pc, todo) ==
    task' = [task EXCEPT ![t].pc = pc, ![t].todo = todo,
                         ![t].at = [month |-> clock.month, plat |-> clock.plat]]
LoopFree(t) == t = "boot" \/ task["boot"].pc # "aligning"

\* The adapter could not be created, or a table could not be written.
Fail(t) ==
    LET next == IF task[t].try < MaxRetries THEN [pc |-> "sleep", try |-> task[t].try + 1]
                ELSE [pc |-> IF t = "boot" THEN "done" ELSE "wait", try |-> 1]
    IN  task' = [task EXCEPT ![t] = [Idle EXCEPT !.pc = next.pc, !.try = next.try]]

StartService ==
    /\ task = [t \in {"boot", "loop"} |-> Idle]
    /\ spent.starts < MaxStarts
    /\ task' = [t \in {"boot", "loop"} |-> [Idle EXCEPT !.pc = IF t = "boot" THEN "seed" ELSE "wait"]]
    /\ raced' = {}
    /\ spent' = [spent EXCEPT !.starts = @ + 1]
    /\ UNCHANGED <<base, snaps, clock>>

\* Shutdown cancels both coroutines at their await; a crash ends them there.
StopService ==
    /\ task["loop"].pc # "off"
    /\ task' = [t \in {"boot", "loop"} |-> Idle]
    /\ UNCHANGED <<base, snaps, clock, raced, spent>>

\* The backoff is over.
Wake(t) ==
    /\ LoopFree(t) /\ task[t].pc = "sleep"
    /\ Goto(t, IF t = "boot" THEN "seed" ELSE "coll", {})
    /\ UNCHANGED <<base, snaps, clock, raced, spent>>

\* The interval is over.
IntervalEnds ==
    /\ LoopFree("loop") /\ task["loop"].pc = "wait"
    /\ spent.rounds < MaxRounds
    /\ Goto("loop", "coll", {})
    /\ spent' = [spent EXCEPT !.rounds = @ + 1]
    /\ UNCHANGED <<base, snaps, clock, raced>>

----------------------------------------------------------------------------
(* The collector.                                                          *)

\* A mutant of SeedBegin: every metric is seeded.
SeedAll ==
    /\ task["boot"].pc = "seed"
    /\ clock.plat # 0 /\ Open("boot", "seeding", Metrics)
    /\ UNCHANGED <<base, snaps, clock, raced, spent>>

\* seed_baselines, create_async: every other stage starts as this one does.
SeedBegin ==
    LET missing == {m \in Metrics : base[m] = None} IN
    /\ task["boot"].pc = "seed"
    /\ \/ clock.plat = 0 /\ Goto("boot", "back", {})
       \/ clock.plat # 0 /\ Open("boot", IF missing = {} THEN "back" ELSE "seeding", missing)
       \/ clock.plat # 0 /\ missing # {} /\ Fail("boot")
    /\ UNCHANGED <<base, snaps, clock, raced, spent>>

\* The answer for the next missing metric; without one the metric is skipped.
SeedNext ==
    LET b == task["boot"] m == First(b.todo) IN
    /\ b.pc = "seeding" /\ b.todo # {}
    /\ \E up \in SUBSET Sources : LET row == BaselineResult(m, up, b.at) IN
          base' = IF row = None THEN base ELSE [base EXCEPT ![m] = row]
    /\ Goto("boot", IF Rest(b.todo) = {} THEN "back" ELSE "seeding", Rest(b.todo))
    /\ UNCHANGED <<snaps, clock, raced, spent>>

BackBegin ==
    /\ task["boot"].pc = "back"
    /\ \/ clock.plat = 0 /\ Goto("boot", "align", {})
       \/ clock.plat # 0 /\ Open("boot", "backfilling", Metrics)
       \/ clock.plat # 0 /\ Fail("boot")
    /\ UNCHANGED <<base, snaps, clock, raced, spent>>

\* A mutant of BackRead: the recorded times are not looked up.
BackReadNothing ==
    /\ task["boot"].pc = "backfilling"
    /\ IF task["boot"].todo = {} THEN Goto("boot", "align", {})
       ELSE task' = [task EXCEPT !["boot"].pc = "filling"]
    /\ UNCHANGED <<base, snaps, clock, raced, spent>>

\* The rows of the period are read before the trend is awaited.
BackRead ==
    LET b == task["boot"] m == First(b.todo)
        existing == {r \in Stored(m) : InWindow(r, b.at)} IN
    /\ b.pc = "backfilling"
    /\ IF b.todo = {} THEN Goto("boot", "align", {})
       ELSE IF Total(m, existing) >= MinPoints THEN Goto("boot", "backfilling", Rest(b.todo))
       ELSE task' = [task EXCEPT !["boot"].pc = "filling", !["boot"].seen = {r.at : r \in existing}]
    /\ UNCHANGED <<base, snaps, clock, raced, spent>>

\* Points at a time not read before are added; a failed trend skips the
\* metric, a failed write leaves the earlier points and fails the attempt.
BackNext ==
    LET b == task["boot"] m == First(b.todo)
        new == {p \in TrendPoints(b.at) : p.at \notin b.seen} IN
    /\ b.pc = "filling"
    /\ \/ snaps' = Recorded(m, new) /\ Goto("boot", "backfilling", Rest(b.todo))
       \/ UNCHANGED snaps /\ Goto("boot", "backfilling", Rest(b.todo))
       \/ \E p \in new : snaps' = Recorded(m, {q \in new : q.at < p.at}) /\ Fail("boot")
    /\ UNCHANGED <<base, clock, raced, spent>>

\* realign_baselines_to_earliest_snapshot reads all baselines first ...
AlignBegin ==
    /\ task["boot"].pc = "align"
    /\ task' = [task EXCEPT !["boot"].pc = "aligning",
                            !["boot"].todo = {m \in Metrics : base[m] # None},
                            !["boot"].seen = {[m |-> m, row |-> base[m]] : m \in Metrics}]
    /\ UNCHANGED <<base, snaps, clock, raced, spent>>

\* A mutant of AlignNext: two snapshots are not enough.
AlignFromThree ==
    LET b == task["boot"] m == First(b.todo)
        read == (CHOOSE s \in b.seen : s.m = m).row
        first == Earliest(Stored(m)) IN
    /\ b.pc = "aligning" /\ b.todo # {}
    /\ base' = IF Total(m, Stored(m)) <= 2 \/ read = first THEN base ELSE [base EXCEPT ![m] = first]
    /\ task' = [task EXCEPT !["boot"].todo = Rest(b.todo)]
    /\ UNCHANGED <<snaps, clock, raced, spent>>

\* ... and compares what it read with the snapshots of one metric after the other.
AlignNext ==
    LET b == task["boot"] m == First(b.todo)
        read == (CHOOSE s \in b.seen : s.m = m).row
        first == Earliest(Stored(m)) IN
    /\ b.pc = "aligning" /\ b.todo # {}
    /\ base' = IF Total(m, Stored(m)) < 2 \/ read = first THEN base ELSE [base EXCEPT ![m] = first]
    /\ task' = [task EXCEPT !["boot"].todo = Rest(b.todo)]
    /\ UNCHANGED <<snaps, clock, raced, spent>>

\* A table cannot be read, or an aligned baseline not written.
TableFails ==
    LET b == task["boot"] IN
    /\ b.pc \in {"seed", "align"} \/ (b.pc \in {"backfilling", "aligning"} /\ b.todo # {})
    /\ clock.plat = 0 => b.pc # "seed"
    /\ Fail("boot")
    /\ UNCHANGED <<base, snaps, clock, raced, spent>>

AlignEnd ==
    /\ task["boot"].pc = "aligning" /\ task["boot"].todo = {}
    /\ Goto("boot", "coll", {})
    /\ UNCHANGED <<base, snaps, clock, raced, spent>>

\* collect_snapshots, of either coroutine.
CollectBegin(t) ==
    /\ LoopFree(t) /\ task[t].pc = "coll"
    /\ \/ clock.plat = 0 /\ Goto(t, "collecting", {})
       \/ clock.plat # 0 /\ Open(t, "collecting", Metrics)
       \/ clock.plat # 0 /\ Fail(t)
    /\ UNCHANGED <<base, snaps, clock, raced, spent>>

\* A value that cannot be had is skipped.
CollectNext(t) ==
    LET todo == task[t].todo m == First(todo) IN
    /\ LoopFree(t) /\ task[t].pc = "collecting" /\ todo # {}
    /\ \E up \in SUBSET Sources : LET row == MetricResult(m, up, task[t].at) IN
          snaps' = IF row = None THEN snaps ELSE Recorded(m, {row})
    /\ Goto(t, "collecting", Rest(todo))
    /\ UNCHANGED <<base, clock, raced, spent>>

CollectEnd(t) ==
    /\ LoopFree(t) /\ task[t].pc = "collecting" /\ task[t].todo = {}
    /\ task' = [task EXCEPT ![t] = [Idle EXCEPT !.pc = IF t = "boot" THEN "done" ELSE "wait"]]
    /\ UNCHANGED <<base, snaps, clock, raced, spent>>

----------------------------------------------------------------------------
(* The REST routes, the calendar and the profile routes.                   *)

Request == spent.requests < MaxRequests /\ spent' = [spent EXCEPT !.requests = @ + 1]

PostBaseline(m) ==
    /\ Request
    /\ base' = [base EXCEPT ![m] = Typed]
    /\ raced' = raced \cup {m}
    /\ UNCHANGED <<task, snaps, clock>>

DeleteBaseline(m) ==
    /\ Request /\ base[m] # None
    /\ base' = [base EXCEPT ![m] = None]
    /\ raced' = raced \cup {m}
    /\ UNCHANGED <<task, snaps, clock>>

PostSnapshot(m) ==
    /\ Request
    /\ snaps' = Recorded(m, {Typed})
    /\ raced' = raced \cup {m}
    /\ UNCHANGED <<task, base, clock>>

NextMonth ==
    /\ clock.month < LastMonth
    /\ clock' = [clock EXCEPT !.month = @ + 1]
    /\ UNCHANGED <<task, base, snaps, raced, spent>>

\* A profile is activated: the tables are kept.
ConfigurePlatform ==
    /\ clock.plat < MaxPlatform
    /\ clock' = [clock EXCEPT !.plat = @ + 1]
    /\ UNCHANGED <<task, base, snaps, raced, spent>>

Boot ==
    \/ SeedBegin \/ SeedNext \/ BackBegin \/ BackRead \/ BackNext
    \/ AlignBegin \/ AlignNext \/ AlignEnd \/ TableFails

Next ==
    \/ StartService \/ StopService \/ IntervalEnds \/ NextMonth \/ ConfigurePlatform
    \/ Boot
    \/ \E t \in {"boot", "loop"} : Wake(t) \/ CollectBegin(t) \/ CollectNext(t) \/ CollectEnd(t)
    \/ \E m \in Metrics : PostBaseline(m) \/ DeleteBaseline(m) \/ PostSnapshot(m)

----------------------------------------------------------------------------
(* Properties; the last two say what a step may do.                        *)

\* However often the service starts, fails half-way or is stopped, a point of
\* the platform's trend is recorded once, if the platform answers for the
\* period it is asked for: the collector looks for points already recorded
\* within that period alone (kpi_collector.py:290).
PointRecordedOnce ==
    clock.honours => \A m \in Metrics, k \in 0..LastMonth :
        Total(m, {r \in Stored(m) : r.src = "trend" /\ r.at = 2 * k}) <= 1

\* The start-up seeds "missing baselines" only: it never replaces a baseline,
\* unless that baseline was requested while the start-up was under way and
\* held an answer it had asked for before.
SeedKeeps ==
    \A m \in Metrics : (SeedNext /\ base'[m] # base[m]) => base[m] = None \/ m \in raced

\* Realigning leaves every baseline equal to the earliest snapshot of its
\* metric, where there are two at least, and brings no deleted baseline back,
\* unless a request touched that baseline since the start.
Realigns ==
    AlignEnd => \A m \in Metrics \ raced :
        base[m] = None \/ Total(m, Stored(m)) < 2 \/ base[m] = Earliest(Stored(m))

Spec == Init /\ [][Next]_vars
=============================================================================
