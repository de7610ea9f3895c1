---------------------------- MODULE QueryRouting ----------------------------
(***************************************************************************)
(* How a QueryDispatcher (query_dispatcher.py) answers one question: which *)
(* metrics it derives and from what, how an anomaly scan covers the pairs, *)
(* what series it analyses and how it projects a what-if scenario.         *)
(*                                                                         *)
(* A question carries what it needs of the world: what the adapter answers *)
(* (an integer, or NoValue when the call raises), what the services know.  *)
(* An answer is [ok |-> TRUE, value |-> n] or [ok |-> FALSE, why |-> code].*)
(* Values divide exactly in the instances; rounding is left out, and so    *)
(* are the audit record and the wording of an answer.                      *)
(***************************************************************************)
EXTENDS Integers, Sequences, FiniteSetsExt, SequencesExt, Lists

CONSTANTS
    NoValue,    \* the adapter's call raised
    Asks        \* the questions of an instance, records with a field `op`

VARIABLES
    ask,        \* the question, or one of another module
    reply       \* its answer, or Unanswered

vars == <<ask, reply>>

Unanswered == [ok |-> FALSE, why |-> "unanswered"]
Value(n) == [ok |-> TRUE, value |-> n]
Refused(code) == [ok |-> FALSE, why |-> code]
Abs(n) == IF n < 0 THEN -n ELSE n
Called(n) == IF n = NoValue THEN Refused("adapter") ELSE Value(n)

----------------------------------------------------------------------------
(* KPIs and trends.                                                        *)

\* A mapping of an asset: its capability mode, its native bindings and its
\* metric resources.  Without a mapping nothing is excluded.
EnergyTotalOnly(map) ==
    \/ map.mode = "energy_only"
    \/ map.resources = {"energy_total"}
    \/ map.mode = "" /\ map.native = {"energy_total"}

\* The row of the asset itself, else the first one of whose names it is once case
\* and punctuation are dropped: the key, the display name, an alias.
ResolveAssetMapping(a) ==
    LET direct == FirstWhere(a.rows, LAMBDA r : r.key = a.asset) IN
    IF direct # {} THEN direct ELSE FirstWhere(a.rows, LAMBDA r : a.normal # "" /\ a.normal \in r.names)

EnsureMetricSupported(a) ==
    ~(a.metric = "energy_per_unit" /\ \E map \in ResolveAssetMapping(a) : EnergyTotalOnly(map))

DerivedCarbon(a) ==
    a.metric \in {"co2_total", "co2_per_unit", "co2_per_batch"} /\ "carbon" \notin a.native

DerivedSupplementary(a) ==
    a.metric \in {"energy_per_unit", "material_efficiency"} /\ "production" \in a.services /\ a.metric \notin a.native

\* derive_co2_total and derive_co2_per_unit of the CO2 service.
Co2(energy, factor, count) ==
    IF count <= 0 THEN Refused("validation")
    ELSE IF factor <= 0 THEN Refused("configuration") ELSE Value((energy * factor) \div count)

\* A mutant of DeriveCo2PerUnit: the summary is not validated.
DeriveCo2PerUnitUnchecked(a) ==
    IF "production" \notin a.services THEN Refused("unsupported")
    ELSE IF a.energy = NoValue THEN Refused("adapter")
    ELSE Value(IF a.produced = 0 THEN 0 ELSE (a.energy * a.factor) \div a.produced)

DeriveCo2PerUnit(a) ==
    IF "production" \notin a.services THEN Refused("unsupported")
    ELSE IF a.energy = NoValue THEN Refused("adapter")
    ELSE IF a.produced = 0 THEN Refused("unsupported")
    ELSE Co2(a.energy, a.factor, a.produced)

DeriveCarbonKpi(a) ==
    CASE a.metric = "co2_total" ->
            IF a.energy = NoValue THEN Refused("adapter") ELSE Co2(a.energy, a.factor, 1)
      [] a.metric = "co2_per_unit" -> DeriveCo2PerUnit(a)
      [] OTHER -> Refused("unsupported")

DeriveEnergyPerUnit(a) ==
    IF a.energy = NoValue THEN Refused("adapter")
    ELSE IF a.produced = 0 THEN Refused("unsupported") ELSE Value(a.energy \div a.produced)

DeriveMaterialEfficiency(a) ==
    IF a.produced = 0 THEN Refused("unsupported") ELSE Value((100 * a.good) \div a.produced)

GetKpi(a) ==
    IF ~EnsureMetricSupported(a) THEN Refused("unsupported")
    ELSE IF DerivedCarbon(a) /\ "co2" \in a.services THEN DeriveCarbonKpi(a)
    ELSE IF DerivedSupplementary(a)
         THEN IF a.metric = "energy_per_unit" THEN DeriveEnergyPerUnit(a) ELSE DeriveMaterialEfficiency(a)
    ELSE Called(a.direct)

\* One point of a trend stands for all: each is multiplied by the factor, which
\* is not looked at here.
DeriveCarbonTrend(a) ==
    IF a.metric # "co2_total" THEN Refused("unsupported")
    ELSE IF a.energy = NoValue THEN Refused("adapter") ELSE Value(a.energy * a.factor)

GetTrend(a) ==
    IF DerivedCarbon(a) /\ "co2" \in a.services THEN DeriveCarbonTrend(a) ELSE Called(a.direct)

----------------------------------------------------------------------------
(* Analysis: a series is a sequence of ages in days, oldest first.         *)

\* The raw points, sorted, if there are two; else a KPI of each past day, where
\* one is to be had.  Today is not among them.
CollectAnalysisSeries(p) ==
    IF p.raw # NoValue /\ Len(p.raw) >= 2 THEN Sorted(p.raw, LAMBDA x, y : x > y)
    ELSE SelectSeq([i \in 1..p.days |-> p.days + 1 - i], LAMBDA age : age \in p.daily)

\* The outcome of one pair: detect_anomaly is asked with two points at least,
\* the newest at most three days old.
CheckPair(p) ==
    LET series == CollectAnalysisSeries(p) IN
    IF Len(series) < 2 THEN "insufficient"
    ELSE IF series[Len(series)] > 3 THEN "stale"
    ELSE IF p.detect = NoValue THEN "failed" ELSE "successful"

Severities == <<"low", "medium", "high", "critical">>
SeverityRank(s) == IF \E i \in 1..4 : Severities[i] = s THEN CHOOSE i \in 1..4 : Severities[i] = s ELSE 0

\* A mutant of SortScanFindings: the severities are compared as words.
SortScanFindingsByDeviation(f) == Sorted(f, LAMBDA x, y : x.deviation > y.deviation)

SortScanFindings(f) ==
    Sorted(f, LAMBDA x, y : \/ SeverityRank(x.severity) > SeverityRank(y.severity)
                            \/ SeverityRank(x.severity) = SeverityRank(y.severity) /\ x.deviation > y.deviation)

\* The adapter's pairs, filtered, or every metric with every asset.
ResolveScanPairs(a) ==
    LET only(one, all) == IF one # "" THEN {one} ELSE all IN
    IF a.pairs = {} THEN only(a.metric, a.metrics) \X only(a.asset, a.assets)
    ELSE {p \in a.pairs : (a.metric = "" \/ p[1] = a.metric) /\ (a.asset = "" \/ p[2] = a.asset)}

\* Every pair is checked on its own, and one that raises counts as failed.
ScanAllPairs(pairs, check) ==
    [attempted |-> Cardinality(pairs),
     count |-> [o \in {"successful", "failed", "stale", "insufficient"} |->
                   Cardinality({p \in pairs : CheckPair(check[p]) = o})],
     findings |-> LET hit == SetToSeq({p \in pairs : CheckPair(check[p]) = "successful" /\ check[p].detect.anomalous})
                  IN  [i \in DOMAIN hit |-> check[hit[i]].detect]]

ScanAnomalies(a) ==
    IF ~a.prevention THEN Refused("unconfigured")
    ELSE LET scan == ScanAllPairs(ResolveScanPairs(a), a.check) IN
         [ok |-> TRUE, attempted |-> scan.attempted, count |-> scan.count,
          findings |-> SortScanFindings(scan.findings)]

\* A check of one pair asks the client whatever the series is.
CheckAnomaly(a) ==
    IF ~a.prevention THEN Refused("unconfigured")
    ELSE IF a.one.detect = NoValue THEN Refused("prevention")
    ELSE [ok |-> TRUE, points |-> Len(CollectAnalysisSeries(a.one)), anomalous |-> a.one.detect.anomalous]

\* A forecast is put beside the last value of the series and the average of
\* its last seven; the change is a percentage of a last value other than zero.
ForecastContext(predicted, values) ==
    IF values = <<>> THEN [direction |-> "none"]
    ELSE LET recent == values[Len(values)]
             change == predicted - recent
             big == recent # 0 /\ 100 * Abs(change) >= Abs(recent)
         IN  [window |-> Min({7, Len(values)}),
              direction |-> IF ~big THEN "stable" ELSE IF change > 0 THEN "increasing" ELSE "decreasing"]

----------------------------------------------------------------------------
(* What-if scenarios.  Percentages are whole numbers.                      *)

ParameterChange(p) ==
    IF p.name = "target_value" THEN 0
    ELSE IF p.baseline = 0 THEN (IF p.unit = "%" THEN p.proposed ELSE 0)
    ELSE ((p.proposed - p.baseline) * 100) \div p.baseline

ScenarioChange(ps) ==
    Max({-95, Min({300, FoldLeft(LAMBDA sum, p : sum + ParameterChange(p), 0, ps)})})

TargetValue(ps) == SelectSeq(ps, LAMBDA p : p.name = "target_value")

\* Today's value, else last week's, else last month's, else the last error.
WhatIfBaseline(found) ==
    LET first == FirstWhere(found, LAMBDA v : v # NoValue) IN
    IF first = {} THEN Refused("adapter") ELSE Value(CHOOSE v \in first : TRUE)

Confidence(percent) == IF Abs(percent) <= 10 THEN 65 ELSE IF Abs(percent) <= 25 THEN 55 ELSE 45

\* Values are kept times 100, so that a percentage of one is whole.
SimulateWhatIf(a) ==
    IF a.parameters = <<>> THEN Refused("invalid")
    ELSE LET base == WhatIfBaseline(a.found)
             target == TargetValue(a.parameters)
             change == ScenarioChange(a.parameters)
             old == 100 * base.value
             new == IF target # <<>> THEN Max({0, 100 * Head(target).proposed})
                    ELSE Max({0, base.value * (100 + change)})
             percent == IF old = 0 THEN change ELSE ((new - old) * 100) \div old
         IN  IF ~base.ok THEN base
             ELSE [ok |-> TRUE, baseline |-> old, projected |-> new, percent |-> percent,
                   confidence |-> Confidence(percent)]

----------------------------------------------------------------------------

Answer(a) ==
    CASE a.op = "kpi" -> GetKpi(a)
      [] a.op = "trend" -> GetTrend(a)
      [] a.op = "scan" -> ScanAnomalies(a)
      [] a.op = "anomaly" -> CheckAnomaly(a)
      [] a.op = "forecast" -> ForecastContext(a.predicted, a.series)
      [] a.op = "whatif" -> SimulateWhatIf(a)

Init == ask \in Asks /\ reply = Unanswered

Next ==
    /\ ask \in Asks /\ reply = Unanswered
    /\ reply' = Answer(ask)
    /\ UNCHANGED ask

----------------------------------------------------------------------------
(* Properties of every answer.                                             *)

Answered(op) == ask \in Asks /\ reply # Unanswered /\ ask.op = op

\* A derived KPI is what the data lifecycle says it is, energy and factor over
\* the units produced, or the question is refused: no missing energy, factor or
\* production count ever turns into a number (query_dispatcher.py:1199, 1379).
DerivedKpiHasItsData ==
    (Answered("kpi") /\ reply.ok /\ "co2" \in ask.services /\ DerivedCarbon(ask)) =>
        LET per == IF ask.metric = "co2_per_unit" THEN ask.produced ELSE 1 IN
        /\ ask.metric # "co2_per_batch" /\ ask.energy # NoValue
        /\ ask.factor > 0 /\ per > 0
        /\ reply.value * per = ask.energy * ask.factor

\* A scan accounts for every pair it attempted exactly once, reports anomalies
\* of checked pairs only, and reports a worse one never after a lesser one.
ScanAccountsForPairs ==
    (Answered("scan") /\ reply.ok) =>
        /\ reply.count["successful"] + reply.count["failed"] + reply.count["stale"] + reply.count["insufficient"]
              = Cardinality(ResolveScanPairs(ask))
        /\ Len(reply.findings) <= reply.count["successful"]
        /\ \A i, j \in 1..Len(reply.findings) : i < j =>
              SeverityRank(reply.findings[i].severity) >= SeverityRank(reply.findings[j].severity)
=============================================================================
