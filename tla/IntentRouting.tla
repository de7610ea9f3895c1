----------------------------- MODULE IntentRouting ----------------------------
(***************************************************************************)
(* What the skill makes of an utterance (_handlers.py, _metric_handlers.py,*)
(* _metric_resolver.py, _system_handlers.py and the routing part of        *)
(* dia_dialogue.py): which metric it asks for, which handler answers it,   *)
(* for which period, and as which scenario.                                *)
(*                                                                         *)
(* An utterance is the set of cues that the patterns of the code find in   *)
(* it, one name for the alternatives of a pattern; what a question meets   *)
(* is in the question, and so are the handlers that fail now.  How assets  *)
(* are found is in AssetNaming.  A phrase is one of the table; the names of*)
(* the metrics, looked for after it, are left out.                         *)
(***************************************************************************)
EXTENDS Integers, SequencesExt

CONSTANTS
    None,       \* no metric, no period, no number
    Asks        \* the questions of an instance, records with a field `op`

VARIABLES ask, reply

vars == <<ask, reply>>

Unanswered == [ok |-> FALSE, why |-> "unanswered"]
Refused(code) == [ok |-> FALSE, why |-> code]
First(s, otherwise) == IF s = <<>> THEN otherwise ELSE Head(s)
Amount(n) == IF n < 0 THEN -n ELSE n

----------------------------------------------------------------------------
(* The metric of an utterance.                                             *)

\* Words that decide wherever they stand, the first rule they satisfy.
MetricRules ==
    << [cues |-> {"carbon", "total"}, metric |-> "co2_total"],
       [cues |-> {"carbon", "batch"}, metric |-> "co2_per_batch"],
       [cues |-> {"energy used"}, metric |-> "energy_total"],
       [cues |-> {"power", "produced"}, metric |-> "production_power"],
       [cues |-> {"energy", "grid", "bought"}, metric |-> "energy_grid_import_total"],
       [cues |-> {"energy", "grid", "sold"}, metric |-> "energy_grid_export_total"],
       [cues |-> {"energy", "produced"}, metric |-> "energy_production_total"],
       [cues |-> {"power", "consumed"}, metric |-> "consumption_power"] >>

\* Then the metrics of which a phrase is contained, in the order of the table:
\* "power consumption" is a phrase of consumption_power and of energy_total.
PhraseOrder ==
    <<"storage_state_of_charge", "storage_power", "energy_grid_import_total", "energy_grid_export_total", "grid_power",
      "energy_production_total", "production_power", "consumption_power", "oee", "scrap_rate", "energy_per_unit",
      "energy_total", "peak_demand", "peak_tariff_exposure", "rework_rate", "material_efficiency", "recycled_content",
      "supplier_lead_time", "supplier_defect_rate", "supplier_on_time", "supplier_co2_per_kg", "throughput",
      "cycle_time", "changeover_time", "co2_per_unit", "co2_total", "co2_per_batch">>

ResolveMetric(u) ==
    LET rules == SelectSeq(MetricRules, LAMBDA r : r.cues \subseteq u.cues)
        phrases == SelectSeq(PhraseOrder, LAMBDA m : m \in u.phrases)
    IN  IF rules # <<>> THEN Head(rules).metric
        ELSE IF phrases # <<>> THEN Head(phrases)
        ELSE IF "carbon" \in u.cues THEN "co2_per_unit"
        ELSE IF u.cues \cap {"energy", "power"} # {} THEN "energy_per_unit" ELSE None

\* Where a metric is needed anyway: energy first, else whatever is supported.
DefaultMetric(a) ==
    LET preferred == SelectSeq(<<"energy_per_unit", "energy_total">>, LAMBDA m : Contains(a.supported, m)) IN
    IF ResolveMetric(a.u) # None THEN ResolveMetric(a.u)
    ELSE First(preferred, First(a.supported, "energy_per_unit"))

\* The generic compare and trend handlers ask for a metric that is mapped.
ResolveAndValidateMetric(a) ==
    IF ResolveMetric(a.u) = None THEN Refused("not recognized")
    ELSE IF ~Contains(a.supported, ResolveMetric(a.u)) THEN Refused("not configured")
    ELSE [ok |-> TRUE, metric |-> ResolveMetric(a.u)]

----------------------------------------------------------------------------
(* The handler of an utterance.                                            *)

\* The structured layer leaves the single KPI of a known asset to the others.
SimpleKpi(q) ==
    /\ q.op = "kpi" /\ q.metrics = 1 /\ (q.assets > 0 \/ q.registered = 1)
    /\ q.scope # "all" /\ ~q.followUp /\ ~q.ambiguous

ShouldClaim(q, simple) ==
    /\ q.op # "unknown"
    /\ simple \/ q.op # "kpi" \/ q.metrics > 1 \/ q.scope = "all" \/ q.followUp \/ q.ambiguous

\* A summary with no metric of its own takes the headline metrics.
TryHandleStructured(q, simple) ==
    LET metrics == IF q.metrics = 0 /\ q.op = "summary" THEN q.headline ELSE q.metrics
        assets == IF q.assets = 0 /\ q.registered = 1 THEN 1 ELSE q.assets
    IN  IF ~ShouldClaim(q, simple) \/ SimpleKpi(q) \/ q.op = "whatif" THEN "declined"
        ELSE IF q.ambiguous THEN "clarify"
        ELSE IF q.op \in {"control", "anomaly", "drift", "forecast", "capabilities", "status"} THEN q.op
        ELSE IF q.op = "define" THEN (IF q.metrics = 0 THEN "clarify" ELSE "define")
        ELSE IF q.scope = "suppliers" /\ q.assets = 0 THEN "unavailable"
        ELSE IF metrics = 0 \/ assets = 0 THEN "clarify"
        ELSE IF q.op \in {"compare", "rank", "average"} THEN (IF assets < 2 THEN "clarify" ELSE q.op)
        ELSE IF metrics > 1 THEN "summary" ELSE q.op

\* The analysis an utterance asks for, the first in the order the code looks.
AnalysisOf(u) ==
    IF "anomaly" \in u.kinds THEN "anomaly" ELSE IF "drift" \in u.kinds THEN "drift"
    ELSE IF "forecast" \in u.kinds THEN "forecast" ELSE IF "whatif" \in u.kinds THEN "whatif" ELSE None

\* What becomes of an utterance: who takes it up, whether that succeeds, and, for a
\* fallback, whether OVOS goes on to others with it.  _safe_dispatch tells the user
\* of any failure, and the handler then returns nothing.
Dispatched(u, handler) == [by |-> handler, ok |-> handler \notin u.fails, left |-> FALSE]
Left(outcome) == [outcome EXCEPT !.left = ~outcome.ok]

\* The anomaly intent refuses without a PREVENTION client, which a fallback that
\* analyses the series alone does not.
Intent(u, handler) ==
    [Dispatched(u, handler) EXCEPT !.ok = @ /\ (handler = "anomaly" => u.prevention)]

\* The analyses are the intents' handlers, and done whether they succeed or not;
\* nothing catches an error of the structured layer's own answers.
Claimed(u, operation) ==
    IF operation \in {"anomaly", "drift", "forecast"} THEN Intent(u, operation) ELSE Left(Dispatched(u, operation))

\* What the structured layer declines goes on to the rest.
Structured(u, simple, analysis, rest) ==
    IF AnalysisOf(u) # None THEN analysis
    ELSE IF TryHandleStructured(u.query, simple) # "declined" THEN Claimed(u, TryHandleStructured(u.query, simple))
    ELSE rest

\* The handler of every KPI intent, which the parser may have chosen wrongly.
GenericKpi(u) ==
    Structured(u, FALSE, Intent(u, AnalysisOf(u)), Dispatched(u,
        IF "trend" \in u.cues THEN "trend"
        ELSE IF "compare" \in u.cues THEN "compare"
        ELSE IF ResolveMetric(u) = None /\ u.intent = None THEN "unrecognised" ELSE "kpi"))

\* A mutant of IntentFailure: forecasts are not looked for.
IntentFailureUnforeseen(u) ==
    LET rest == Dispatched(u, IF ResolveMetric(u) # None THEN "kpi" ELSE IF u.browser THEN "clarify" ELSE "silent") IN
    IF AnalysisOf(u) = "forecast" THEN rest ELSE Structured(u, TRUE, Dispatched(u, AnalysisOf(u)), rest)

IntentFailure(u) ==
    Structured(u, TRUE, Dispatched(u, AnalysisOf(u)), Dispatched(u,
        IF ResolveMetric(u) # None THEN "kpi" ELSE IF u.browser THEN "clarify" ELSE "silent"))

\* A fallback whose handler fails returns False, as one does that does not know.
Fallback(u) ==
    Structured(u, TRUE, Left(Dispatched(u, AnalysisOf(u))),
        IF ResolveMetric(u) # None THEN Left(Dispatched(u, "kpi"))
        ELSE IF u.browser THEN IntentFailure(u) ELSE [by |-> "others", ok |-> TRUE, left |-> TRUE])

\* What OVOS is told before it offers the utterance to the fallback.
CanAnswer(u) == u.browser \/ ResolveMetric(u) # None \/ u.kinds # {}

\* A list of assets is spoken unless the structured layer has another answer.
ListAssets(u) ==
    LET operation == TryHandleStructured(u.query, FALSE) IN
    IF operation # "declined" THEN Claimed(u, operation) ELSE Dispatched(u, "list")

Routes(u) == [generic |-> GenericKpi(u), fallback |-> Fallback(u), failure |-> IntentFailure(u),
              list |-> ListAssets(u), promised |-> CanAnswer(u)]

----------------------------------------------------------------------------
(* The period of an answer.  A slot or an utterance has the first supported*)
(* phrase of its text; `dated` if there is none and it reads like a date.  *)

RequestedPeriod(a) ==
    IF a.slot.phrase = None
    THEN IF a.said # None THEN a.said ELSE IF a.slot.dated THEN "unsupported" ELSE None
    ELSE IF a.slot.phrase = "today" /\ a.said # "today" THEN None ELSE a.slot.phrase

\* The total of a cumulative meter since its start: only from an asset that
\* counts energy only, bound to it with that default period.
AggregatePeriod(map) ==
    /\ map.mode = "energy_only" /\ map.strategy = "asset_consumption_total"
    /\ map.default \in {"", "aggregate_total"} /\ map.started

TotalEnergyOnly(map) == map.mode = "energy_only" \/ map.native = {"energy_total"} \/ map.resources = {"energy_total"}

ParsePeriod(phrase) == IF phrase = "unsupported" THEN Refused("period") ELSE [ok |-> TRUE, period |-> phrase]

\* A mutant of KpiPeriod: an asset that only counts is asked for the period.
KpiPeriodOfAnyMeter(a) ==
    LET asked == RequestedPeriod(a) IN
    IF asked # None THEN ParsePeriod(asked)
    ELSE IF \E map \in a.mapping : a.metric = "energy_total" /\ AggregatePeriod(map)
         THEN [ok |-> TRUE, period |-> "total"] ELSE [ok |-> TRUE, period |-> "latest"]

KpiPeriod(a) ==
    LET asked == RequestedPeriod(a)
        total == a.metric = "energy_total" /\ \E map \in a.mapping : AggregatePeriod(map)
        counts == a.metric = "energy_total" /\ a.insensitive /\ \E map \in a.mapping : TotalEnergyOnly(map)
    IN  IF asked # None
        THEN IF total \/ counts THEN Refused("no period") ELSE ParsePeriod(asked)
        ELSE [ok |-> TRUE, period |-> IF total THEN "total" ELSE "latest"]

\* The other handlers have a default where the utterance mentions a period.
HandlerPeriod(a) ==
    IF RequestedPeriod(a) # None THEN ParsePeriod(RequestedPeriod(a))
    ELSE [ok |-> TRUE, period |-> IF a.said # None THEN a.default ELSE "latest"]

\* An empty answer for less than two days is asked for again, for last week.
TrendWithFallback(a, period, granularity) ==
    LET of(p, g) == IF a.adapter[p] = "points" THEN [ok |-> TRUE, period |-> p, granularity |-> g] ELSE Refused(a.adapter[p]) IN
    IF a.adapter[period] = "empty" /\ period \notin a.long
    THEN of("last week", IF granularity = "hourly" THEN "daily" ELSE granularity)
    ELSE of(period, granularity)

TrendMetric(a) ==
    IF HandlerPeriod(a).ok THEN TrendWithFallback(a, HandlerPeriod(a).period, a.granularity) ELSE HandlerPeriod(a)

\* The energy trend is hourly for a short period, and without any points the
\* KPI of today is spoken as such.
TrendEnergy(a) ==
    LET p == HandlerPeriod(a).period
        trend == TrendWithFallback(a, p, IF p \notin a.long /\ a.granularity = "daily" THEN "hourly" ELSE a.granularity)
    IN  IF ~HandlerPeriod(a).ok THEN HandlerPeriod(a)
        ELSE IF trend = Refused("empty") THEN [ok |-> TRUE, period |-> "today", granularity |-> "kpi"] ELSE trend

\* Days of a forecast; a month or a week wins over a number.
ForecastHorizon(a) ==
    IF "month" \in a.cues THEN 30 ELSE IF "week" \in a.cues THEN 7
    ELSE IF a.next = None THEN 7 ELSE IF a.next < 1 THEN 1 ELSE IF a.next > 90 THEN 90 ELSE a.next

----------------------------------------------------------------------------
(* What-if scenarios and system questions.                                 *)

HigherIsBetter(metric) == metric \in {"oee", "material_efficiency", "throughput", "recycled_content", "supplier_on_time"}

ChangePercent(a, metric) ==
    LET amount == Amount(IF a.amount = None THEN 5 ELSE a.amount)
        better == IF HigherIsBetter(metric) THEN amount ELSE -amount
    IN  IF {"shift", "peak"} \subseteq a.cues THEN -amount
        ELSE IF "increase" \in a.cues THEN amount
        ELSE IF "reduce" \in a.cues THEN -amount
        ELSE IF "worsen" \in a.cues /\ "improve" \notin a.cues THEN -better ELSE better

WhatIfScenario(a) ==
    LET spoken == ResolveMetric([cues |-> a.cues, phrases |-> a.phrases])
        metric == IF spoken # None THEN spoken ELSE IF "peak" \in a.cues THEN "peak_demand" ELSE "energy_per_unit"
        change == ChangePercent(a, metric)
        bounded == metric \in {"peak_tariff_exposure", "scrap_rate", "rework_rate", "material_efficiency",
                              "recycled_content", "supplier_defect_rate", "supplier_on_time", "oee"}
    IN  IF "process" \in a.cues THEN Refused("no model")
        ELSE IF a.target # None
        THEN IF a.target < 0 \/ (bounded /\ a.target > 100) THEN Refused("target")
             ELSE [ok |-> TRUE, metric |-> metric, target |-> a.target]
        ELSE IF change <= -100 \/ change > 300 THEN Refused("change")
        ELSE [ok |-> TRUE, metric |-> metric, change |-> change]

\* The age of the data is that of the first KPI that can be read.
Freshness(a) ==
    LET read == SelectSeq(a.kpis, LAMBDA k : k # "raises") IN First(read, "unread")

\* A command of a configured profile needs a binding there.
RequireBinding(a) == IF a.profile = "unconfigured" \/ a.bound THEN [ok |-> TRUE, state |-> a.state] ELSE Refused("unbound")

----------------------------------------------------------------------------

Answer(a) ==
    CASE a.op = "route" -> Routes(a.u)
      [] a.op = "metric" -> [default |-> DefaultMetric(a), mapped |-> ResolveAndValidateMetric(a)]
      [] a.op = "kpi" -> KpiPeriod(a)
      [] a.op = "trend" -> IF a.metric = "energy_per_unit" THEN TrendEnergy(a) ELSE TrendMetric(a)
      [] a.op = "horizon" -> [ok |-> TRUE, days |-> ForecastHorizon(a)]
      [] a.op = "whatif" -> WhatIfScenario(a)
      [] a.op = "system" -> [fresh |-> Freshness(a), bound |-> RequireBinding(a)]

Init == ask \in Asks /\ reply = Unanswered

Next ==
    /\ ask \in Asks /\ reply = Unanswered
    /\ reply' = Answer(ask)
    /\ UNCHANGED ask

----------------------------------------------------------------------------

Answered(op) == ask \in Asks /\ reply # Unanswered /\ ask.op = op

(***************************************************************************)
(* However OVOS hands an utterance over, as a KPI intent, as a fallback or *)
(* as the failure of every intent, the same analysis takes it up, and no   *)
(* plain KPI is spoken in its place; one that the intent has an answer for *)
(* succeeds on the other routes, and fails there only if it fails as an    *)
(* intent.  What the skill said it can answer, the fallback leaves to other*)
(* skills only when it has failed (_handlers.py:73); and what it took up is*)
(* taken up by the same handler when OVOS reports that nobody answered.    *)
(***************************************************************************)
RoutesAgree ==
    Answered("route") =>
        LET u == ask.u IN
        /\ AnalysisOf(u) # None =>
              /\ \A r \in {reply.generic, reply.fallback, reply.failure} : r.by = AnalysisOf(u)
              /\ reply.generic.ok => reply.fallback.ok
              /\ reply.fallback.ok => reply.generic.ok \/ (AnalysisOf(u) = "anomaly" /\ ~u.prevention)
        /\ reply.promised /\ reply.fallback.left => ~reply.fallback.ok
        /\ reply.fallback.by # "others" =>
              reply.failure.by = reply.fallback.by /\ reply.failure.ok = reply.fallback.ok

(***************************************************************************)
(* A question that names a period is answered for that period or refused:  *)
(* a meter that only counts up never passes its total off as the energy of *)
(* a window, and a trend is widened to last week only when what was asked  *)
(* for is shorter than two days and empty (_metric_handlers.py:259, 427).  *)
(***************************************************************************)
WindowIsHonoured ==
    /\ (Answered("kpi") /\ reply.ok /\ RequestedPeriod(ask) # None) =>
          /\ reply.period \in {ask.slot.phrase, ask.said}
          /\ ~(ask.metric = "energy_total" /\ ask.insensitive /\ \E map \in ask.mapping : TotalEnergyOnly(map))
          /\ ~(ask.metric = "energy_total" /\ \E map \in ask.mapping : AggregatePeriod(map))
    /\ (Answered("trend") /\ reply.ok) =>
          LET asked == HandlerPeriod(ask).period IN
          \/ reply.period = asked /\ ask.adapter[asked] = "points"
          \/ reply.period = "last week" /\ ask.adapter[asked] = "empty" /\ asked \notin ask.long
          \/ reply.granularity = "kpi" /\ ask.adapter[asked] = "empty"
=============================================================================
