------------------------------ MODULE RestQueries -----------------------------
(***************************************************************************)
(* What a GenericRestAdapter (generic_rest/adapter.py) makes of a question *)
(* once its payload is there: which mapping or native binding answers it,  *)
(* what is refused, and how observations become a KPI, a trend, a          *)
(* comparison; how a connection is tested and assets are discovered.       *)
(*                                                                         *)
(* An observation is [value, time]; a time is an integer or NoTime.  Units *)
(* are left out, paths and payload shapes reduced to whether they resolve. *)
(***************************************************************************)
EXTENDS Integers, Sequences, FiniteSetsExt, SequencesExt, Lists

CONSTANTS
    NoTime,     \* no timestamp that parses
    Asks        \* the questions of an instance, records with a field `op`

VARIABLES
    ask,        \* the question, or one of another module
    reply       \* its answer, or Unanswered

vars == <<ask, reply>>

Unanswered == [ok |-> FALSE, why |-> "unanswered"]
Refused(code) == [ok |-> FALSE, why |-> code]
Values(obs) == [i \in 1..Len(obs) |-> obs[i].value]
Times(obs) == {obs[i].time : i \in 1..Len(obs)} \ {NoTime}
Sum(obs) == MapThenSumSet(LAMBDA i : Values(obs)[i], 1..Len(obs))
Abs(n) == IF n < 0 THEN -n ELSE n

----------------------------------------------------------------------------
(* Whose answer it is.  An asset is [mode, native, resources, names]: its  *)
(* capability mode, the strategy bound to each metric, the metrics it has  *)
(* a resource for, and its id, display name and aliases, normalised.       *)

\* The first row one of whose names is the one asked for.
ResolveAssetMapping(rows, asset) ==
    IF asset = "" THEN {} ELSE FirstWhere(rows, LAMBDA r : asset \in r.names)

EnergyOnly(rows, asset) == \E r \in ResolveAssetMapping(rows, asset) : r.mode = "energy_only"
Native(rows, asset, metric) == {r.native[m] : r \in {x \in ResolveAssetMapping(rows, asset) : metric \in DOMAIN x.native}, m \in {metric}}
NativelyBound(rows, asset) == UNION {DOMAIN r.native : r \in ResolveAssetMapping(rows, asset)}

\* A mapping is made up for a metric any asset has a resource for.
Automatic(rows, metric) == \E i \in 1..Len(rows) : metric \in rows[i].resources

\* The mapping of the profile, else of the extra settings, else one made up.
MappingOf(a) ==
    CASE a.metric \in a.mapped -> "configured"
      [] a.metric \notin a.mapped /\ Automatic(a.rows, a.metric) -> "automatic"
      [] OTHER -> "none"

\* The resource is looked for in every row of that name, not in the first alone.
HasResource(rows, asset, metric) ==
    asset # "" /\ \E i \in 1..Len(rows) : asset \in rows[i].names /\ metric \in rows[i].resources

\* A placeholder that nothing fills refuses the request: an automatic mapping has
\* one for the resource.
ResolveRequest(a) == MappingOf(a) = "automatic" => HasResource(a.rows, a.asset, a.metric)

----------------------------------------------------------------------------
(* KPIs.                                                                   *)

\* The default by metric and period, unless the mapping says otherwise.
Aggregation(a) ==
    IF a.aggregation # "" THEN a.aggregation
    ELSE IF a.latest THEN "latest"
    ELSE IF a.metric \in {"energy_total", "co2_total"} THEN "sum"
    ELSE IF a.metric = "peak_demand" THEN "max" ELSE "average"

\* A mutant of Aggregate: the last observation sent is the latest.
AggregateLast(obs, aggregation) ==
    IF aggregation = "sum" THEN Sum(obs)
    ELSE IF aggregation = "average" THEN Sum(obs) \div Len(obs) ELSE obs[Len(obs)].value

\* Averages of the instances divide exactly.
Aggregate(obs, aggregation) ==
    CASE aggregation = "sum" -> Sum(obs)
      [] aggregation = "max" -> Max({obs[i].value : i \in 1..Len(obs)})
      [] aggregation = "average" -> Sum(obs) \div Len(obs)
      [] aggregation = "latest" ->
            IF Times(obs) = {} THEN obs[Len(obs)].value
            ELSE obs[CHOOSE i \in 1..Len(obs) : obs[i].time = Max(Times(obs))].value

\* Which observation the mapping's JSON path takes, 0 for a path or a series_path
\* that stands for all of them, -1 without either; a made up mapping has a series_path.
PlaceOf(a) == IF MappingOf(a) = "automatic" THEN 0 ELSE a.place

\* Partial beats stale; one value at its place is the answer as it is.
ParseKpi(a) ==
    IF Aggregation(a) \notin {"average", "sum", "max", "latest"} \/ PlaceOf(a) < 0 THEN Refused("mapping_invalid")
    ELSE IF a.payload = <<>> \/ PlaceOf(a) > Len(a.payload) THEN Refused("no_data")
    ELSE IF PlaceOf(a) > 0
    THEN [ok |-> TRUE, metric |-> a.metric, value |-> a.payload[PlaceOf(a)].value, aggregation |-> Aggregation(a),
          samples |-> 1, coverage |-> "complete"]
    ELSE [ok |-> TRUE, metric |-> a.metric, value |-> Aggregate(a.payload, Aggregation(a)),
          aggregation |-> Aggregation(a), samples |-> Len(a.payload),
          coverage |-> IF a.total > Len(a.payload) THEN "partial"
                       ELSE IF a.freshness > 0 /\ Times(a.payload) # {} /\ a.now - Max(Times(a.payload)) > a.freshness
                            THEN "stale" ELSE "complete"]

Stamped(metric, o, aggregation) ==
    [ok |-> TRUE, metric |-> metric, value |-> o.value, aggregation |-> aggregation, samples |-> 1,
     coverage |-> IF o.time = NoTime THEN "unknown" ELSE "complete"]

\* A counter stands for no period; the endpoints are tried until one answers
\* with something else than a missing endpoint or a strange status.
MetricItemLastValue(a) ==
    IF ~a.latest THEN Refused("period_unsupported")
    ELSE IF a.item = <<>> THEN Refused("mapping_invalid") ELSE Stamped(a.metric, Head(a.item), "latest")

\* Always the energy, whichever metric is bound to it.
SeuEnergyTotal(a) ==
    IF a.item = <<>> THEN Refused("empty_response") ELSE Stamped("energy_total", Head(a.item), "sum")

NativeKpi(a, strategy) ==
    CASE strategy = "asset_consumption_total" -> SeuEnergyTotal(a)
      [] strategy = "metric_item_last_value" -> MetricItemLastValue(a)
      [] OTHER -> Refused("native_binding_invalid")

GetKpi(a) ==
    LET native == Native(a.rows, a.asset, a.metric)
        closed == (EnergyOnly(a.rows, a.asset) /\ a.metric # "energy_total") \/ NativelyBound(a.rows, a.asset) # {}
    IN  IF native # {} THEN NativeKpi(a, CHOOSE s \in native : TRUE)
        ELSE IF closed THEN Refused("asset_metric_unavailable")
        ELSE IF MappingOf(a) = "none" THEN Refused("mapping_not_found")
        ELSE IF ~ResolveRequest(a) THEN Refused("mapping_invalid") ELSE ParseKpi(a)

\* The payload is handed on as it is; a native binding is not looked at.
GetRawData(a) ==
    IF EnergyOnly(a.rows, a.asset) /\ a.metric # "energy_total" THEN Refused("asset_metric_unavailable")
    ELSE IF MappingOf(a) = "none" THEN Refused("mapping_not_found")
    ELSE IF ~ResolveRequest(a) THEN Refused("mapping_invalid") ELSE [ok |-> TRUE, payload |-> a.payload]

----------------------------------------------------------------------------
(* Comparisons and trends.                                                 *)

RankDescending(metric) ==
    metric \in {"oee", "material_efficiency", "throughput", "supplier_on_time", "recycled_content"}

Ranked(metric, items) ==
    Sorted(items, LAMBDA x, y : IF RankDescending(metric) THEN x.value > y.value ELSE x.value < y.value)

\* Every asset's KPI in turn; the first that fails fails the comparison.  `of`
\* holds what each asset has that the question does not.
Compare(a) ==
    LET kpi == [i \in 1..Len(a.assets) |-> GetKpi([a.of[a.assets[i]] EXCEPT !.asset = a.assets[i]])]
        failed == FirstWhere(kpi, LAMBDA k : ~k.ok)
        item == [i \in 1..Len(kpi) |-> [asset |-> a.assets[i], value |-> kpi[i].value]]
        values == {kpi[i].value : i \in 1..Len(kpi)}
    IN  IF Len(a.assets) < 2 THEN Refused("compare_invalid")
        ELSE IF \E i \in 1..Len(a.assets) : EnergyOnly(a.of[a.assets[i]].rows, a.assets[i])
             THEN Refused("asset_metric_unavailable")
        ELSE IF failed # {} THEN CHOOSE k \in failed : TRUE
        ELSE [ok |-> TRUE, items |-> Ranked(a.metric, item), difference |-> Max(values) - Min(values),
              coverage |-> IF \A i \in 1..Len(kpi) : kpi[i].coverage = "complete" THEN "complete" ELSE "partial"]

\* A point without a time gets one by its place in the period.
Placed(obs, start, end) ==
    [i \in 1..Len(obs) |-> [obs[i] EXCEPT !.time =
        IF @ # NoTime THEN @
        ELSE IF Len(obs) <= 1 THEN start ELSE start + ((end - start) * (i - 1)) \div (Len(obs) - 1)]]

ExtractTrendPoints(a) == Sorted(Placed(a.payload, a.start, a.end), LAMBDA x, y : x.time < y.time)

\* More than one percent of the first value, which is not zero.
ComputeTrendChange(points) ==
    LET first == Head(points).value last == points[Len(points)].value IN
    IF Len(points) < 2 \/ first = 0 THEN "stable"
    ELSE IF 100 * (last - first) > Abs(first) THEN "up"
    ELSE IF 100 * (first - last) > Abs(first) THEN "down" ELSE "stable"

GetTrend(a) ==
    LET points == ExtractTrendPoints(a) IN
    IF EnergyOnly(a.rows, a.asset) THEN Refused("asset_metric_unavailable")
    ELSE IF MappingOf(a) = "none" THEN Refused("mapping_not_found")
    ELSE IF ~ResolveRequest(a) THEN Refused("mapping_invalid")
    ELSE IF points = <<>> THEN Refused("no_data")
    ELSE [ok |-> TRUE, points |-> points, direction |-> ComputeTrendChange(points),
          coverage |-> IF a.total > Len(points) THEN "partial" ELSE "complete"]

----------------------------------------------------------------------------
(* Connection tests and discovery.  The outcome of a request is a status,  *)
(* Refuses (no connection in time) or Raises (any other exception).        *)

Refuses == -1
Raises == -2
Below500(outcome) == outcome \in 0..499

\* What the base URL answers with 500 or more, a configured endpoint may make
\* good; GET is asked only when HEAD raised something else than no connection.
ProbeBaseUrl(a) ==
    LET outcome == IF a.head = Raises THEN a.get ELSE a.head IN
    outcome >= 0 /\ (Below500(outcome) \/ Below500(a.configured))

\* The first endpoint that lets in or turns away decides; if none does, the
\* credentials are taken for good.
ProbeAuthenticated(a) ==
    a.auth = "none" \/ FirstWhere(a.probes, LAMBDA p : p \in {401, 403} \cup 200..299) \subseteq 200..299

\* Only a session that the test opened is closed by it.
TestConnection(a) ==
    LET reached == a.connected \/ (a.url /\ ProbeBaseUrl(a)) IN
    [ok |-> TRUE, success |-> reached /\ ProbeAuthenticated(a),
     session |-> IF a.connected THEN "open" ELSE "none"]

\* The endpoints in turn, [status, ids] each: credentials turned away end it,
\* and the first to hold an asset not met before has its records returned.
DiscoverAssets(pages) ==
    LET readable == SelectSeq([i \in 1..Len(pages) |-> [at |-> i, page |-> pages[i]]],
                              LAMBDA p : p.page.status < 400 /\ \E i \in 1..Len(p.page.ids) : p.page.ids[i] # "")
        barred == {i \in 1..Len(pages) : pages[i].status \in {401, 403}}
    IN  IF readable = <<>> \/ \E i \in barred : i < Head(readable).at THEN <<>>
        ELSE FoldLeft(LAMBDA seen, id : IF id = "" \/ Contains(seen, id) THEN seen ELSE Append(seen, id),
                      <<>>, Head(readable).page.ids)

\* Assets of the profile come first; discovery is for a profile without any.
ListAssets(a) ==
    [ok |-> TRUE, assets |-> IF a.registered # <<>> THEN a.registered ELSE DiscoverAssets(a.pages)]

SupportsCapability(a) ==
    MappingOf(a) # "none" \/ \E i \in 1..Len(a.rows) : a.metric \in DOMAIN a.rows[i].native

\* The pairs a scan is offered, whatever mode or binding an asset has.
ScannablePairs(rows) == UNION {{<<m, i>> : m \in rows[i].resources} : i \in 1..Len(rows)}

Abilities(a) == [ok |-> TRUE, supported |-> SupportsCapability(a), pairs |-> ScannablePairs(a.rows)]

----------------------------------------------------------------------------

Answer(a) ==
    CASE a.op = "kpi" -> GetKpi(a)
      [] a.op = "raw" -> GetRawData(a)
      [] a.op = "compare" -> Compare(a)
      [] a.op = "trend" -> GetTrend(a)
      [] a.op = "connect" -> TestConnection(a)
      [] a.op = "assets" -> ListAssets(a)
      [] a.op = "abilities" -> Abilities(a)

Init == ask \in Asks /\ reply = Unanswered

Next ==
    /\ ask \in Asks /\ reply = Unanswered
    /\ reply' = Answer(ask)
    /\ UNCHANGED ask

----------------------------------------------------------------------------
(* Properties of every answer.                                             *)

Answered(ops) == ask \in Asks /\ reply # Unanswered /\ ask.op \in ops

\* Sources send newest first or oldest first: as long as every observation has a
\* time of its own, a KPI over a series and a trend are the same either way.  Only
\* a KPI that is mapped to one place of the payload is what the source puts there.
SourceOrderIrrelevant ==
    (Answered({"kpi", "trend"}) /\ (ask.op = "kpi" => PlaceOf(ask) <= 0) /\ Cardinality(Times(ask.payload)) = Len(ask.payload)) =>
        Answer([ask EXCEPT !.payload = Reverse(@)]) = reply
=============================================================================
