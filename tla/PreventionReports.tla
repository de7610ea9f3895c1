--------------------------- MODULE PreventionReports --------------------------
(***************************************************************************)
(* What the PREVENTION client (clients/prevention_http.py) reports of a    *)
(* series: the provider's own rows where it has them, else the explainable *)
(* local analysis; and how its configuration, health and the age of its    *)
(* data are resolved (services/prevention_runtime.py).                     *)
(*                                                                         *)
(* A series is a sequence of [value, time] with whole values, so that any  *)
(* slope but zero is above the code's 0.001.  The provider's result is a   *)
(* sequence of rows, unless the query raised something.                    *)
(***************************************************************************)
EXTENDS Integers, Sequences, FiniteSetsExt, SequencesExt, Lists

CONSTANTS
    MinPoints,  \* points a local drift or forecast needs (10)
    Asks        \* the questions of an instance, records with a field `op`

VARIABLES
    ask,        \* the question, or one of another module
    reply       \* its answer, or Unanswered

vars == <<ask, reply>>

Unanswered == [ok |-> FALSE, why |-> "unanswered"]
Refused(code) == [ok |-> FALSE, why |-> code]
Abs(n) == IF n < 0 THEN -n ELSE n

HigherIsBetter == {"oee", "throughput", "material_efficiency", "recycled_content", "supplier_on_time"}

----------------------------------------------------------------------------
(* The query.                                                              *)

\* What _query raises as a ConnectionError; a timeout or results that are not JSON
\* stay what they are.
ConnectionErrors == {"unreachable", "status", "errors", "token"}
OtherErrors == {"timeout", "garbled"}
Failed(a) == a.raised \in ConnectionErrors \cup OtherErrors

\* The places of the rows of a metric, and of an asset if one is asked for ("" is
\* none), and the first of them.
Relevant(a) ==
    {i \in DOMAIN a.result : a.result[i].metric = a.metric /\ (a.asset = "" \/ a.result[i].asset = a.asset)}
FirstRow(a) == a.result[Min(Relevant(a))]

----------------------------------------------------------------------------
(* Least squares over whole numbers, times the number of points squared.   *)

Total(s) == MapThenSumSet(LAMBDA i : s[i], DOMAIN s)
Spread(s, t) == Len(s) * Total([i \in DOMAIN s |-> s[i] * t[i]]) - Total(s) * Total(t)

\* Co- and variances of values against places (or times); a slope is sxy / sxx.
Fit(xs, points) ==
    LET ys == [i \in DOMAIN points |-> points[i].value] IN
    [sxx |-> Spread(xs, xs), sxy |-> Spread(xs, ys), syy |-> Spread(ys, ys), sy |-> Total(ys), sx |-> Total(xs)]

ByTime(points) == Sorted(points, LAMBDA p, q : p.time < q.time)

----------------------------------------------------------------------------
(* Anomalies.                                                              *)

Normal == [ok |-> TRUE, anomalous |-> FALSE, severity |-> "none", kind |-> "none"]

\* The worst row whose score reaches the threshold, whatever the row says itself.
ParseAnomaly(a) ==
    LET over == {i \in Relevant(a) : a.result[i].z >= a.threshold}
        worst == Max({a.result[i].z : i \in over})
        row == a.result[Min({i \in over : a.result[i].z = worst})]
    IN  IF over = {} THEN Normal
        ELSE [ok |-> TRUE, anomalous |-> TRUE, kind |-> "spike",
              severity |-> IF row.severity = "none" THEN "low" ELSE row.severity]

\* Bands of the deviation, given as halves.
Severity(halves) ==
    IF halves >= 8 THEN "critical" ELSE IF halves >= 6 THEN "high" ELSE IF halves >= 5 THEN "medium" ELSE "low"

\* The last point against the mean and deviation of those before it: the deviation
\* is compared in squares, and is one more than the threshold of a flat series.
LocalAnomaly(a) ==
    LET n == Len(a.points) - 1
        before == [i \in 1..n |-> a.points[i].value]
        last == a.points[n + 1].value
        off == n * last - Total(before)
        var == Spread(before, before)
        reaches(halves) == IF var = 0 THEN off # 0 /\ halves <= 2 * (a.threshold + 1)
                           ELSE 4 * off * off >= halves * halves * var
    IN  IF Len(a.points) < 3 \/ ~reaches(2 * a.threshold) THEN Normal
        ELSE [ok |-> TRUE, anomalous |-> TRUE, kind |-> IF off >= 0 THEN "spike" ELSE "dip",
              severity |-> Severity(Max({h \in 0..8 : reaches(h)}))]

DetectAnomaly(a) == IF Failed(a) THEN LocalAnomaly(a) ELSE ParseAnomaly(a)

----------------------------------------------------------------------------
(* Drift.                                                                  *)

\* A rising value is good for some metrics and bad for the rest.
NormalizeDriftDirection(metric, raw, rate) ==
    LET rising == IF raw \in {"increasing", "decreasing"} THEN raw = "increasing" ELSE rate > 0 IN
    IF raw \in {"stable", "improving", "degrading"} THEN raw
    ELSE IF raw \notin {"increasing", "decreasing"} /\ rate = 0 THEN "stable"
    ELSE IF rising <=> metric \in HigherIsBetter THEN "improving" ELSE "degrading"

ParseDrift(a) ==
    LET row == FirstRow(a) IN
    [ok |-> TRUE, drift |-> row.drift, direction |-> NormalizeDriftDirection(a.metric, row.direction, row.rate),
     analyzed |-> IF row.analyzed = 0 THEN a.periods ELSE row.analyzed]

\* A slope that explains more than a tenth of the variance is a drift.
LinearDrift(metric, points) ==
    LET fit == Fit([i \in DOMAIN points |-> i], points)
        drift == fit.sxx # 0 /\ fit.sxy # 0 /\ 10 * fit.sxy * fit.sxy > fit.sxx * fit.syy
    IN  [ok |-> TRUE, drift |-> drift, analyzed |-> Len(points),
         direction |-> IF drift THEN NormalizeDriftDirection(metric, "", fit.sxy) ELSE "stable"]

LocalDrift(a) ==
    IF Len(a.points) < MinPoints THEN [ok |-> TRUE, drift |-> FALSE, direction |-> "stable", analyzed |-> 0]
    ELSE LinearDrift(a.metric, ByTime(a.points))

\* A mutant of CheckDrift: a provider with rows of other metrics is taken at its word.
CheckDriftUnmatched(a) ==
    IF Failed(a) \/ a.result = <<>> THEN LocalDrift(a)
    ELSE IF Relevant(a) = {} THEN [ok |-> TRUE, drift |-> FALSE, direction |-> "stable", analyzed |-> 0]
    ELSE ParseDrift(a)

\* The provider is preferred, but must have a row that analysed something.
CheckDrift(a) ==
    IF Failed(a) \/ Relevant(a) = {} \/ ParseDrift(a).analyzed <= 0 THEN LocalDrift(a) ELSE ParseDrift(a)

----------------------------------------------------------------------------
(* Forecasts.                                                              *)

Unavailable == [ok |-> TRUE, available |-> FALSE, direction |-> "unknown"]

ParseForecast(a) ==
    LET row == FirstRow(a) IN
    IF Relevant(a) = {} THEN Unavailable
    ELSE [ok |-> TRUE, available |-> row.available, direction |-> row.direction]

\* The line through the points, `horizon` days on and not below zero; it is stable
\* within one percent of a last value other than zero.
LocalForecast(a) ==
    LET points == ByTime(a.points)
        n == Len(points)
        xs == [i \in DOMAIN points |-> points[i].time - points[1].time]
        fit == Fit(xs, points)
        last == points[n].value
        base == n * fit.sxx
        line == fit.sxx * fit.sy + fit.sxy * (n * (xs[n] + a.horizon) - fit.sx)
        predicted == IF fit.sxx = 0 THEN Max({0, fit.sy}) ELSE Max({0, line})
        change == predicted - last * (IF fit.sxx = 0 THEN n ELSE base)
        whole == Abs(last) * (IF fit.sxx = 0 THEN n ELSE base)
    IN  IF n < MinPoints THEN Unavailable
        ELSE [ok |-> TRUE, available |-> TRUE, positive |-> predicted >= 0, flat |-> change = 0,
              direction |-> IF last = 0 \/ 100 * Abs(change) < whole THEN "stable"
                            ELSE IF change > 0 THEN "increasing" ELSE "decreasing"]

\* Only a ConnectionError or a provider without any row is answered locally.
ForecastMetric(a) ==
    IF Failed(a)
    THEN IF a.raised \in ConnectionErrors THEN LocalForecast(a) ELSE Refused("connection")
    ELSE IF a.result # <<>> THEN ParseForecast(a) ELSE LocalForecast(a)

----------------------------------------------------------------------------
(* Configuration, health and data.  Each setting is read from the          *)
(* environment, else from the settings; "" is unset.                       *)

Either(env, setting) == IF env # "" THEN env ELSE setting

ResolveAuthMode(a) ==
    LET asked == Either(a.envMode, a.mode) IN
    IF asked \in {"none", "bearer", "keycloak"} THEN asked
    ELSE IF a.keycloak = 3 THEN "keycloak" ELSE IF a.token # "" THEN "bearer" ELSE "none"

\* `keycloak` counts how many of URL, id and secret are known; an initialize that
\* fails to find an analysis leaves the client unconnected.
ProbeStatus(a) ==
    IF Either(a.envUrl, a.url) = "" THEN "disabled"
    ELSE IF Either(a.envUrl, a.url) = "bad" \/ (ResolveAuthMode(a) = "keycloak" /\ a.keycloak < 3) THEN "misconfigured"
    ELSE IF Failed(a) \/ a.result = <<>> THEN "unreachable" ELSE "healthy"

\* Goals that end in a check are descriptive, the forecasts predictive.
SummarizeCapabilities(goals) ==
    [descriptive |-> IF goals \cap {"anomaly", "drift"} # {} THEN "active" ELSE "not_configured",
     predictive |-> IF "forecast" \in goals THEN "active" ELSE "not_configured"]

Probe(a) ==
    LET state == ProbeStatus(a)
        unknown == IF state = "disabled" THEN "disabled" ELSE "unknown"
    IN  [ok |-> TRUE, state |-> state, auth |-> ResolveAuthMode(a),
         can |-> IF state = "healthy" THEN SummarizeCapabilities({a.result[i] : i \in 1..Len(a.result)})
                 ELSE [descriptive |-> unknown, predictive |-> unknown]]

\* A threshold that is no number (0 stands for one) is a day; the least is a minute.
MaxAge(a) == IF a.maxAge = 0 THEN 1440 ELSE Max({1, a.maxAge})

\* The manifest of another profile, or of no records, is no data.
DataStatus(a) ==
    [ok |-> TRUE, state |->
        CASE a.manifest = "absent" -> "missing"
          [] a.manifest \in {"unreadable", "undated"} -> "invalid"
          [] a.manifest = "dated" /\ ((a.of # "" /\ a.active # "" /\ a.of # a.active) \/ a.records = 0) -> "missing"
          [] OTHER -> IF a.age > MaxAge(a) THEN "stale" ELSE "fresh"]

----------------------------------------------------------------------------

Answer(a) ==
    CASE a.op = "detect" -> DetectAnomaly(a)
      [] a.op = "drift" -> CheckDrift(a)
      [] a.op = "forecast" -> ForecastMetric(a)
      [] a.op = "probe" -> Probe(a)
      [] a.op = "data" -> DataStatus(a)

Init == ask \in Asks /\ reply = Unanswered

Next ==
    /\ ask \in Asks /\ reply = Unanswered
    /\ reply' = Answer(ask)
    /\ UNCHANGED ask

----------------------------------------------------------------------------

Reflected(points) == [i \in 1..Len(points) |-> [points[i] EXCEPT !.value = -@]]
Opposite == [improving |-> "degrading", degrading |-> "improving", stable |-> "stable"]
Unreached(a) == [a EXCEPT !.raised = "unreachable"]

\* "If it is temporarily unavailable, or has no row for the requested metric and
\* asset, apply the same explainable linear-drift method" (prevention_http.py:281):
\* a drift found then is the one found of the series alone, in whatever order its
\* points came; it turns round with the sign of the series and with the sense of
\* the metric, and has a direction exactly if it is one.
LocalDriftIsSound ==
    (ask \in Asks /\ reply # Unanswered /\ ask.op = "drift" /\ (Failed(ask) \/ Relevant(ask) = {})) =>
        LET alone == Unreached(ask)
            other == IF ask.metric \in HigherIsBetter THEN "energy_total" ELSE "oee"
        IN  /\ reply.drift <=> reply.direction # "stable"
            /\ CheckDrift([alone EXCEPT !.points = Reverse(@)]) = reply
            /\ CheckDrift([alone EXCEPT !.points = Reflected(@)]).direction = Opposite[reply.direction]
            /\ CheckDrift([alone EXCEPT !.metric = other]).direction = Opposite[reply.direction]

\* "Anomalous results must never have severity "none"" (prevention_http.py:617), and
\* without the provider a dip is as much of an anomaly as the spike that mirrors it.
LocalAnomalyIsSound ==
    (ask \in Asks /\ reply # Unanswered /\ ask.op = "detect") =>
        /\ reply.anomalous <=> reply.severity # "none"
        /\ Failed(ask) =>
              LET mirrored == DetectAnomaly([ask EXCEPT !.points = Reflected(@)])
              IN  mirrored.anomalous = reply.anomalous /\ mirrored.severity = reply.severity
=============================================================================
