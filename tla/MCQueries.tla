------------------------------ MODULE MCQueries -------------------------------
(***************************************************************************)
(* Instances of the modules about questions to a platform: each behaviour  *)
(* is one of the dispatcher's threads, of one query on the wire, of what   *)
(* the status page or the skill remembers of a platform, or the answer to  *)
(* one of the listed questions.                                            *)
(***************************************************************************)
EXTENDS Integers, Sequences, TLC

CONSTANTS
    None, NoValue, NoTime, NoAsk,
    Foci,           \* the modules the run is about
    Callers, Batches, Unsupported, MaxCache, Ttl, CallTimeout, MaxTime, MaxSwaps, MaxBatches,    \* QueryExecution
    PageSize, MaxPages, MaxRetries, Sources, MaxRecords,        \* RestFetch
    DispatcherAsks, AdapterAsks, NamingAsks, IntentAsks,        \* the modules of questions
    Singular(_), Close(_), Numerals, NoiseWords, NoiseSlotWords, NoiseStarts,     \* AssetNaming
    Profiles, Unconfigured, Keys, Details, Checkers, Editors, Age, MaxClock, MaxEdits, MaxAsks,   \* StatusCaches
    ProfileOrder, FirstDetail, CheckerOrder,    \* which of them come first
    Workers, MaxSteps                                           \* AssetVocabulary

VARIABLES
    focus,                                                      \* the module that takes steps
    ask, reply,             \* QueryRouting, RestQueries, AssetNaming, IntentRouting
    adapter, cache, call, jobs, closing, now, raced,            \* QueryExecution
    source, session, fetch,                                     \* RestFetch
    active, config, live, analytics, check, edit, used, dirty, past,    \* StatusCaches, with source and now
    platform, rows, announced, registry, label, entities, thread, edits \* AssetVocabulary, with active, adapter and raced

threads == <<adapter, cache, call, jobs, closing, now, raced>>
wire == <<source, session, fetch>>
question == <<ask, reply>>
status == <<config, live, analytics, check, edit, used, dirty, past>>
names == <<platform, rows, announced, registry, label, entities, thread, edits>>
vars == <<focus, question, threads, wire, active, status, names>>

----------------------------------------------------------------------------
(* Questions to the dispatcher.                                            *)

Map(mode, resources, native) ==
    [key |-> "line", names |-> {"line", "press"}, mode |-> mode, resources |-> resources, native |-> native]

KpiAsks ==
    [op : {"kpi"}, metric : {"co2_total", "co2_per_unit", "co2_per_batch"}, native : {{}, {"carbon"}},
     services : SUBSET {"co2", "production"}, energy : {NoValue, 0, 6}, factor : {0, 2},
     produced : {0, 3}, good : {3}, direct : {NoValue, 7}, asset : {"line"}, normal : {"line"}, rows : {<<>>}]
    \cup
    [op : {"kpi"}, metric : {"energy_per_unit", "material_efficiency"},
     native : {{}, {"energy_per_unit", "carbon"}}, services : {{}, {"production"}}, energy : {NoValue, 6},
     factor : {2}, produced : {0, 3}, good : {3}, direct : {7}, asset : {"Line", "line"}, normal : {"line", "mill"},
     rows : {<<>>, <<Map("energy_only", {}, {})>>, <<Map("", {"energy_total"}, {})>>, <<Map("", {}, {})>>}]

TrendAsks ==
    [op : {"trend"}, metric : {"co2_total", "co2_per_unit", "oee"}, native : {{}}, services : {{}, {"co2"}},
     energy : {NoValue, 4}, factor : {0, 2}, direct : {NoValue, 7}]

Finding(severity, deviation, anomalous) == [severity |-> severity, deviation |-> deviation, anomalous |-> anomalous]
Checks == [raw : {NoValue, <<5, 9>>, <<1, 2>>}, days : {6}, daily : {{}, {3, 5}}, detect : {NoValue}]
          \cup
          [raw : {<<1, 0>>}, days : {6}, daily : {{}},
           detect : {Finding("low", 9, TRUE), Finding("critical", 2, TRUE), Finding("high", 1, FALSE)}]

ScanAsks ==
    [op : {"scan"}, prevention : BOOLEAN, metric : {"", "oee"}, asset : {"", "line"}, metrics : {{"oee"}},
     assets : {{}, {"line", "mill"}}, pairs : {{}, {<<"oee", "line">>, <<"scrap", "mill">>}},
     check : [{<<"oee", "line">>, <<"scrap", "mill">>, <<"oee", "mill">>} -> Checks]]

CheckAsks == [op : {"anomaly"}, prevention : BOOLEAN, one : Checks]

ForecastAsks == [op : {"forecast"}, predicted : {0, 5}, series : {<<>>, <<0>>, <<5, 5>>, <<1, 2, 3, 4, 5, 6, 7, 9>>}]

Parameter == [name : {"speed", "target_value"}, baseline : {0, 10}, proposed : {-5, 0, 8, 60}, unit : {"%", ""}]
WhatIfAsks ==
    [op : {"whatif"}, found : {<<NoValue, NoValue, NoValue>>, <<NoValue, 4, 8>>, <<0, 4, 8>>, <<-3, 4, 8>>},
     parameters : {<<>>} \cup {<<p>> : p \in Parameter} \cup {<<p, q>> : p, q \in Parameter}]

RoutingQuestions == KpiAsks \cup TrendAsks \cup ScanAsks \cup CheckAsks \cup ForecastAsks \cup WhatIfAsks

----------------------------------------------------------------------------
(* Questions to the REST adapter.                                          *)

Row(mode, native, resources) == [mode |-> mode, native |-> native, resources |-> resources, names |-> {"line", "press"}]
Rows == {<<>>, <<Row("energy_only", <<>>, {})>>, <<Row("", <<>>, {"oee"})>>,
         <<Row("", [oee |-> "metric_item_last_value"], {})>>,
         <<Row("", [energy_total |-> "asset_consumption_total", scrap |-> "typo"], {})>>}
Obs == [value : {0, 4, 6}, time : {NoTime, 1, 5}]
Payloads == {<<>>} \cup {<<o>> : o \in Obs} \cup {<<o, p>> : o, p \in Obs}

RestKpiAsks(mappings, assets, payloads) ==
    [op : {"kpi"}, metric : {"oee", "energy_total", "peak_demand", "scrap"}, asset : assets, rows : mappings,
     mapped : {{}, {"oee", "energy_total", "peak_demand"}}, latest : BOOLEAN, aggregation : {"", "latest"},
     place : -1..2, payload : payloads, total : {0, 3}, freshness : {0, 2}, now : {6}, item : {<<>>, <<[value |-> 4, time |-> NoTime]>>}]

Bare(payload, native) ==
    [metric |-> "oee", asset |-> "line", rows |-> native, mapped |-> {"oee"}, latest |-> FALSE, aggregation |-> "", place |-> 0,
     payload |-> payload, total |-> 0, freshness |-> 0, now |-> 6, item |-> <<>>]
CompareAsks ==
    {[op |-> "compare", metric |-> metric, assets |-> assets,
      of |-> ("line" :> [Bare(<<p>>, mappings) EXCEPT !.metric = metric] @@ "mill" :> [Bare(<<q>>, <<>>) EXCEPT !.metric = metric]
              @@ "saw" :> [Bare(<<p, q>>, <<>>) EXCEPT !.metric = metric])] :
        metric \in {"oee", "scrap"}, assets \in {<<"line">>, <<"line", "mill">>, <<"mill", "line", "saw">>},
        p, q \in [value : {0, 4, 6}, time : {5}], mappings \in Rows}

RestTrendAsks ==
    [op : {"trend"}, metric : {"oee"}, asset : {"line"}, rows : {<<>>, <<Row("energy_only", <<>>, {})>>},
     mapped : {{}, {"oee"}}, payload : Payloads, total : {0, 3}, start : {0}, end : {8}]

ConnectAsks ==
    [op : {"connect"}, connected : BOOLEAN, url : BOOLEAN, head : {-2, -1, 200, 404, 500}, get : {-2, -1, 200, 500},
     configured : {-1, 200, 500}, auth : {"none", "bearer"}, probes : {<<404, 200>>, <<404, 403>>, <<-2>>, <<>>}]

AssetAsks ==
    [op : {"assets"}, registered : {<<>>, <<"line">>},
     pages : [1..2 -> [status : {200, 401, 404}, ids : {<<>>, <<"line", "line">>, <<"", "mill">>}]]]
    \cup [op : {"abilities"}, metric : {"oee", "scrap"}, mapped : {{}, {"oee"}}, rows : Rows]

RestQuestions ==
    RestKpiAsks(Rows, {"line", "mill"}, {<<>>, <<[value |-> 4, time |-> 5]>>})
    \cup RestKpiAsks({<<>>}, {"line"}, Payloads)
    \cup [op : {"raw"}, metric : {"oee", "scrap"}, asset : {"line"}, rows : Rows, mapped : {{}, {"oee"}}, payload : {<<>>}]
    \cup CompareAsks \cup RestTrendAsks \cup ConnectAsks \cup AssetAsks

----------------------------------------------------------------------------
(* Utterances.                                                             *)

Similar(t) ==
    LET line(n) == <<"line", n>> IN
    IF Len(t) # 2 \/ t[1] # "line" THEN <<>>
    ELSE IF t[2] \in {"1", "2", "3", "4", "7"} THEN SelectSeq(<<line("3"), line("2"), line("1")>>, LAMBDA p : p # t)
    ELSE IF t[2] = "12" THEN <<line("2"), line("1")>> ELSE <<>>

Line(n) == [id |-> <<"line", n>>, says |-> {<<"line", n>>}, label |-> n]
Press == [id |-> <<"press">>, says |-> {<<"press">>, <<"hot", "press">>}, label |-> "press"]
Registries == {<<>>, <<Press>>, <<Line("1"), Line("2"), Line("3")>>, <<Line("1"), Press>>}
Slots == {<<>>, <<"oee">>, <<"the", "oee">>, <<"press">>, <<"presses">>, <<"line", "two">>, <<"line", "7">>, <<"mill">>}
Sayings ==
    {<<>>, <<"show", "oee">>, <<"oee", "for", "line", "two">>, <<"oee", "for", "line", "4">>, <<"line", "99">>,
     <<"oee", "for", "line", "12">>, <<"compare", "line", "1", "and", "line", "2">>, <<"the", "hot", "press", "and", "line", "1">>,
     <<"mill", "oee">>, <<"hot", "presses">>, <<"press">>}

NamingQuestions ==
    [op : {"asset", "scope"}, slot : Slots, said : Sayings, verbatim : BOOLEAN, registry : Registries,
     mapped : {{}, {<<"press">>}, {<<"press">>, <<"line", "1">>}}]
    \cup [op : {"pair"}, slot : Slots, other : Slots, said : Sayings, registry : Registries]
    \cup [op : {"label"}, slot : {<<"press">>, <<"line", "1">>, <<"mill">>}, registry : Registries,
          labels : {{}, {[says |-> {<<"press">>}, label |-> "P"]}}]

StructuredQueries ==
    [op : {"unknown", "kpi", "summary", "compare", "trend", "define", "whatif", "forecast", "control"}, metrics : {0, 1, 2},
     assets : {0, 1, 2}, registered : {1, 3}, scope : {"", "all", "suppliers"}, followUp : BOOLEAN, ambiguous : BOOLEAN,
     headline : {0, 3}]
Utterances ==
    [kinds : {{}, {"forecast"}, {"drift", "whatif"}}, cues : {{}, {"trend", "energy"}, {"compare"}},
     phrases : {{}, {"energy_total", "oee"}}, intent : {None, "oee"}, browser : BOOLEAN, query : StructuredQueries,
     fails : {{}}, prevention : {TRUE}]
    \cup
    [kinds : {{}, {"anomaly"}, {"forecast"}}, cues : {{}}, phrases : {{}, {"oee"}}, intent : {"oee"}, browser : BOOLEAN,
     query : StructuredQueries \cup {[q EXCEPT !.op = "anomaly"] : q \in StructuredQueries},
     fails : {{}, {"anomaly", "forecast", "kpi", "compare", "define"}}, prevention : BOOLEAN]

Meter(mode, strategy, native) ==
    [mode |-> mode, strategy |-> strategy, default |-> "", started |-> TRUE, native |-> native, resources |-> {}]
Meters == {{}, {Meter("energy_only", "asset_consumption_total", {"energy_total"})}, {Meter("energy_only", "", {})},
           {Meter("", "", {"energy_total"})}, {Meter("", "", {"oee"})},
           {[Meter("energy_only", "asset_consumption_total", {}) EXCEPT !.default = "latest"]}}
PeriodSlots == [phrase : {None, "today", "last week"}, dated : BOOLEAN]

IntentQuestions ==
    [op : {"route"}, u : Utterances]
    \cup [op : {"metric"}, supported : {<<>>, <<"oee">>, <<"oee", "energy_total">>},
          u : [cues : SUBSET {"carbon", "total", "energy", "power", "produced", "grid", "bought"},
               phrases : SUBSET {"consumption_power", "energy_total", "oee"}]]
    \cup [op : {"kpi"}, metric : {"energy_total", "oee"}, slot : PeriodSlots, said : {None, "today", "last month"},
          mapping : Meters, insensitive : BOOLEAN]
    \cup [op : {"trend"}, metric : {"energy_per_unit", "oee"}, slot : PeriodSlots, said : {None, "today", "last month"},
          default : {"last week"}, granularity : {"hourly", "daily"}, long : {{"last week", "last month"}},
          adapter : [{"today", "latest", "last week", "last month"} -> {"points", "empty", "down"}]]
    \cup [op : {"horizon"}, cues : SUBSET {"month", "week"}, next : {None, 0, 3, 400}]
    \cup [op : {"whatif"}, cues : SUBSET {"process", "shift", "peak", "increase", "reduce", "improve", "worsen"},
          phrases : {{}, {"oee"}}, target : {None, -1, 90, 101}, amount : {None, 10, -20, 100, 400}]
    \cup [op : {"system"}, kpis : {<<>>, <<"raises", "undated">>, <<"dated">>}, profile : {"unconfigured", "p"}, bound : BOOLEAN,
          state : {"on", "off"}]

----------------------------------------------------------------------------

\* The values of the constants that a configuration cannot write down.
ThreeBatches == {<<"a", "b">>, <<"b", "c">>, <<"a", "x">>}
WireSources == [newest : BOOLEAN, counts : BOOLEAN, cap : {1, 5}, n : 0..3]
TwoProfiles == <<"pa", "pb">>
TwoCheckers == <<"c1", "c2">>
UpTo99 == {ToString(n) : n \in 0..99}
OnePress(t) == [i \in DOMAIN t |-> IF t[i] = "presses" THEN "press" ELSE t[i]]

----------------------------------------------------------------------------

Threads == INSTANCE QueryExecution WITH MaxAsks <- MaxBatches
Wire == INSTANCE RestFetch
Routing == INSTANCE QueryRouting WITH Asks <- DispatcherAsks
Rest == INSTANCE RestQueries WITH Asks <- AdapterAsks
Naming == INSTANCE AssetNaming WITH Asks <- NamingAsks
Intents == INSTANCE IntentRouting WITH Asks <- IntentAsks
Status == INSTANCE StatusCaches WITH Ttl <- Age, MaxTime <- MaxClock
Names == INSTANCE AssetVocabulary WITH MaxEdits <- MaxSteps

\* Profiles, details and requests for the status are interchangeable.
FirstProfile ==
    LET first == ProfileOrder[1] IN
    /\ \A i \in DOMAIN ProfileOrder : config[ProfileOrder[i]] # None => \A j \in 1..(i - 1) : config[ProfileOrder[j]] # None
    /\ config[first] # None => active \in {first, Unconfigured} /\ config[first].rest = FirstDetail
FirstChecker ==
    \A i \in DOMAIN CheckerOrder : LET c == CheckerOrder[i] IN
        check[c].pc = "idle" /\ check'[c].pc # "idle" => \A j \in 1..(i - 1) : check[CheckerOrder[j]].pc # "idle"

\* The variables of the modules that take no steps.
NoThreads == adapter = 0 /\ cache = <<>> /\ call = <<>> /\ jobs = <<>> /\ closing = <<>> /\ now = 0 /\ raced = {}
NoWire == source = [n |-> 0] /\ session = "none" /\ fetch = [pc |-> "off"]
NoQuestion == ask = NoAsk /\ reply = NoAsk
NoStatus ==
    /\ config = <<>> /\ live = <<>> /\ analytics = <<>> /\ check = <<>>
    /\ edit = <<>> /\ used = <<>> /\ dirty = {} /\ past = {}
NoNames ==
    /\ platform = <<>> /\ rows = <<>> /\ announced = {} /\ registry = None /\ label = None
    /\ entities = <<>> /\ thread = <<>> /\ edits = 0
NoMemory == active = "" /\ NoStatus /\ NoNames

Init ==
    /\ focus \in Foci
    /\ \/ focus = "threads" /\ Threads!Init /\ NoWire /\ NoQuestion /\ NoMemory
       \/ focus = "wire" /\ Wire!Init /\ NoThreads /\ NoQuestion /\ NoMemory
       \/ focus = "dispatcher" /\ Routing!Init /\ NoThreads /\ NoWire /\ NoMemory
       \/ focus = "adapter" /\ Rest!Init /\ NoThreads /\ NoWire /\ NoMemory
       \/ focus = "naming" /\ Naming!Init /\ NoThreads /\ NoWire /\ NoMemory
       \/ focus = "intents" /\ Intents!Init /\ NoThreads /\ NoWire /\ NoMemory
       \/ focus = "status" /\ Status!Init /\ FirstProfile /\ NoQuestion /\ NoNames /\ session = "none" /\ fetch = [pc |-> "off"]
          /\ adapter = 0 /\ cache = <<>> /\ call = <<>> /\ jobs = <<>> /\ closing = <<>> /\ raced = {}
       \/ focus = "names" /\ Names!Init /\ NoQuestion /\ NoStatus /\ NoWire
          /\ cache = <<>> /\ call = <<>> /\ jobs = <<>> /\ closing = <<>> /\ now = 0

Next ==
    /\ UNCHANGED focus
    /\ \/ focus = "threads" /\ Threads!Next /\ UNCHANGED <<question, wire, active, status, names>>
       \/ focus = "wire" /\ Wire!Next /\ UNCHANGED <<question, threads, active, status, names>>
       \/ focus = "dispatcher" /\ Routing!Next /\ UNCHANGED <<threads, wire, active, status, names>>
       \/ focus = "adapter" /\ Rest!Next /\ UNCHANGED <<threads, wire, active, status, names>>
       \/ focus = "naming" /\ Naming!Next /\ UNCHANGED <<threads, wire, active, status, names>>
       \/ focus = "intents" /\ Intents!Next /\ UNCHANGED <<threads, wire, active, status, names>>
       \/ focus = "status" /\ Status!Next /\ FirstChecker
          /\ UNCHANGED <<question, adapter, cache, call, jobs, closing, raced, session, fetch, names>>
       \/ focus = "names" /\ Names!Next /\ UNCHANGED <<question, cache, call, jobs, closing, now, wire, status>>

Spec == Init /\ [][Next]_vars /\ (focus = "wire" => Wire!Fairness)

----------------------------------------------------------------------------
(* The properties of the modules.                                          *)

AnswersMatch == focus = "threads" => Threads!AnswersMatch
CallsEnd == focus = "threads" => Threads!CallsEnd
PagesAddUp == focus = "wire" => Wire!PagesAddUp
QueryEnds == focus = "wire" => Wire!QueryEnds
DerivedKpiHasItsData == focus = "dispatcher" => Routing!DerivedKpiHasItsData
ScanAccountsForPairs == focus = "dispatcher" => Routing!ScanAccountsForPairs
SourceOrderIrrelevant == focus = "adapter" => Rest!SourceOrderIrrelevant
NeverGuesses == focus = "naming" => Naming!NeverGuesses
LineAskedIsAnswered == focus = "naming" => Naming!LineAskedIsAnswered
RoutesAgree == focus = "intents" => Intents!RoutesAgree
StatusIsRecent == focus = "status" => Status!StatusIsRecent
StatusIsCurrent == focus = "status" => Status!StatusIsCurrent
NamesAreCurrent == focus = "names" => Names!NamesAreCurrent
WindowIsHonoured == focus = "intents" => Intents!WindowIsHonoured
=============================================================================
