------------------------------ MODULE MCServices ------------------------------
(***************************************************************************)
(* Instances of the modules about the services around the skill: each      *)
(* behaviour is one of the PREVENTION client's token, or the answer to one *)
(* of the listed questions.                                                *)
(***************************************************************************)
EXTENDS PreventionToken, Sequences, TLC

CONSTANTS
    NoAsk, Nothing,
    Foci,           \* the modules the run is about
    Profiles, Unconfigured,
    Asks, LocalPoints,                                          \* PreventionReports
    Editors, Resources, Meters, AssetMetrics, Saves, Imports, Compat, MaxEdits,     \* AssetRegistry
    Readers, EnergySources, National, Factors, Scopes, Objectives, ObjectiveMetrics,      \* TypedSettings
    EnvVoice, Encrypted, VoiceConfigs, Sensitivities, MaxWrites,
    Browsers, Floor, Lowest, Highest, Confirm, Cooldown, Messages, Thresholds, MaxClock, MaxBuffer, \* WakeWord
    Sessions, Turns, Topics, Unclear, FollowUp, MaxSessions, TTL, MaxNow,           \* DialogueContext
    Speakers, Hearers,          \* the order of its sessions and turns
    Collected, MinPoints, MaxRetries, LastMonth, MaxPlatform, MaxStarts, MaxRounds, MaxCalls,   \* KpiCollection
    Clients, Files, Entries, Today, Widest, Sqlite, MaxRequests,                    \* ProductionData
    Followed, Targets, Values, MaxMeasured, MaxRows,                                \* SiteProgress
    BusClients, Urls, MaxAttempts, MaxSockets                                       \* BusConnection

VARIABLES
    focus,                                                      \* the module that takes steps
    ask, reply,                                                 \* PreventionReports
    active, stored, req, asked, given, raced,                   \* AssetRegistry
    preferred, factor, objective, alert, threshold, voice, reader, writes,  \* TypedSettings, with active
    serves, clock, session, table,                              \* WakeWord
    items, pc, turn, recent,                                    \* DialogueContext, with now and stored
    task, base, snaps, spent,                                   \* KpiCollection, with clock and raced
    issued, shown, reused, books,   \* ProductionData, with table; SiteProgress has base, snaps, req, raced, spent
    client, link, wanted, said, overlapped  \* BusConnection

question == <<ask, reply>>
assets == <<stored, req, asked, given, raced>>
settings == <<preferred, factor, objective, alert, threshold, voice, reader, writes>>
wake == <<serves, session, table>>
dialogue == <<items, pc, turn, recent>>
rows == <<task, base, snaps, spent>>
production == <<issued, shown, reused, books>>
bus == <<client, link, wanted, said, overlapped>>
allVars == <<focus, vars, question, active, assets, settings, wake, clock, dialogue, rows, production, bus>>

----------------------------------------------------------------------------
(* Questions to the PREVENTION client.                                     *)

PRow(metric, asset) ==
    [metric |-> metric, asset |-> asset, z |-> 3, severity |-> "none", drift |-> TRUE, direction |-> "increasing",
     rate |-> 1, analyzed |-> 0, available |-> TRUE]
Results == {<<>>, <<PRow("oee", "line")>>, <<PRow("scrap", "line"), [PRow("oee", "line") EXCEPT !.z = 1, !.direction = "odd"]>>}
Errors == {"", "unreachable", "timeout"}

Series == {<<>>} \cup {[i \in 1..n |-> [value |-> f[i], time |-> t[i]]] :
                         n \in {3}, f \in [1..3 -> {0, 2, 3}], t \in {<<1, 2, 4>>, <<4, 1, 2>>}}
          \cup {[i \in 1..4 |-> [value |-> f[i], time |-> i]] : f \in [1..4 -> {0, 1, 3}]}

PreventionAsks ==
    [op : {"detect"}, metric : {"oee"}, asset : {"", "line"}, threshold : {1, 2}, result : Results, raised : Errors, points : Series]
    \cup
    [op : {"drift"}, metric : {"oee", "scrap"}, asset : {"", "mill"}, periods : {0, 7}, result : Results, raised : Errors, points : Series]
    \cup
    [op : {"forecast"}, metric : {"oee"}, asset : {"", "mill"}, horizon : {1, 7}, points : Series,
     result : {<<>>} \cup {<<[metric |-> "oee", asset |-> "line", available |-> v, direction |-> "increasing"]>> : v \in BOOLEAN},
     raised : Errors]
    \cup
    [op : {"probe"}, envMode : {"", "bearer"}, mode : {"", "none", "keycloak", "typo"}, keycloak : {2, 3}, token : {"", "t"},
     envUrl : {"", "http"}, url : {"", "bad"}, result : {<<>>, <<"drift">>, <<"forecast">>}, raised : {"", "timeout"}]
    \cup
    [op : {"data"}, manifest : {"absent", "unreadable", "undated", "dated"}, of : {"", "a"}, active : {"", "a", "b"},
     records : {0, 5}, age : {1, 1440, 1441}, maxAge : {-5, 0, 10}]

----------------------------------------------------------------------------

(* An editor of assets: registrations only, links, an odd binding, nothing. *)

Entry(set, links, native, mode) ==
    [set |-> set, links |-> links, native |-> native, mode |-> mode, source |-> ""]
Registration == Entry({}, {}, "none", "")
AssetSaves ==
    {[a \in {} |-> Registration],
     "m1" :> Registration @@ "l1" :> Registration,
     "m1" :> Entry({"native"}, {}, "partial", "") @@ "l1" :> Entry({"links"}, {"oee"}, "none", ""),
     "M-1" :> Entry({"native"}, {}, "odd", "") @@ "l1" :> Entry({"links", "mode"}, {"scrap"}, "none", "full_kpi")}

----------------------------------------------------------------------------

\* Files of production records: one good row and one of each kind of bad row, a
\* column twice, a column missing, and a file the database refuses half-way.
Num(n) == [is |-> "number", n |-> n]
Text == [is |-> "text", n |-> 0]
Empty == [is |-> "blank", n |-> 0]
Columns == <<"record_date", "asset_id", "production_count", "good_count", "material_consumed_kg">>
CsvFiles ==
    {[columns |-> Columns,
      rows |-> << <<Num(1), Num(1), Num(2), Num(1), Empty>>, <<Num(1), Num(1), Num(1), Num(2), Empty>>,
                  <<Num(3), Num(1), Num(4), Num(1), Empty>>, <<Num(1), Empty, Num(4), Text, Empty>>,
                  <<Num(1), Num(2), Num(-1), Empty, Num(-1)>> >>],
     [columns |-> Append(Columns, "good_count"),
      rows |-> << <<Num(1), Num(1), Num(1), Num(2), Empty, Empty>> >>],
     [columns |-> Columns,
      rows |-> << <<Num(2), Num(2), Num(1), Num(1), Empty>>, <<Num(2), Num(2), Num(1), Num(0), [is |-> "nan", n |-> 0]>> >>],
     [columns |-> <<"record_date", "asset_id">>, rows |-> << <<Num(1), Num(1)>> >>]}
Typed == {[day |-> 2, asset |-> 1, count |-> n, good |-> 1, material |-> Empty] : n \in {4, 9}}

----------------------------------------------------------------------------

\* The values of the constants that a configuration cannot write down.
Generated == {{<<"oee", "m1">>, <<"scrap", "l1">>}}
VoiceEnvironment == [url |-> "ws", key |-> "", secret |-> "env"]
VoicePages == [url : {"", "x"}, key : {"k"}, secret : {"", "s"}]
AudioMessages == {<<5>>, <<12>>, <<16, 16>>}
SessionOrder == <<"s1", "s2", "s3">>
TurnOrder == <<"t1", "t2">>
CollectedMetrics == <<"co2_total">>
FollowedMetrics == <<"co2_total", "material_efficiency">>
SiteTargets == "co2_total" :> [percent |-> 10, direction |-> "reduction"]
               @@ "material_efficiency" :> [percent |-> 5, direction |-> "improvement"]

----------------------------------------------------------------------------

Reports == INSTANCE PreventionReports WITH MinPoints <- LocalPoints

Assets == INSTANCE AssetRegistry WITH Requests <- Editors, Assets <- Resources, Metrics <- AssetMetrics, MaxRequests <- MaxEdits

Settings == INSTANCE TypedSettings WITH Sources <- EnergySources, Metrics <- ObjectiveMetrics

Wake == INSTANCE WakeWord WITH Sessions <- Browsers, MaxTime <- MaxClock

Dialogue == INSTANCE DialogueContext WITH MaxTime <- MaxNow

\* Of the sessions that have left no trace, the first of the speakers speaks, to the
\* first thread that is idle: sessions are interchangeable, and so are threads.
Traced(s) ==
    \/ \E i \in DOMAIN recent : recent[i] = s
    \/ \E t \in DOMAIN turn : turn[t] # Nothing /\ turn[t].session = s
Canonical ==
    \A i \in DOMAIN Hearers : LET t == Hearers[i] IN
        turn[t] = Nothing /\ turn'[t] # Nothing =>
            /\ \A j \in 1..(i - 1) : turn[Hearers[j]] # Nothing
            /\ \A k \in DOMAIN Speakers : turn'[t].session = Speakers[k] => \A j \in 1..(k - 1) : Traced(Speakers[j])

Kpis == INSTANCE KpiCollection WITH KpiMetrics <- Collected, MaxRequests <- MaxCalls

Production == INSTANCE ProductionData

Site == INSTANCE SiteProgress WITH KpiMetrics <- Followed, MaxTime <- MaxMeasured, MaxWrites <- MaxRows

Bus == INSTANCE BusConnection

----------------------------------------------------------------------------
(* The variables of the modules that take no steps.                        *)

NoToken == token = [ends |-> None, believed |-> 0] /\ query = [q \in Queries |-> Waiting]
NoQuestion == ask = NoAsk /\ reply = NoAsk
NoRequest == req = <<>> /\ asked = 0 /\ given = <<>>
NoSettings ==
    /\ preferred = "" /\ factor = <<>> /\ objective = <<>> /\ alert = 0 /\ threshold = 0
    /\ voice = <<>> /\ reader = <<>> /\ writes = 0
NoListener == serves = FALSE /\ session = <<>>
NoSession == NoListener /\ table = <<>>
NoTurn == items = <<>> /\ pc = <<>> /\ turn = <<>> /\ recent = <<>>
NoTask == task = <<>>
NoRows == NoTask /\ base = <<>> /\ snaps = <<>> /\ spent = 0
NoRecord == issued = 0 /\ shown = <<>> /\ reused = {} /\ books = <<>>
NoBus == client = "" /\ link = <<>> /\ wanted = FALSE /\ said = "idle" /\ overlapped = FALSE

ServicesInit ==
    /\ focus \in Foci
    /\ focus # "bus" => NoBus
    /\ \/ focus = "token" /\ Init /\ NoQuestion /\ active = "" /\ stored = <<>> /\ NoRequest /\ raced = {}
          /\ NoSettings /\ NoSession /\ clock = 0 /\ NoTurn /\ NoRows /\ NoRecord
       \/ focus = "prevention" /\ Reports!Init /\ now = 0 /\ NoToken /\ active = "" /\ stored = <<>> /\ NoRequest
          /\ raced = {} /\ NoSettings /\ NoSession /\ clock = 0 /\ NoTurn /\ NoRows /\ NoRecord
       \/ focus = "assets" /\ Assets!Init /\ now = 0 /\ NoToken /\ NoQuestion
          /\ NoSettings /\ NoSession /\ clock = 0 /\ NoTurn /\ NoRows /\ NoRecord
       \/ focus = "settings" /\ Settings!Init /\ now = 0 /\ NoToken /\ NoQuestion /\ stored = <<>> /\ NoRequest
          /\ raced = {} /\ NoSession /\ clock = 0 /\ NoTurn /\ NoRows /\ NoRecord
       \/ focus = "wake" /\ Wake!Init /\ now = 0 /\ NoToken /\ NoQuestion /\ active = "" /\ stored = <<>> /\ NoRequest
          /\ raced = {} /\ NoSettings /\ NoTurn /\ NoRows /\ NoRecord
       \/ focus = "dialogue" /\ Dialogue!Init /\ NoToken /\ NoQuestion /\ active = "" /\ NoRequest
          /\ raced = {} /\ NoSettings /\ NoSession /\ clock = 0 /\ NoRows /\ NoRecord
       \/ focus = "kpis" /\ Kpis!Init /\ now = 0 /\ NoToken /\ NoQuestion /\ active = "" /\ stored = <<>> /\ NoRequest
          /\ NoSettings /\ NoSession /\ NoTurn /\ NoRecord
       \/ focus = "production" /\ Production!Init /\ now = 0 /\ NoToken /\ NoQuestion /\ active = "" /\ stored = <<>>
          /\ NoRequest /\ raced = {} /\ NoSettings /\ NoListener /\ clock = 0 /\ NoTurn /\ NoRows
       \/ focus = "progress" /\ Site!Init /\ now = 0 /\ NoToken /\ NoQuestion /\ active = "" /\ stored = <<>>
          /\ asked = 0 /\ given = <<>> /\ NoSettings /\ NoSession /\ clock = 0 /\ NoTurn /\ NoTask /\ NoRecord
       \/ focus = "bus" /\ Bus!Init /\ now = 0 /\ NoToken /\ NoQuestion /\ active = "" /\ stored = <<>> /\ NoRequest
          /\ raced = {} /\ NoSettings /\ NoSession /\ clock = 0 /\ NoTurn /\ NoRows /\ NoRecord

ServicesNext ==
    /\ UNCHANGED focus
    /\ focus # "bus" => UNCHANGED bus
    /\ \/ focus = "token" /\ Next
          /\ UNCHANGED <<question, active, assets, settings, wake, clock, dialogue, rows, production>>
       \/ focus = "prevention" /\ Reports!Next
          /\ UNCHANGED <<vars, active, assets, settings, wake, clock, dialogue, rows, production>>
       \/ focus = "assets" /\ Assets!Next
          /\ UNCHANGED <<vars, question, settings, wake, clock, dialogue, rows, production>>
       \/ focus = "settings" /\ Settings!Next
          /\ UNCHANGED <<vars, question, assets, wake, clock, dialogue, rows, production>>
       \/ focus = "wake" /\ Wake!Next
          /\ UNCHANGED <<vars, question, active, assets, settings, dialogue, rows, production>>
       \/ focus = "dialogue" /\ Dialogue!Next /\ Canonical
          /\ UNCHANGED <<token, query, question, active, req, asked, given, raced, settings, wake, clock, rows, production>>
       \/ focus = "kpis" /\ Kpis!Next
          /\ UNCHANGED <<vars, question, active, stored, req, asked, given, settings, wake, dialogue, production>>
       \/ focus = "production" /\ Production!Next
          /\ UNCHANGED <<vars, question, active, assets, settings, serves, session, clock, dialogue, rows>>
       \/ focus = "progress" /\ Site!Next
          /\ UNCHANGED <<vars, question, active, stored, asked, given, settings, wake, clock, dialogue, task, production>>
       \/ focus = "bus" /\ Bus!Next
          /\ UNCHANGED <<vars, question, active, assets, settings, wake, clock, dialogue, rows, production>>

ServicesSpec == ServicesInit /\ [][ServicesNext]_allVars

----------------------------------------------------------------------------
(* The properties of the modules; TokenAlive holds where no token is asked *)
(* for as well.                                                            *)

FallbackIsSound == focus = "prevention" => Reports!LocalAnomalyIsSound /\ Reports!LocalDriftIsSound
LinksAsGiven == focus = "assets" => Assets!LinksAsGiven
ProfileScoped == [][focus = "assets" => Assets!Scoped]_allVars
FallbacksServe == focus = "settings" => Settings!FallbacksServe
ListsAreReal == focus = "settings" => Settings!ListsAreReal
WakesAreEarned == focus = "wake" => Wake!WakesAreEarned
RecentIsKept == focus = "dialogue" => Dialogue!RecentIsKept
FollowUpIsFresh == focus = "dialogue" => Dialogue!FollowUpIsFresh
ContextMovesOn == Dialogue!ContextMovesOn
BooksBalance == focus = "production" => Production!BooksBalance
ProgressIsConsistent == focus = "progress" => Site!ProgressIsConsistent
ConnectionHolds == focus = "bus" => Bus!ConnectionHolds
PointRecordedOnce == focus = "kpis" => Kpis!PointRecordedOnce
BaselinesAreEarned == [][focus = "kpis" => Kpis!SeedKeeps /\ Kpis!Realigns]_allVars
=============================================================================
