# AVAROS in TLA+

AVAROS is a voice assistant for manufacturing data: a skill of the OVOS voice
platform answers questions about KPIs from a manufacturing platform, and a Web
UI configures it. Both are Python processes that share one database and talk
over a message bus; browsers reach the bus over a WebSocket, and a wake-word
service listens to their microphones. This directory specifies the behaviour of
these parts, model-checks it with TLC on small instances and proves central
properties with TLAPS for all instances. Paths below are relative to the
repository's `src/`.

Contents: [1 Inventory](#1-inventory), [2 Modules](#2-modules),
[3 Runs](#3-runs), [4 What the code gets wrong](#4-disagreements),
[5 Proofs](#5-proofs), [6 Not modelled](#6-not-modelled), [7 Plan](#7-plan).

## 1 Inventory

### The system

```
  browser ---- REST ----> Web UI (FastAPI, thread pool) ----+
   |   |                     | avaros.profile.activated     | rows, one
   |   | WebSocket           v (best effort)                | transaction each
   |   +--> HiveMind ---> message bus                       v
   |                         | utterances, events     settings, KPI and
   | audio                   v                        production tables
   v                 skill (handler threads) ---------------+
  wake-word             |  AdapterFactory, QueryDispatcher, AlertMonitor
  service               v
                     REST platform, PREVENTION service
```

The Web UI and the skill never call each other. They share the tables, where
every read and every write is a transaction of its own, and a notification that
nobody waits for. Within the skill, handlers run in a pool of threads and share
the skill object's attributes without a lock; within the Web UI, coroutines of
one event loop and requests in worker threads share caches. These facts are the
source of almost every hazard listed in `PROJECT.json`.

### The components

| Component | State | What makes it hard | What makes it correct |
|---|---|---|---|
| **Profile registry** `skill/services/profiles.py` | profiles, the active name, scoped settings | every call is several transactions of any number of callers | a call behaves as one step; the active profile exists; a new profile starts empty |
| **Settings store** `skill/services/settings.py` | the table | two migrations at start-up, crashes, two processes; lists read row by row; chains of defaults | migration loses nothing, overwrites no edit, ends; lists have what was there; a default is always reached |
| **Adapter lifecycle** `skill/adapters/factory.py` | current adapter, its HTTP session | a reload reads and writes the active profile in stages; its lock is never created | no session left open and no alerts over the unconfigured adapter, unless two reloads met |
| **Skill runtime** `skill/__init__.py` | dispatcher, label of the loaded profile, asset registry, scheduler flag | events lost or late, outages, restarts, overlapping handlers | answers come from the active profile; the skill recovers by itself |
| **Query dispatcher** `skill/use_cases/query_dispatcher.py` | one worker thread, a small cache of batches | callers give up after 60 s, their coroutine goes on | an answer belongs to its question and is fresh; derived KPIs have their data; scans account for every pair |
| **REST adapter** `skill/adapters/generic_rest/` | session, pages read so far | retries, paging over a growing source, other event loops | a complete answer has every observation once; a query ends; the order of the source does not matter |
| **Intent handlers** `skill/_handlers.py`, `_metric_handlers.py`, `_slot_resolution.py`, `_asset_resolution.py` | the asset registry | three routes for one utterance, similarity of names | the routes agree; the period asked for is the one answered; no asset is guessed |
| **PREVENTION client** `skill/clients/prevention_http.py` | bearer token | concurrent queries, expiry, a silent provider | no dead token is sent; the local answer does not depend on how the data came |
| **Proactive alerts** `skill/services/alert_monitor.py` | time of the last alert per key | overlapping checks, edits during a check | the cooldown holds; silence only after an alert somebody heard, or after a failure |
| **Dialogue context** `skill/services/conversation_state.py` | one context per session, LRU with a lifetime | overlapping turns, eviction, expiry | no conversation forgotten that could be kept; follow-ups use no expired context |
| **KPI collection** `web-ui/services/kpi_collector.py`, `kpi_scheduler.py`, `routers/kpi_progress.py` | snapshots, baselines | two tasks interleave at each `await`, fail half-way, meet administrators; the report reads in four transactions | one point per month of the trend; recorded baselines stay; the report is consistent |
| **Production data** `skill/services/production_data.py`, `csv_parser.py` | records | files partly bad, answers lost, ids reused | the summaries add up to what was acknowledged |
| **Asset editor, status page** `web-ui/routers/assets.py`, `status.py` | a map of assets per profile; two caches | read, change and write back around a switch; stores after an `await` | links stay as given, within their profile; the status is that of the active profile, never one long gone |
| **Browser connection** `web-ui/frontend/src/services/hivemind.ts`, `widget/ConnectionManager.ts` | socket, state shown, timers | handlers of an old socket act on a new one | the state shown is that of the socket; one timer brings a lost connection back |
| **Wake-word service** `services/wakeword/` | per session a detector, a buffer, confirmations | thresholds and resets in between | a wake is earned by frames in a row, not twice within the cooldown |
| Voice session, audit log, deployment | see [section 6](#6-not-modelled) | | |

`PROJECT.json` lists the components with their sources and status, and under
`hazards` what can go wrong in each of them, at its line, with the properties
that would notice.

## 2 Modules

```
ProfileRegistry            one call = one step              (abstract)
   ^ implemented by
ProfileStore               one transaction = one step
   ^ extended by
ProfileRaces               history and properties
   <- MCProfileRaces       the instances                 <-- ProfileRacesProofs
SettingsMigration          start-up on an old database
   <- MCSettingsMigration  the instances            <-- SettingsMigrationProofs
ProfileActivation          Web UI request x skill handlers x bus
                                                    <-- ProfileActivationProofs
   <- MCProfileActivation  the instances                <-- ActivationRunProofs
AlertMonitor               background checks             <-- AlertMonitorProofs
   <- MCAlertMonitor       the instance

MCServices  = PreventionToken + PreventionReports + AssetRegistry
              + TypedSettings + WakeWord + DialogueContext + KpiCollection
              + SiteProgress + ProductionData + BusConnection
                                                             <-- ServicesProofs
MCQueries   = QueryExecution + QueryRouting + RestFetch + RestQueries
              + IntentRouting + AssetNaming + AssetVocabulary + StatusCaches
                                                              <-- QueriesProofs
Lists                      the first of a list that will do, a stable sort:
                           used by PreventionReports, QueryRouting,
                           RestQueries and AssetNaming
DataInduction              induction over numbers and finite sets, sums, sorting:
                           lemmas of ServicesProofs and QueriesProofs
```

Two modules of instances, `MCServices` and `MCQueries`, put components that do
not interact into one state space: the variable `focus` says which of them takes
steps, so that a run explores each alone and checks its properties with it.

Two kinds of modules occur. Most have one action per operation, transaction or
stretch of code between two `await`s, and interleave them. The others
(`PreventionReports`, `QueryRouting`, `RestQueries`, `IntentRouting`,
`AssetNaming`) are about computations: a behaviour is one question `ask` and its
`reply`, the operators of the module are the functions of the code, and the
properties relate questions to replies over all questions of the instance.

Operators named "a mutant of ..." in the comments are not part of any
specification: each is the definition after it with a plausible programming
error, and serves to show that a property notices the error.

### ProfileRegistry, ProfileStore, ProfileRaces

`ProfileStore` translates `ProfileMixin` transaction by transaction. The state
is three groups of rows; `pc[c]` names the transaction that client `c` commits
next and `call[c]` holds the locals of its call.

| Code | Actions |
|---|---|
| `create_profile`, `update_profile` | `CreateProfile` / `UpdateProfile` (existence check), `StoreProfile` |
| `delete_profile`, `_delete_scoped_settings_for_profile` | `DeleteRow`, `ListScoped`, `DeleteScoped` per row, `ReadActiveAfterDelete`, `ClearActive` |
| `set_active_profile` | `SetActive`, `StoreActive`; `SetActiveUnconfigured` |
| `update_platform_config`, `_auto_create_from_config` | `SaveConfig`, `AutoLookup`, `SaveCheck` / `SaveRefused`, `StoreProfile`, `AutoActivateCheck`, `StoreActive` |
| `_scoped_key` followed by `set_setting` | `BeginScopedWrite`, `WriteScoped` |

A call refused by its first check changes nothing and is not a step. Because
`set_setting` stores a name as text and `get_setting` decodes it as JSON, the
active name read is `ReadBack[name]`: the identity for ordinary names, something
else for a profile called `null` or `42`.

`ProfileRegistry` says what callers believe: each call is indivisible.
`ProfileRaces` adds a history variable `raced` (names whose deletion overlapped
another call on the same name) and shows two things: with one client
`ProfileStore` implements `ProfileRegistry` (`LoneImplementsRegistry`: a deletion
takes effect when the row disappears, an automatic creation when the new row
appears), and with any number of clients the damage a race does stays with the
raced names.

### SettingsMigration

`SettingsService.initialize`: `_migrate_legacy_config` (`ReadLegacy`,
`StoreLegacy`, `ActivateLegacy`, `DropLegacy`), then
`_migrate_global_settings_to_profile` (`ReadActive`, `ListGlobal`, and for each
item `CheckScoped`, `ReadGlobal`, `WriteScoped`, `DropGlobal`; `Finish`). A
migrator may crash between any two of them and start again. `Edit` stands for
what administrators do once a process serves. One family of settings stands for
the four prefixes, which the code treats alike and one after the other. The
value `"none"` is the text `None`, which the code stores when the row it reads
has vanished.

### ProfileActivation

The activation request (`BeginActivate`, `SetActive`, `WebReload`, `Rollback` or
`Notify`), the bus, and the skill's handlers. A handler thread goes through the
stages of `_reload_adapter` and `AdapterFactory.reload`: `StopScheduler`,
`RecordActive`, `ShutdownCurrent`, `ChooseClass`, `Instantiate`,
`ProbeSucceeds` / `ProbeFails`, `InstallDispatcher`, `LabelProfile`,
`StartScheduler`, or `Fallback`. Three jobs go through them: `boot`
(`initialize`), `event` (`_handle_profile_switch`) and `utterance`
(`_safe_dispatch` with `_check_profile_mismatch`, ended by `Answer`). The
dispatcher's worker thread runs one coroutine at a time, which is the guard of
`RecordActive`; it is what serializes two reloads that start from the same
dispatcher, and nothing else does. The class and the configuration of an
adapter come from two separate reads of the active profile, and so does the
label the mismatch check compares. Notifications may be lost, overtake each
other, or find nobody listening; platforms go down and come back; the skill
restarts. History: `overlaps` records that two handlers reloaded at once
(`"reload"`), and that two were inside `AdapterFactory.reload` at once
(`"factory"`), which has no lock. `MCProfileActivation` runs one of three casts,
its variable `crowd`: a calm skill (one handler, requests while it rests), two
requests with one handler, and one request with two handlers.

Simplifications: profiles exist throughout (their life is in `ProfileStore`), a
probe or a query succeeds exactly if the platform is reachable at that moment,
the 60-second limit on a reload does not expire, alerts are enabled.

### AlertMonitor

`StartCheck` takes a snapshot of the configuration and the time; for each key
the check finds nothing (`NoEvent`) or judges (`Judge`: threshold, then
cooldown); `Record` is a step of its own because another check can read
`_last_alerts` in between. `EndCheck` returns the events, `Speak` speaks one,
`Return` ends the check. `run_check` may raise at any pair, also after it has
recorded keys (`FailCheck`, `__init__.py:953`), and so may speaking an event
(`FailSpeech`); both abandon what was not spoken yet. `SaveConfig`, `Reschedule`,
`Restart` and `Tick` are the surroundings. History: `alerted` (every decision
with the cooldown it used), `heard`, `lost` (alerts abandoned by a failure), and
`raced` (keys on which two checks had decided at once).


### The services (MCServices)

- **PreventionToken** (`_fetch_keycloak_access_token`): `Resolve` takes the
  cached token or goes to fetch one, `Store` keeps what came and believes in it
  for the lifetime named, at least a minute; there is no lock, two queries may
  both fetch. `Deliver` is the provider's reading of the request.
- **PreventionReports**: what anomaly, drift and forecast queries report of the
  provider's rows or, without any, of local data; the probe; the age of data.
- **AssetRegistry** (`routers/assets.py`): `Begin` reads the whole map of the
  active profile, `Discover` waits for the platform, `Write` looks the active
  profile up again and writes the whole map; `Switch` comes in between.
- **TypedSettings**: saves and deletions of the typed rows, the chains of
  defaults as operators, and lists read row by row (`BeginList`, `ReadRow`,
  `EndList`).
- **WakeWord**: a message is handled in one step (`Audio`, `SetThreshold`,
  `ResetDetector`); a frame is the score the audio model gives it.
- **DialogueContext**: `DialogueStateStore` is a sequence of contexts, least
  recently used first. A turn is `Hear` (`get()` reads the clock before it takes
  the lock), `Get`, `Answer` or `Forget`, `Remember` (`put()`: purge, replace,
  evict). History: `recent` and `stored` say what the store ought to hold
  without mentioning how it holds it.
- **KpiCollection**: two coroutines, `boot` and `loop`, each step from one
  `await` to the next (`Seed...`, `Back...`, `Align...`, `Collect...`), with
  retries (`Fail`, `Wake`), `StopService`, and the routes of administrators.
- **SiteProgress**: the report's four reads (`ReadBaselines`, `ReadSnapshots`
  per metric, `Answer`) between writes.
- **ProductionData**: `Upload` with the parser (`Parse`) and one insertion of all
  rows (`Insert`), `Add`, `List`, `Delete` by an id seen in a list, each with an
  answer that may be lost; `books` is what somebody who adds up all answers
  believes.
- **BusConnection**: both WebSocket clients of the browser, told apart by
  `client`. The functions of the services are operators on the record `link`
  (`Dial`, `TryConnect`, `Advance`, `OnOpen`, `OnClose`, `ScheduleReconnect`),
  so that a handler that calls them in a row is one step, as in the browser:
  a socket that cannot be opened fires `error` and `close` in one task
  (`SocketFails`).

### The questions (MCQueries)

- **QueryExecution**: a batch with a metric its asset does not have is refused as
  a whole (`Ask`, `Refused`); others are looked up in the cache key by key (`Look`,
  `Touch`), `Submit` what is missing, and wait or `GiveUp`; the worker runs one
  job at a time (`Begin`, `Fetch`, `Finish`); `SetAdapter`, `Shutdown`, `Join`,
  `Down`. The interpreter switches threads between any two cache operations.
- **RestFetch**: one mapped query on the wire: `Call`, `Request`, `Retry`, the
  source that takes in observations meanwhile (`Observe`), and the session that
  is closed or belongs to another loop.
- **QueryRouting**, **RestQueries**: derived KPIs, scans, analyses and what-if
  projections; bindings, KPIs, trends, comparisons, discovery. A KPI is mapped to
  a series, to one place of the payload (`PlaceOf`, a path such as
  `$.data[0].value`) or to nothing there.
- **IntentRouting**, **AssetNaming**: an utterance is the set of cues the
  patterns find in it, or the sequence of its words; similarity is a table of
  pairs, computed from `difflib` for the words of the instance. The numerals of a
  line's number (`Numerals`) are a constant, as the words are. A route's answer
  says who took the utterance up (`by`), whether the handler succeeded (`ok`) and
  whether the fallback left it to others (`left`); handlers fail by a set `fails`
  of analyses, and without a PREVENTION client the fallback runs an anomaly
  analysis of its own.
- **Lists**: Python's `sorted` and `next(... for ... if ...)` as these modules use
  them. `Arranged` puts an item at the place given by how many come before it,
  equals in the order they had; TLC evaluates it, and a proof can reason about it.
- **AssetVocabulary**: reading, storing and resetting the asset registry and the
  entity files by handlers in threads, between two attributes that are written
  one after the other. A load from the adapter or from the settings may fail; its
  part is then kept empty.
- **StatusCaches**: `Ask`, `Probed`, `Tested` (a request, up to each of its
  `await`s) against `Save`, `Reset`, `FailReset` (the reload raises, nothing is
  dropped), `Activate` (a profile, or none), `Drop`, `RollBack`, `Update`,
  `Create`, `Delete`. `past` remembers when which configuration was active.

## 3 Runs

`tlc -config X.cfg M`. All passing runs are exhaustive.

| Run | Module | Instance | What it shows |
|---|---|---|---|
| `profile_races` | MCProfileRaces | 2 profiles, 2 configurations, 3 families (2 swept); 1 client alone, or 2 | the transactions of a lone client's calls add up to the indivisible calls (`LoneImplementsRegistry`); with two, a dangling active profile, a leftover or an inherited setting concerns only a name whose deletion was raced (`ActiveRaceContained`, `OrphansRaceContained`, `BornClean`) |
| `profile_leftovers` | MCProfileRaces | 1 client, one family that is not swept | **violation** of `BornEmpty`, section 4 |
| `migration` | MCSettingsMigration | 2 profiles, 2 items; 1 migrator with 2 crashes and 2 edits, or 2 migrators with 1 crash | whoever serves leaves nothing unmigrated (`ServedMigrated`); all end up serving (`CastServes`); one that is alone loses no value and overwrites no edit (`ValuesKeptAlone`, `EditsKept`) |
| `migration_pair_values` | SettingsMigration | 2 migrators, 1 item | **violation** of `ValuesKept`, section 4 |
| `activation` | MCProfileActivation | calm: 1 request while the skill rests, 1 handler, 3 activations, 2 outages, 1 restart, every notification losable; requests: 2 overlapping requests, 1 handler; threads: 1 request, 2 handlers | the skill ends up serving the active profile (`CalmServing`); answers come from a profile that was active during the utterance (`CalmAnswers`); at rest the active profile is the one last reported, the label is true (calm), and no alerts run over the unconfigured adapter unless two reloads met (`SkillAtRest`); no session is orphaned unless two were in the factory at once (`SessionsReferred`) |
| `activation_undone` | ProfileActivation | 1 request overlapping 1 thread, 1 outage | **violation** of `ActiveIsLastDone`, section 4 |
| `alerts_overlap` | MCAlertMonitor | 2 overlapping checks that may fail, 2 keys at the first moment and 1 later, cooldowns 1 and 2, time to 2 | the cooldown holds of every key not decided on twice at once (`CooldownRaceContained`); a key is silent only after an alert that is or will be heard, or that a failing check or speech gave up (`SilenceContained`) |
| `queries` | MCQueries | the modules of MCQueries, each with its instance there | an answer belongs to its batch and is fresh, a batch fails only for an unsupported key, a race on the cache or a shutdown (`AnswersMatch`, `CallsEnd`); complete series are complete, queries end (`PagesAddUp`, `QueryEnds`); derived KPIs, scans, order of the source (`DerivedKpiHasItsData`, `ScanAccountsForPairs`, `SourceOrderIrrelevant`); routes, periods, assets (`RoutesAgree`, `WindowIsHonoured`, `NeverGuesses`); caches that follow a switch (`StatusIsCurrent`, `NamesAreCurrent`) or lag by a lifetime at most (`StatusIsRecent`) |
| `line_named` | MCQueries | questions that name lines | **violation** of `LineAskedIsAnswered`, section 4 |
| `services` | MCServices | the modules of MCServices, each with its instance there | tokens alive when sent, local analyses that depend on the data alone (`TokenAlive`, `FallbackIsSound`); links as given (`LinksAsGiven`); defaults and lists (`FallbacksServe`, `ListsAreReal`); earned wakes (`WakesAreEarned`); conversations (`RecentIsKept`, `FollowUpIsFresh`); points once, baselines earned, reports consistent (`PointRecordedOnce`, `BaselinesAreEarned`, `ProgressIsConsistent`); books that balance (`BooksBalance`); connections (`ConnectionHolds`) |
| `assets_switch` | MCServices | asset requests and a switch | **violation** of `ProfileScoped`, section 4 |
| `widget_fallback` | BusConnection | the widget with 2 addresses | **violation** of `WaitingIsSent`, section 4 |

Properties of races are stated as *containment*: a history variable (`raced`,
`overlaps`, `lost`, `crossed`, `moved`, `overlapped`, `reused`) records that actors met in the way
the code does not defend against, and the property says that nothing goes wrong
unless they did. The comment at each property names the exception and its line;
the hazards in `PROJECT.json` list them.

### Why these bounds

- *Profiles, assets, metrics*: two are enough for "another one" (old and new,
  deleted and active); no operation relates three.
- *Clients, threads, requests, checks, turns, queries*: two make a race. Handler
  bodies are symmetric in everybody else; and nearly every safety property is
  proved for any number (section 5).
- *Activations, outages, crashes, restarts*: the shortest interesting histories
  are fail, roll back, succeed (two activations, one outage) and a crash while
  repairing the damage of a crash (two crashes).
- *Status page*: two edits, and a lifetime (`Age`) of two on a clock that runs to
  two, so that an observation can be told while it is old and can expire. The
  proof covers any number of edits: it showed that some more let a rollback make a
  profile active again that was deleted and created, which is why a creation
  counts as an edit that drops nothing.
- *Store of contexts, cache of batches*: a capacity of two with three keys forces
  an eviction; the clock passes a lifetime while somebody waits.
- *Pages*: two observations a page, up to three full pages, sources that fill
  their pages or not. *Asset names*: two edits (switches, platforms, mappings)
  and what they set off.
- *Token*: units of ten seconds, lifetimes of one minute and above, a margin of
  three; twelve units see a token end while a query waits.
- *KPI collection*: two months, one metric, two starts, one failure per stage;
  thresholds of the code (6 points, 3 retries) become 2, which keeps "too few"
  and "enough", "again" and "given up" apart.
- *Cooldown*: one and two time units with a clock to two lets a configuration
  change both lengthen and shorten a running cooldown.
- *Wake word*: two confirmations, a cooldown of two, messages with one and with
  two frames; *production*: four requests by two clients, files with one good
  row, one of each kind of bad row, a column twice or missing, and a file that
  the database refuses half-way.
- *Bus connection*: two addresses, two reconnections before giving up (8 in the
  code), three sockets alive at once.
- *Two keys of alerts* matter where a check alerts on one and fails at the
  other, which happens at one moment: the constraint `Bounded` of
  `MCAlertMonitor` lets two keys come into play at the first moment only, and
  follows a single key for longer.
- *Adapters* in `ProfileActivation`: objects are recycled once nothing refers to
  them; six never run dry, so that the pool bounds nothing.
- *Symmetry* is used over values that no definition tells apart, and never in a
  run with a liveness property; where TLC's would be unsound or slow, MC modules
  fix the order in which interchangeable actors or values come (`Crowded`,
  `FirstProfile`, `FirstChecker`, `SessionOrder`, `TurnOrder`).
- The instances were also run with each bound enlarged by one where that
  finishes in minutes (four asset requests, five production requests, four
  sockets, twenty units of the token's clock, one request or interval more of the
  collection): the same properties hold.
- *Deadlock* is checked for profiles, activation and alerts. The migration ends
  (everybody serving, no crash and no edit left), and the instances of
  `MCQueries` and `MCServices` stop when a question is answered or a bound is
  reached.

### Fairness

- `CastServes`: a process that is started goes on (`WF` of each migrator;
  start-up is one straight thread). Crashes are bounded, restarts are the
  container's restart policy.
- `CalmServing`: a request that has begun and a handler that has begun go on
  (`WF`, both are threads without an unbounded wait), an event that reached the
  bus is handled (`SF`, since a busy pool disables delivery for a while), and
  users keep talking (`WF`). The last is an assumption on users: the mismatch
  check runs only when somebody speaks. Activations, outages and restarts are
  not fair: they may stop at any time, notifications may all be lost.
- `QueryEnds`: the coroutine of a query is resumed when its answer or its timeout
  is there (`WF` of `Call`, `Request`, `Retry`); every request has a timeout, and
  a server that fails for ever is among the behaviours.

### Counterexamples kept beside the runs

These configurations are not in `PROJECT.json`; each makes TLC print a behaviour
worth reading, and says where an assumption of a run above is needed. The
property each refutes is the only one in its file.

| Configuration, module | Refutes | The behaviour |
|---|---|---|
| `profile_dangling`, MCProfileRaces | `ActiveExists` with two clients | one activates, checks that the profile exists; the other deletes it completely; the first stores its name |
| `profile_json_name`, MCProfileRaces | `ActivationTakesEffect` | a profile named `null` is activated, and read back as nothing |
| `migration_pair_edits`, SettingsMigration | `EditsKept` with two migrators | one serves and takes an edit; the other, between its test and its write, overwrites it |
| `activation_dead_adapter`, ProfileActivation | `MatchedIsUsable` | the platform is down while the skill boots; the failed adapter is installed with the right label, so that the mismatch check never repairs it |
| `activation_two_threads`, ProfileActivation | `NoOrphanSession`, what `SessionsReferred` would be without its exception | a reload runs on the worker of a dispatcher that another reload has replaced already; both are in the factory at once and one's session is dropped open |
| `alerts_speech_failure`, MCAlertMonitor | `NoSilentCooldown`, the same for `SilenceContained` | an alert is recorded, the check raises at the next pair: the key is on cooldown and was never spoken |
| `dialogue_overtaken`, MCServices | `ContextMovesOn` | two turns of one session; the question asked first is answered last and becomes the context |

## 4 Disagreements

Where a run shows the code doing what its documentation or its tests deny:

1. **`profile_leftovers`**: `_delete_scoped_settings_for_profile` is to "Delete
   all profile-scoped settings for a given profile"
   (`skill/services/profiles.py:437`) and sweeps three families; intent
   bindings, KPI objectives and asset mappings stay and are inherited by the
   next profile of that name.
2. **`activation_undone`**: activation "rolls back the active profile if adapter
   creation fails" (`docs/SYSTEM-ARCHITECTURE.md:142`). The skill's mismatch
   check may see the new profile before the rollback and, in `factory.reload`,
   write it into the table after the rollback. The profile that could not be
   activated stays active.
3. **`migration_pair_values`**: the migration is "Idempotent"
   (`skill/services/profiles.py:235`). Two processes that migrate at once can
   replace a setting by the text `None`: one has found no scoped row, the other
   copies and drops the unscoped one, the first reads nothing and stores it.
4. **`assets_switch`**: mappings are "profile-scoped"
   (`web-ui/routers/assets.py:71`). The routes read those of the active profile
   and look the active profile up again when they write; a profile activated in
   between, which for the linking summary is a discovery of up to 22 s, gets the
   assets of the other one in place of its own.
5. **`line_named`**: "returning data for Line-1 would look plausible while
   referring to the wrong production line" (`skill/_slot_resolution.py:138`). A
   question that names a line which is not configured ("line 4") and has nothing
   in the slot is answered for one that is (Line-1): the validation of the named
   line finds the words similar enough to the other's.
6. **`widget_fallback`**: the widget "waits for a connecting socket before
   sending utterances" (`web-ui/frontend/widget/ConnectionManager.test.ts:49`).
   When the first address fails and the second opens, the `close` of the first
   socket has set `this.ws` to null (`ConnectionManager.ts:315`): the widget
   shows "connected", says no hello, and the utterance that waited is refused.
   The page's `hivemind.ts`, which keeps `this.ws`, does not have this fault.

## 5 Proofs

`tlapm ProfileRacesProofs.tla` and so on; every obligation is proved. Theorems
hold for all values of the constants that satisfy the named assumptions: any
number of clients, checks, queries, profiles, settings, any length of time, any
number of crashes. An assumption on the constants is about what the code is
given (a limit is a number, a name is not one of the code's own marks), unless
the table says what it excludes.

| Theorem | States | Assumes besides the module's ASSUME |
|---|---|---|
| **ProfileRacesProofs** `TypeCorrect` | `HTypeOK` | nothing |
| `ActiveContained` | `ActiveRaceContained` | `PlainNames` |
| `OrphansContained` | `OrphansRaceContained` | `PlainNames` |
| `CleanBirth` | `BornClean` | `PlainNames` |
| `OneClientActiveExists` | `ActiveExists` | `PlainNames`, one client |
| `LoneImplements` | `LoneImplementsRegistry`, the refinement | `PlainNames` |
| **SettingsMigrationProofs** `ServedIsMigrated` | `ServedMigrated` | nothing |
| `AloneValuesKept`, `AloneEditsKept` | `ValuesKept`, `EditsKept` | one migrator |
| `CastValuesKept`, `CastEditsKept`, `CastServedMigrated` | `ValuesKeptAlone`, `EditsKept`, `ServedMigrated` of the run | the two casts of the run |
| **AlertMonitorProofs** `TypeCorrect` | `TypeOK` | nothing |
| `CooldownHeard` | `SilenceContained` | nothing |
| `CooldownContained` | `CooldownRaceContained` | nothing |
| `AloneCooldownKept` | `CooldownKept` | one check at a time |
| **ProfileActivationProofs** `SessionsReferenced` | `SessionRaceContained` | nothing |
| `SchedulerServed` | `SchedulerRaceContained` | nothing |
| `LastDoneIsActive`, `LabelHolds`, `AnswersActive` | `ActiveIsLastDone`, `LabelIsTrue`, `AnswersFromActive` | one handler thread; activations meet a skill at rest |
| **ActivationRunProofs** `SessionsHeld` | `SessionsReferred` of the run | nothing |
| `RestHolds`, `CalmAnswersHold` | `SkillAtRest`, `CalmAnswers` of the run | the calm cast has one handler and a skill at rest |
| **QueriesProofs** `AnswersHold` | `AnswersMatch` | a lifetime in `Nat`; no caller is called "none" |
| `CallsHaveEnded` | `CallsEnd` | the same, a capacity in `Nat`; no caller is called "worker" |
| `PagesHold` | `PagesAddUp` | sizes and limits of pages are positive; sources have the fields of a source |
| `DerivedKpisHaveTheirData` | `DerivedKpiHasItsData` | energy times factor divides by the count: rounding is not modelled |
| `RoutesHold` | `RoutesAgree` | the analyses are the four of the code |
| `ScansAccountForPairs` | `ScanAccountsForPairs` | finitely many pairs; the deviation of a pair that was checked is an integer |
| `SourceOrdersAgree` | `SourceOrderIrrelevant`: of series and trends; a KPI mapped to a place of the payload is excepted by the property | observations have a whole value and a time or none, "no time" is not a number, and questions have their fields |
| `NamesAreNotGuessed` | `NeverGuesses` | texts, registries and lists of similar phrases are sequences, mappings are finite; an asset whose identifier is that of one of the first five lines is known by it (`_asset_resolution.py:237`) |
| `WindowsHold` | `WindowIsHonoured` | nothing |
| `StatusHolds`, `StatusStaysRecent` | `StatusIsCurrent`, `StatusIsRecent` | the lifetime is in `Nat`; the unconfigured profile is not one that can be stored, nor "nothing" a configuration |
| `NamesHold` | `NamesAreCurrent` | "none" is not a profile |
| **ServicesProofs** `TokenIsAlive` | `TokenAlive` | nothing |
| `LinksKept` | `LinksAsGiven` | the unconfigured profile is not one that can be stored |
| `ListsHold`, `FallbacksHold` | `ListsAreReal`, `FallbacksServe` | the constants of the code are as it has them: positive factors and sensitivities, a default grid, a voice URL |
| `FallbacksAreSound` | `FallbackIsSound` | the least number of points is in `Nat`; series have whole values at whole times, those for drift at distinct ones |
| `WakesEarned` | `WakesAreEarned` | one confirmation at least; scores and thresholds are integers |
| `ContextsKept`, `FollowUpsFresh` | `RecentIsKept`, `FollowUpIsFresh` | a positive capacity, a lifetime in `Nat` |
| `PointsRecordedOnce` | `PointRecordedOnce` | months and points are counted |
| `BaselinesEarned` | `BaselinesAreEarned` | the table of metrics is finite |
| `ProgressHolds` | `ProgressIsConsistent` | the table of targets is finite, percentages and values in `Nat` |
| `BooksHold` | `BooksBalance` | files are finite tables of the cells of the parser, dates are days |
| `ConnectionsHold` | `ConnectionHolds` | one address and one socket at least |

`PlainNames` says that `ReadBack` is the identity: names that are JSON literals
are excluded, and `profile_json_name` shows why.

### How the proofs are built

`MCServices` and `MCQueries` have their instances' values as constants, given by
the configurations, so that `ServicesProofs` and `QueriesProofs` are about the
very modules the runs check. In each, one lemma says that a step of the
composition is a step of the component of the focus (`ServicesSteps`,
`QueriesSteps`), and another how it begins; a component then needs an inductive
invariant of its own steps, and its theorem is
`focus = "..." => Inv` carried along. `DataInduction` proves once what the
others need of data: a set of naturals that contains zero and successors is
`Nat`, a nonempty one has a least element, a bounded one a greatest; sums over
finite sets exist, are unique and add up over members, unions and classes, and a
sign can be taken out of one; and lists can be sorted: the places of `Arranged`
are those of the items counted, every one is taken once, and what comes out is
in order (`ArrangedInOrder`), depends on the order and the items and not on how
they were listed (`ArrangedSame`, `ArrangedAlike`), and is turned round by the
converse order (`ArrangedReversed`).

The library's induction theorems take an operator as a parameter, which the
provers at hand cannot instantiate. `DataInduction` states induction over *sets*
instead (`NatSetInduction`, `FiniteSetInduction`): the set of the numbers, or of
the subsets, with the property is a set like any other. This is how the recursive
functions of `WakeWord` (the frames of a message), `DialogueContext` (choosing
items of a sequence) and the sums of `ProductionData` and `KpiCollection` are
reasoned about.

**Profiles.** Containment is a statement about states at rest, and says nothing
inside a call. `IInv` speaks about those: a name that is active, or owns a swept
row, without existing is raced or is being deleted *at this moment*
(`ActiveAccounted`, `OrphansAccounted`: the deleting client is one whose listing
is still to come, or includes the row); a client about to write a name that does
not exist has been raced (`WritersRaced`); and every overlap is on record
(`OverlapRecorded`). The interesting steps are `DeleteRow`, which orphans
everything the name owns and must name the client that will clean up,
`ListScoped`, after which rows written later are nobody's unless raced, and
`ReadActiveAfterDelete`, where responsibility ends. `CleanBirth` follows as an
action property: whoever owns the row in the way of a new profile is deleting it
while the creation is under way, which is a race.

**The refinement.** `LoneImplements` maps every transaction of the one client to
a call of `ProfileRegistry` or to a stutter. What the registry sees (`LoneView`)
runs ahead of the rows in the middle of a call: a deletion has reset the active
name and swept the settings when its row disappears, an automatic creation has
activated its profile when its row is written. `LoneStage` is what makes the later
transactions stutters: what a stage knows of the rows, nobody else having
written since, such as that only settings listed for the sweep are left.

**Migration.** For any number of migrators: once one is past the legacy row it
is gone for good (`LegacyGone`), and the listing of one that moves settings
covers every unscoped row left (`ListingCovers`: unscoped rows only ever
disappear). For a lone migrator, `AloneInv` adds what the copy of an item has
reached at each stage (`CopyStage`), that nothing listed has disappeared
(`StillThere`), and that no edit precedes the end of the legacy migration
(`NoEditBefore`); `StepKeeps` derives the two action properties step by step.
Two migrators break `StillThere`, which is finding 3. The run has two casts, one
process alone or both while nobody edits; for the second, `EditsApart` says that
what an administrator entered earlier is in neither's way.

**Alerts.** `SilenceContained` needs what a key has between its record and its
message: the check that recorded it still has it among its events, and a check
that gives up puts all of those into `lost`. For the cooldown, `Remembered` says that of a
key never raced the last alert is the one `last` remembers, and that a decision
to alert under way is the only one and still justified: the time it compared
with has not moved since.

**Activation.** The properties say nothing of a handler in the midst of a reload,
so `IInv` follows the adapter it has in hand. While the factory runs one reload at
a time (`FactoryAlone`), it works on the current adapter, and only that one has an
open session (`OnlyCurrentOpen`). While handlers reload one at a time
(`ReloadAlone`), what a handler installs is what everybody sees (`InHand`), and a
running scheduler sits over a real platform with no reload past stopping it
(`SchedulerOverPlatform`). Each is claimed only as long as `overlaps` has no record
of the contrary (`FactoryInv`, `ReloadInv`), for any number of handlers; with one
handler there never is (`TwoOverlap`). For a calm skill `CalmInv` adds
that requests leave active what they report (`WebCalm`), that events and the
stages of a reload are about the active profile (`AboutActive`), that the labels
are those of the adapter once they are written (`LabelsTrue`) and that an
utterance asks a platform of the active profile or none (`AsksActive`). Finding 2
is the step that breaks `AboutActive` when a request and a handler overlap.
`ActivationRunProofs` carries these results to the run, which holds the calm and
the busy skill side by side: it instantiates the proof module at the constants of
the busy one and maps each of its steps.

**Query batches.** A job that was given up goes on and may end while its caller
has asked something else. `SoundJob` says that a job carries the number of its
batch, never a later one than its caller's, and if it is the present one, its
keys and what may stand at their places; `Held` says the same of the caller.
`Finish` then cannot mix them. The cache appears in neither: an entry is checked
for its key and its age when it is taken. For `CallsEnd`, `FoundStays` says that
an entry a caller has found is there when it moves it, unless the race is on
record (`popitem` and `move_to_end` of two threads); `WaitServed`, that whoever
waits has a job queued or running; `QueueShut`, that nothing is queued once the
executor is shut down, so that `Shutdown` leaves nobody waiting for a job that no
thread will take.

**Pages.** A query about to ask has read whole pages only (`Asking`), so that the
next page continues where the last ended; without a count, it asks on only if
pages are as long as it asks for. `Ordered` says that what was read is what the
source had, in its order, unless the source puts new observations in front and
has done so since; `TotalTold`, that the total is the one told with the first
page, hence the number there was when the query began; `ReadToEnd`, that a query
without a total ended at a short page or at the limit. Retries and lost sessions
keep all four, because they keep the page and the records.

**Status page.** `Sound` says what a request that nothing has crossed knows at
each `await`, and that it is still so; `Remembered`, that an observation which
nothing crossed is of the stored configuration, or the profile is marked as
edited by name, or a save that will drop it is at work. Activation drops
observations and marks, rollback does not, which is where creation matters.
`StatusIsRecent` excepts nothing, and rests on dates alone (`PastInv`): whatever is
remembered or under way was the active platform when its request looked, and an
observation is forgotten a lifetime after that.

**Names.** The registry, its label and the entity files follow the active
profile only in the end, and what matters is who is about to repair them.
`NamesFollow` names that actor for each: an announcement on its way, a worker
that resets, one that is about to write entity files. A worker in the middle of
reading has read what is current, or an actor is on its way that drops what it
will store (`Fresh`). A load that failed leaves its part marked with the profile
it was for, so that an empty part is told from another profile's.

**Assets, settings.** `UpToDate` says that a request not marked as overtaken has
read what is stored for the profile that is still active; so what it writes
differs from the stored map by its own edit alone. `Recorded` says that a list
under way has every row its profile has now among those it may show; `Listing`,
that what it has so far is among them.

**Token.** `Backed` says that what the client believes of its token is no more
than the issuer granted, and that a token about to be sent had the margin left
when it was taken. The step that needs an argument is `Store`: the answer came
within the timeout, so that a token of the least lifetime the client assumes
outlives the margin. `TokenAlive` speaks only of lifetimes not below that least
one, and of requests that arrive within the margin; the client has no defence
against the others (`prevention_http.py:528`).

**Wake word.** `Counted` says that the count of a detector never runs ahead of
the frames heard, and that so many of the last frames reached the threshold; a
message is a recursive function over its frames, and `RunExists` with
`MessageHolds` prove by induction that every frame keeps it. A detection resets
the count, a new threshold or a reset does too.

**Dialogue.** `InOrder` says that the store has one item per session, in the order
of use, with the context stored last; `Complete`, that no session is missing
which has not expired and has fewer than `MaxSessions` sessions after it. An
eviction takes the first item: if that is of a session that should stay, all the
others in the store are used later, and there are `MaxSessions` of them
(`NewestKeeps`), so that it should not.

**Collection.** Points: `PointsAreOne` says that the points of the trend stored at
one time are one row counted once, `PointsAreSeen` that a task which awaits the
trend of a period knows the times of all points stored in it; the loop does not
write points, which is why an `await` in between does no harm. Baselines:
`SeedsMissing` says that what is still to be seeded has no baseline,
`AlignsAsRead` that the baselines read before the realignment are the present
ones, both except where an administrator or the loop has crossed, which is on
record; so that a seed replaces nothing and a realignment writes the earliest
reading. Progress: a report has read of each metric nobody writes meanwhile what
is there (`ReadIsCurrent`), and never more metrics than it counted (`CountHolds`).

**Production.** `Balanced` says that the units stored lie between what was
acknowledged, less the deletions whose answer was lost, and that plus the
insertions whose answer was lost; `ShownIsReal`, that a row a client was shown is
the row it deletes, unless an id came back. The parser's sum over the rows of a
file and the sum over the table are related by induction over the rows.

**Connections.** `PageInv` ties the page's state to its socket, greeting and
timer; it holds until two sockets overlap, which is on record. `WidgetInv` lets
the widget keep more sockets than the one it works on, but not lose its timer
while disconnected and wanted. Each handler is a row of function calls, and its
proof a row of lemmas about them (`TryConnect`, `Advance`, `ScheduleReconnect`).

**Questions.** These theorems are about computations: the inductive invariant
says that a reply is the answer to its question (`RoutingInv`, `AdapterInv`,
`IntentsInv`, `NamingInv`, `ReportsInv`), and the property follows from the
definitions of the answer. `DerivedKpisHaveTheirData`, `RoutesHold` (for any set
of handlers that fail) and `WindowsHold` go by cases over the code's branches. The
others need an argument:

- `ScansAccountForPairs`: the pairs with each of the four outcomes are disjoint
  sets that make up the pairs; the findings are those of the successful ones with
  an anomaly, and sorting loses none, adds none and puts the severest first.
- `SourceOrdersAgree`: two listings of one set of observations are sorted into
  the same list when no two have one time, because distinct times make the order
  strict and a strict order leaves each item one place. What is computed from
  the list, and from the newest observation, is then the same.
- `NamesAreNotGuessed`: each of the code's ways to match an utterance (identifier,
  display name, number of a line, similar phrase) finds something that was heard
  or is similar to it; what is left is the branch in which nothing was named, which
  answers only if there is one asset to choose.
- `FallbacksAreSound`: the local drift is a line fitted to the series in the
  order of its times. Distinct times make that order strict, so that the order in
  which the series came does not matter; of a series upside down the sums of the
  fit change sign and those of squares do not, so that the drift is the opposite
  one. A spike and the dip that mirrors it lie as far from the mean, so that
  one is as anomalous as the other.

**Model-checked only.** Liveness (`CastServes`, `CalmServing`, `QueryEnds`),
whose proofs need `ENABLED`. Every safety property of a passing run is stated by
a theorem. What users hear, and which profile is active, when requests overlap
handlers has no invariant to rest on (sections 3 and 4): what TLC shows of them
are counterexamples.

## 6 Not modelled

- *Voice session* (`VoiceContext.tsx`): phases and timers of a wake-word session
  live in React state, refs and effects, whose order is that of rendering; a
  model would be of React. Speech recognition and synthesis are the browser's.
- *Audit log*: single appends that nothing reads back to decide.
- *Registration* of intents and entity files with OVOS, `stop()`: a list of
  calls at start-up and shutdown.
- *`config.py`, `alerts.py`, generator and mapping routes, React pages*: thin
  handlers over services that are modelled, validation of fields, presentation.
- *Deployment and data generators*: scripts and build files; `terminal_audit.py`
  and `deep_audit.py` are scripts that test a deployment.
- *Left out on purpose within the modelled parts*: the wording of messages,
  units, rounding, regular expressions, JSON paths, encryption beyond "can be
  decrypted or not", the audit record of a query, the derivation of session
  identifiers, `clear()` of the dialogue store (never called), the wall clock set
  back, the delay between reconnections, the server's messages on the bus.

## 7 Plan

Written in order of importance: the profile store with its races, the activation
of a profile across the two processes, the migrations, the alerts; then the
query path (dispatcher, adapter, intents, assets), the services of the Web UI
and the clients. What would come next:

1. *Proofs*: the safety properties of the runs are done. Liveness waits for a
   prover that knows `ENABLED`; its arguments (what decreases with each fair step)
   are in the comments of the properties and in section 3.
2. *Compositions*: alerts over `ProfileActivation` (pairs resolved on one platform
   and checked on another after a switch), dialogue over `ProfileActivation` (a
   follow-up that carries an asset of the old platform), the abandoned coroutine
   of `QueryExecution` as a reload of `ProfileActivation`. Each multiplies two
   state spaces that fill minutes alone.
3. *ProfileStore*: a crash between the transactions of a deletion, and the insert
   that fails when two callers create one key.
4. *Voice session*, if its phases move out of React effects.
