-------------------------- MODULE ProfileActivation --------------------------
(***************************************************************************)
(* How a profile activated in the Web UI reaches the voice skill.          *)
(*                                                                         *)
(*  - web-ui/routers/profiles.py, activate_profile: record the profile,    *)
(*    reload a request-local adapter, roll back or notify the skill;       *)
(*  - skill/adapters/factory.py: the skill's adapter factory;              *)
(*  - skill/__init__.py: the handler of "avaros.profile.activated", the    *)
(*    check every utterance makes before it is answered, the reload, the   *)
(*    fallback and the alert scheduler.                                    *)
(*                                                                         *)
(* Simplifications: the profiles exist throughout (ProfileStore has their  *)
(* creation and deletion); a query and an adapter's probe succeed exactly  *)
(* if the platform is reachable at that moment; the 60-second limit on a   *)
(* reload does not expire; alerts are enabled.                             *)
(***************************************************************************)
EXTENDS Naturals, FiniteSets

CONSTANTS
  Profiles,        \* configured profiles
  Unconfigured,    \* the built-in profile
  Requests,        \* concurrent activation requests of the Web UI
  Threads,         \* threads of the skill that run message handlers
  Adapters,        \* adapter objects of the skill, reused when unreferenced
  NoAdapter,
  MaxActivations,  \* bound on activation requests
  MaxOutages,      \* bound on changes of reachability
  MaxRestarts,     \* bound on restarts of the skill process
  Lossy,           \* whether a notification may get lost
  Overlap          \* whether requests and the skill's activity may overlap

Names == Profiles \union {Unconfigured}

ASSUME ActivationAssumption ==
  /\ Unconfigured \notin Profiles
  /\ NoAdapter \notin Adapters
  /\ {MaxActivations, MaxOutages, MaxRestarts} \subseteq Nat
  /\ Lossy \in BOOLEAN /\ Overlap \in BOOLEAN

VARIABLES
  active,      \* the "active_profile" row, shared by both processes
  reachable,   \* platforms that answer at the moment
  bus,         \* bus[p]: undelivered avaros.profile.activated events for p
  web,         \* web[r]: locals of activation request r
  adapter,     \* adapter[a]: profile, class and open session of adapter a
  current,     \* AdapterFactory._current_adapter
  dispatcher,  \* adapter of the skill's QueryDispatcher
  loaded,      \* _loaded_profile
  loadedRest,  \* _loaded_platform is "generic_rest"
  scheduler,   \* _alert_scheduler_active
  up,          \* the skill has registered its bus handlers
  thread,      \* thread[t]: locals of the handler that t runs
  lastDone,    \* history: target of the last activation reported as done
  seen,        \* history: seen[t], values of active since t's utterance began
  spent,       \* activations, outages and restarts so far
  overlaps     \* history: what two threads have done at the same time

vars == <<active, reachable, bus, web, adapter, current, dispatcher, loaded,
          loadedRest, scheduler, up, thread, lastDone, seen, spent,
          overlaps>>

skillVars == <<adapter, current, dispatcher, loaded, loadedRest, scheduler,
               up, thread>>

IdleRequest == [pc |-> "idle", target |-> Unconfigured, old |-> Unconfigured]

IdleThread == [pc |-> "idle", job |-> "none", prof |-> Unconfigured,
               runner |-> NoAdapter, mine |-> NoAdapter, rest |-> FALSE]

Boot == [IdleThread EXCEPT !.pc = "create", !.job = "boot"]

\* Stages of factory.reload; "set_active" is where it waits for its turn.
RunningStages == {"shutdown", "create", "configure", "probe"}

TypeOK ==
  /\ active \in Names
  /\ reachable \subseteq Profiles
  /\ bus \in [Names -> 0 .. MaxActivations]
  /\ web \in [Requests -> [pc : {"idle", "set", "reload", "rollback", "notify"},
                           target : Names, old : Names]]
  /\ adapter \in [Adapters -> [of : Names, rest : BOOLEAN, open : BOOLEAN]]
  /\ current \in Adapters \union {NoAdapter}
  /\ dispatcher \in Adapters \union {NoAdapter}
  /\ loaded \in Names
  /\ loadedRest \in BOOLEAN /\ scheduler \in BOOLEAN /\ up \in BOOLEAN
  /\ thread \in [Threads ->
       [pc : {"idle", "stop", "install", "label", "start", "fallback", "act",
               "set_active"} \union RunningStages,
        job : {"none", "boot", "event", "utterance"}, prof : Names,
        runner : Adapters \union {NoAdapter},
        mine : Adapters \union {NoAdapter}, rest : BOOLEAN]]
  /\ lastDone \in Names
  /\ seen \in [Threads -> SUBSET Names]
  /\ overlaps \subseteq {"reload", "factory"}
  /\ spent \in [activations : 0 .. MaxActivations, outages : 0 .. MaxOutages,
                restarts : 0 .. MaxRestarts]

WebIdle == \A r \in Requests : web[r].pc = "idle"
SkillIdle == \A t \in Threads : thread[t].pc = "idle"
BusEmpty == \A p \in Names : bus[p] = 0
Quiet == WebIdle /\ SkillIdle /\ BusEmpty

\* The skill boots with some profile active from an earlier session.
Init ==
  /\ active \in Names
  /\ reachable \in SUBSET Profiles
  /\ bus = [p \in Names |-> 0]
  /\ web = [r \in Requests |-> IdleRequest]
  /\ adapter = [a \in Adapters |->
                  [of |-> Unconfigured, rest |-> FALSE, open |-> FALSE]]
  /\ current = NoAdapter /\ dispatcher = NoAdapter
  /\ loaded = Unconfigured /\ loadedRest = FALSE
  /\ scheduler = FALSE /\ up = FALSE
  /\ \E t \in Threads :
       thread = [u \in Threads |-> IF u = t THEN Boot ELSE IdleThread]
  /\ lastDone = active
  /\ seen = [t \in Threads |-> {}]
  /\ spent = [activations |-> 0, outages |-> 0, restarts |-> 0]
  /\ overlaps = {}

\* Every write of the row is seen by the utterances in progress.
WriteActive(p) ==
  /\ active' = p
  /\ seen' = [t \in Threads |->
                IF thread[t].job = "utterance" THEN seen[t] \union {p} ELSE {}]

-----------------------------------------------------------------------------
(* The Web UI.                                                             *)

WebGoto(r, stage) == web' = [web EXCEPT ![r].pc = stage]

\* Validation passes; the previous profile is read for the rollback.
BeginActivate(r, p) ==
  /\ web[r].pc = "idle"
  /\ spent.activations < MaxActivations
  /\ Overlap \/ (Quiet /\ up)
  /\ web' = [web EXCEPT ![r] = [pc |-> "set", target |-> p, old |-> active]]
  /\ spent' = [spent EXCEPT !.activations = @ + 1]
  /\ UNCHANGED <<active, reachable, bus, skillVars, lastDone, seen, overlaps>>

SetActive(r) ==
  /\ web[r].pc = "set"
  /\ WriteActive(web[r].target)
  /\ WebGoto(r, "reload")
  /\ UNCHANGED <<reachable, bus, skillVars, lastDone, spent, overlaps>>

\* The request's own factory creates an adapter for whatever is active now.
WebReload(r) ==
  /\ web[r].pc = "reload"
  /\ WebGoto(r, IF active \in reachable \union {Unconfigured}
                THEN "notify" ELSE "rollback")
  /\ UNCHANGED <<active, reachable, bus, skillVars, lastDone, seen, spent, overlaps>>

\* A rollback that forgets to write the previous profile back.
RollbackForgotten(r) ==
  /\ web[r].pc = "rollback"
  /\ web' = [web EXCEPT ![r] = IdleRequest]
  /\ UNCHANGED <<active, reachable, bus, skillVars, lastDone, seen, spent, overlaps>>

\* The reload after the rollback changes nothing that outlives the request.
Rollback(r) ==
  /\ web[r].pc = "rollback"
  /\ WriteActive(web[r].old)
  /\ web' = [web EXCEPT ![r] = IdleRequest]
  /\ UNCHANGED <<reachable, bus, skillVars, lastDone, spent, overlaps>>

\* _notify_skill_via_bus is best effort; the request succeeds either way.
Notify(r) ==
  /\ web[r].pc = "notify"
  /\ \/ bus' = [bus EXCEPT ![web[r].target] = @ + IF up THEN 1 ELSE 0]
     \/ Lossy /\ UNCHANGED bus
  /\ lastDone' = web[r].target
  /\ web' = [web EXCEPT ![r] = IdleRequest]
  /\ UNCHANGED <<active, reachable, skillVars, seen, spent, overlaps>>

-----------------------------------------------------------------------------
(* The skill's handlers.                                                   *)

Goto(t, stage) == thread' = [thread EXCEPT ![t].pc = stage]

Finish(t) ==
  /\ thread' = [thread EXCEPT ![t] = IdleThread]
  /\ seen' = [seen EXCEPT ![t] = {}]

MayStart(t) == up /\ thread[t].pc = "idle" /\ (Overlap \/ WebIdle)

\* A reload that begins while another thread is reloading is noted.
NoteReload(t) ==
  overlaps' = IF \E u \in Threads \ {t} : thread[u].pc \notin {"idle", "act"}
              THEN overlaps \union {"reload"} ELSE overlaps

\* A handler that runs for an event nobody sent.
DeliverPhantom(t, p) ==
  /\ MayStart(t)
  /\ bus' = [bus EXCEPT ![p] = @ - 1]
  /\ thread' = [thread EXCEPT ![t] =
                  [IdleThread EXCEPT !.pc = "stop", !.job = "event", !.prof = p]]
  /\ NoteReload(t)
  /\ UNCHANGED <<active, reachable, web, adapter, current, dispatcher, loaded,
                 loadedRest, scheduler, up, lastDone, seen, spent>>

\* _handle_profile_switch.  Events overtake each other: every notification
\* has a connection of its own and handlers run on a pool.
DeliverEvent(t, p) ==
  /\ MayStart(t)
  /\ bus[p] > 0
  /\ bus' = [bus EXCEPT ![p] = @ - 1]
  /\ thread' = [thread EXCEPT ![t] =
                  [IdleThread EXCEPT !.pc = "stop", !.job = "event", !.prof = p]]
  /\ NoteReload(t)
  /\ UNCHANGED <<active, reachable, web, adapter, current, dispatcher, loaded,
                 loadedRest, scheduler, up, lastDone, seen, spent>>

\* A check that compares the platforms only.
PlatformMismatch == (active # Unconfigured) # loadedRest

Mismatch == active # loaded \/ (active # Unconfigured) # loadedRest

\* _safe_dispatch begins with _check_profile_mismatch.
BeginUtterance(t) ==
  /\ MayStart(t)
  /\ thread' = [thread EXCEPT ![t] =
                  [IdleThread EXCEPT !.pc = IF Mismatch THEN "stop" ELSE "act",
                                     !.job = "utterance", !.prof = active]]
  /\ seen' = [seen EXCEPT ![t] = {active}]
  /\ IF Mismatch THEN NoteReload(t) ELSE UNCHANGED overlaps
  /\ UNCHANGED <<active, reachable, bus, web, adapter, current, dispatcher,
                 loaded, loadedRest, scheduler, up, lastDone, spent>>

\* A reload that leaves the scheduler running.
StopSchedulerForgotten(t) ==
  /\ thread[t].pc = "stop"
  /\ thread' = [thread EXCEPT ![t].pc = "set_active", ![t].runner = dispatcher]
  /\ UNCHANGED <<active, reachable, bus, web, adapter, current, dispatcher,
                 loaded, loadedRest, scheduler, up, lastDone, seen, spent, overlaps>>

\* _reload_adapter stops the scheduler, then hands factory.reload to the
\* worker thread of the dispatcher it finds, ...
StopScheduler(t) ==
  /\ thread[t].pc = "stop"
  /\ scheduler' = FALSE
  /\ thread' = [thread EXCEPT ![t].pc = "set_active", ![t].runner = dispatcher]
  /\ UNCHANGED <<active, reachable, bus, web, adapter, current, dispatcher,
                 loaded, loadedRest, up, lastDone, seen, spent, overlaps>>

\* ... which runs one call at a time.  factory.reload(profile_name) first
\* records the profile as active once more.
RecordActive(t) ==
  /\ thread[t].pc = "set_active"
  /\ \A u \in Threads : thread[u].pc \in RunningStages =>
                           thread[u].runner # thread[t].runner
  /\ WriteActive(thread[t].prof)
  /\ Goto(t, "shutdown")
  /\ overlaps' = IF \E u \in Threads \ {t} : thread[u].pc \in RunningStages
                 THEN overlaps \union {"factory"} ELSE overlaps
  /\ UNCHANGED <<reachable, bus, web, adapter, current, dispatcher, loaded,
                 loadedRest, scheduler, up, lastDone, spent>>

\* A reload that drops the old adapter without shutting it down.
DropCurrent(t) ==
  /\ thread[t].pc = "shutdown"
  /\ current' = NoAdapter
  /\ Goto(t, "create")
  /\ UNCHANGED <<active, reachable, bus, web, adapter, dispatcher, loaded,
                 loadedRest, scheduler, up, lastDone, seen, spent, overlaps>>

ShutdownCurrent(t) ==
  /\ thread[t].pc = "shutdown"
  /\ adapter' = IF current = NoAdapter THEN adapter
                ELSE [adapter EXCEPT ![current].open = FALSE]
  /\ current' = NoAdapter
  /\ Goto(t, "create")
  /\ UNCHANGED <<active, reachable, bus, web, dispatcher, loaded, loadedRest,
                 scheduler, up, lastDone, seen, spent, overlaps>>

\* create() returns the cached adapter, or reads the active profile to choose
\* the class ...
ChooseClass(t) ==
  /\ thread[t].pc = "create"
  /\ thread' = [thread EXCEPT ![t] =
       IF current # NoAdapter
       THEN [@ EXCEPT !.mine = current, !.pc = "probe"]
       ELSE [@ EXCEPT !.rest = (active # Unconfigured), !.pc = "configure"]]
  /\ UNCHANGED <<active, reachable, bus, web, adapter, current, dispatcher,
                 loaded, loadedRest, scheduler, up, lastDone, seen, spent, overlaps>>

Referenced ==
  {current, dispatcher} \union {thread[t].mine : t \in Threads}
    \union {thread[t].runner : t \in Threads}

Free == {a \in Adapters \ Referenced : ~adapter[a].open}

\* ... and, for the REST adapter, reads it again for its configuration.
Instantiate(t) ==
  /\ thread[t].pc = "configure"
  /\ Free # {}
  /\ LET a == CHOOSE x \in Free : TRUE
     IN  /\ adapter' = [adapter EXCEPT ![a] =
               [of |-> IF thread[t].rest THEN active ELSE Unconfigured,
                rest |-> thread[t].rest, open |-> FALSE]]
         /\ current' = a
         /\ thread' = [thread EXCEPT ![t].mine = a, ![t].pc = "probe"]
  /\ UNCHANGED <<active, reachable, bus, web, dispatcher, loaded, loadedRest,
                 scheduler, up, lastDone, seen, spent, overlaps>>

\* initialize(): a REST adapter opens a session if its platform answers.
ProbeSucceeds(t) ==
  /\ thread[t].pc = "probe"
  /\ LET a == thread[t].mine
     IN  /\ adapter[a].rest => adapter[a].of \in reachable
         /\ adapter' = [adapter EXCEPT ![a].open = adapter[a].rest]
  /\ Goto(t, "install")
  /\ UNCHANGED <<active, reachable, bus, web, current, dispatcher, loaded,
                 loadedRest, scheduler, up, lastDone, seen, spent, overlaps>>

\* The failed adapter stays the factory's current one.  initialize() of the
\* skill goes on with it, an event falls back to the unconfigured adapter, an
\* utterance goes on with the dispatcher it finds.
ProbeFails(t) ==
  /\ thread[t].pc = "probe"
  /\ LET a == thread[t].mine
     IN  /\ adapter[a].rest /\ adapter[a].of \notin reachable
         /\ adapter' = [adapter EXCEPT ![a].open = FALSE]
  /\ thread' = [thread EXCEPT ![t].runner = NoAdapter,
                  ![t].pc = CASE thread[t].job = "boot" -> "install"
                              [] thread[t].job = "event" -> "fallback"
                              [] thread[t].job = "utterance" -> "act"]
  /\ UNCHANGED <<active, reachable, bus, web, current, dispatcher, loaded,
                 loadedRest, scheduler, up, lastDone, seen, spent, overlaps>>

InstallDispatcher(t) ==
  /\ thread[t].pc = "install"
  /\ dispatcher' = thread[t].mine
  /\ thread' = [thread EXCEPT ![t].pc = "label", ![t].runner = NoAdapter]
  /\ UNCHANGED <<active, reachable, bus, web, adapter, current, loaded,
                 loadedRest, scheduler, up, lastDone, seen, spent, overlaps>>

\* The label is read from the table, not from the adapter.  At boot the bus
\* handlers are registered next.
LabelProfile(t) ==
  /\ thread[t].pc = "label"
  /\ loaded' = active
  /\ loadedRest' = adapter[thread[t].mine].rest
  /\ up' = TRUE
  /\ Goto(t, "start")
  /\ UNCHANGED <<active, reachable, bus, web, adapter, current, dispatcher,
                 scheduler, lastDone, seen, spent, overlaps>>

StartScheduler(t) ==
  /\ thread[t].pc = "start"
  /\ scheduler' = (scheduler \/ adapter[dispatcher].rest)
  /\ IF thread[t].job = "utterance"
     THEN Goto(t, "act") /\ UNCHANGED seen
     ELSE Finish(t)
  /\ UNCHANGED <<active, reachable, bus, web, adapter, current, dispatcher,
                 loaded, loadedRest, up, lastDone, spent, overlaps>>

\* A fallback that keeps the label of the profile it replaces.
FallbackKeepsLabel(t) ==
  /\ thread[t].pc = "fallback"
  /\ Free # {}
  /\ dispatcher' = CHOOSE x \in Free : TRUE
  /\ adapter' = [adapter EXCEPT ![dispatcher'] =
                   [of |-> Unconfigured, rest |-> FALSE, open |-> FALSE]]
  /\ Finish(t)
  /\ UNCHANGED <<active, reachable, bus, web, current, loaded, loadedRest,
                 scheduler, up, lastDone, spent, overlaps>>

\* _force_unconfigured_fallback: a fresh unconfigured adapter, which the
\* factory knows nothing of.
Fallback(t) ==
  /\ thread[t].pc = "fallback"
  /\ Free # {}
  /\ LET a == CHOOSE x \in Free : TRUE
     IN  /\ adapter' = [adapter EXCEPT ![a] =
               [of |-> Unconfigured, rest |-> FALSE, open |-> FALSE]]
         /\ dispatcher' = a
  /\ loaded' = Unconfigured
  /\ loadedRest' = FALSE
  /\ Finish(t)
  /\ UNCHANGED <<active, reachable, bus, web, current, scheduler, up, lastDone,
                 spent, overlaps>>

\* What the query that follows tells the user: data of a platform, "not
\* configured", or an error.
Reply ==
  LET a == adapter[dispatcher]
  IN  IF ~a.rest THEN Unconfigured
      ELSE IF a.open /\ a.of \in reachable THEN a.of ELSE "error"

Answer(t) ==
  /\ thread[t].pc = "act"
  /\ Finish(t)
  /\ UNCHANGED <<active, reachable, bus, web, adapter, current, dispatcher,
                 loaded, loadedRest, scheduler, up, lastDone, spent, overlaps>>

-----------------------------------------------------------------------------
(* The surroundings.                                                       *)

Outage(p) ==
  /\ spent.outages < MaxOutages
  /\ reachable' = IF p \in reachable THEN reachable \ {p}
                  ELSE reachable \union {p}
  /\ spent' = [spent EXCEPT !.outages = @ + 1]
  /\ UNCHANGED <<active, bus, web, skillVars, lastDone, seen, overlaps>>

\* The skill process dies and comes back; events sent meanwhile are not heard.
Restart(t) ==
  /\ spent.restarts < MaxRestarts
  /\ Overlap \/ WebIdle
  /\ spent' = [spent EXCEPT !.restarts = @ + 1]
  /\ bus' = [p \in Names |-> 0]
  /\ adapter' = [a \in Adapters |->
                   [of |-> Unconfigured, rest |-> FALSE, open |-> FALSE]]
  /\ current' = NoAdapter /\ dispatcher' = NoAdapter
  /\ loaded' = Unconfigured /\ loadedRest' = FALSE
  /\ scheduler' = FALSE /\ up' = FALSE
  /\ thread' = [u \in Threads |-> IF u = t THEN Boot ELSE IdleThread]
  /\ seen' = [u \in Threads |-> {}]
  /\ overlaps' = {}
  /\ UNCHANGED <<active, reachable, web, lastDone>>

WebStep(r) == SetActive(r) \/ WebReload(r) \/ Rollback(r) \/ Notify(r)

HandlerStep(t) ==
  \/ StopScheduler(t) \/ RecordActive(t) \/ ShutdownCurrent(t)
  \/ ChooseClass(t) \/ Instantiate(t) \/ ProbeSucceeds(t) \/ ProbeFails(t)
  \/ InstallDispatcher(t) \/ LabelProfile(t) \/ StartScheduler(t)
  \/ Fallback(t) \/ Answer(t)

Next ==
  \/ \E r \in Requests : WebStep(r) \/ \E p \in Names : BeginActivate(r, p)
  \/ \E t \in Threads :
       \/ HandlerStep(t)
       \/ BeginUtterance(t)
       \/ \E p \in Names : DeliverEvent(t, p)
       \/ Restart(t)
  \/ \E p \in Profiles : Outage(p)

Spec == Init /\ [][Next]_vars

\* Requests and handlers that have begun go on, events that reached the bus
\* are handled, and users keep talking to the assistant.
Fairness ==
  /\ \A r \in Requests : WF_vars(WebStep(r))
  /\ \A t \in Threads : WF_vars(HandlerStep(t))
  /\ WF_vars(\E t \in Threads : BeginUtterance(t))
  /\ \A p \in Names : SF_vars(\E t \in Threads : DeliverEvent(t, p))

FairSpec == Spec /\ Fairness

-----------------------------------------------------------------------------
(***************************************************************************)
(* Data a user hears comes from a profile that was the active one at some  *)
(* moment of the utterance, whatever notifications were lost, whatever     *)
(* platform was down and however often the skill restarted.                *)
(***************************************************************************)
AnswersFromActive ==
  [][\A t \in Threads :
       thread[t].pc = "act" /\ thread'[t].pc = "idle" /\ up' =>
         Reply \in seen[t] \union {Unconfigured, "error"}]_vars

(***************************************************************************)
(* When nothing is in progress the active profile is the one whose         *)
(* activation was last reported as done: a failed activation has been      *)
(* rolled back, and nothing has undone a successful one.                   *)
(***************************************************************************)
ActiveIsLastDone == Quiet /\ up => active = lastDone

(***************************************************************************)
(* The profile the skill believes to have loaded is the one its adapter    *)
(* talks to, so that the mismatch check compares the right thing.          *)
(***************************************************************************)
LabelIsTrue ==
  SkillIdle /\ up /\ loaded # Unconfigured => adapter[dispatcher].of = loaded

(***************************************************************************)
(* The alert scheduler never runs against the unconfigured adapter: every  *)
(* way out of a reload, the fallback included, leaves it stopped or over a *)
(* configured adapter.                                                     *)
(***************************************************************************)
SchedulerHasPlatform == SkillIdle /\ up /\ scheduler => adapter[dispatcher].rest

(***************************************************************************)
(* That holds of handlers that run at the same time as well, as long as no *)
(* two of them reload: one may start the scheduler, over the adapter it    *)
(* has installed, after the other has stopped it and before it installs.   *)
(***************************************************************************)
SchedulerRaceContained == "reload" \notin overlaps => SchedulerHasPlatform

(***************************************************************************)
(* No HTTP session is left open by an adapter that nothing refers to, ...  *)
(***************************************************************************)
NoOrphanSession == \A a \in Adapters : adapter[a].open => a \in Referenced

(***************************************************************************)
(* ... as long as the factory, which has no lock, runs one reload at a     *)
(* time.  Its callers wait for each other if they came with the same       *)
(* dispatcher, so that reloads which merely overlap are no exception.      *)
(***************************************************************************)
SessionRaceContained == "factory" \notin overlaps => NoOrphanSession

(***************************************************************************)
(* "Lazy reload on profile mismatch -> automatic recovery": at rest, with  *)
(* no mismatch and the platform reachable, the adapter has its session.    *)
(***************************************************************************)
MatchedIsUsable ==
  SkillIdle /\ up /\ ~Mismatch /\ active \in reachable =>
    adapter[dispatcher].open

\* The skill serves the active profile.
Serving ==
  /\ up /\ loaded = active
  /\ IF active = Unconfigured THEN ~adapter[dispatcher].rest
     ELSE adapter[dispatcher].of = active /\ adapter[dispatcher].open

(***************************************************************************)
(* Once the administrator stops, a skill whose users keep talking ends up  *)
(* serving the active profile for good, even if every notification is      *)
(* lost: the mismatch check alone brings it there.  Platforms that are     *)
(* never down are assumed; MatchedIsUsable is about the others.            *)
(***************************************************************************)
EventuallyServing == [](reachable = Profiles) => <>[]Serving
=============================================================================
