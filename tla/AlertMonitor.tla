----------------------------- MODULE AlertMonitor -----------------------------
(***************************************************************************)
(* The skill's background checks: the scheduled event, AlertMonitor with   *)
(* its cooldown per alert key, and the speech that follows.  A check that  *)
(* takes longer than the interval, or outlives a rescheduling, overlaps    *)
(* the next one: the handlers of events run in a pool of threads, and they *)
(* all share one AlertMonitor.                                             *)
(*                                                                         *)
(* Simplifications: time advances in units of the cooldown; the pairs of a *)
(* check, configured or discovered, are any set of keys and are gone       *)
(* through in any order; what detection answers is any severity, or none.  *)
(***************************************************************************)
EXTENDS Naturals, Sequences

CONSTANTS
  Runs,        \* threads that may be running a check
  Keys,        \* alert type, metric and asset
  Levels,      \* ranks of the severities
  Cooldowns,   \* cooldowns an administrator may choose
  Never,       \* no alert yet
  MaxTime      \* bound on the clock

ASSUME AlertAssumption ==
  /\ Levels \subseteq Nat
  /\ Cooldowns \subseteq Nat \ {0}
  /\ Never \notin Nat
  /\ MaxTime \in Nat

VARIABLES
  now,         \* the clock
  config,      \* the row "alert_config"
  scheduled,   \* whether the repeating event is registered
  last,        \* AlertMonitor._last_alerts
  pc, run,     \* stage and locals of each check
  alerted,     \* history: decisions to alert, oldest first
  heard,       \* history: key and time of what was spoken
  lost,        \* history: key and time of what a failure kept from being spoken
  raced        \* history: keys two checks decided to alert on at once

vars == <<now, config, scheduled, last, pc, run, alerted, heard, lost, raced>>

Time == 0 .. MaxTime

Configs == [enabled : BOOLEAN, threshold : Levels, cooldown : Cooldowns]

\* The snapshot of the configuration, the time the check is made for, the
\* keys to go, the one that was decided on, and the messages to speak.
Checks == [threshold : Levels, cooldown : Cooldowns, started : Time,
           todo : SUBSET Keys, key : Keys, events : SUBSET Keys]

NoCheck == [todo |-> {}, events |-> {}]

Alerts == [key : Keys, at : Time, cooldown : Cooldowns]

TypeOK ==
  /\ now \in Time
  /\ config \in Configs
  /\ scheduled \in BOOLEAN
  /\ last \in [Keys -> Time \union {Never}]
  /\ pc \in [Runs -> {"idle", "check", "record", "speak"}]
  /\ run \in [Runs -> Checks \union {NoCheck}]
  /\ \A r \in Runs : (pc[r] = "idle") <=> (run[r] = NoCheck)
  /\ alerted \in Seq(Alerts)
  /\ heard \subseteq Keys \X Time
  /\ lost \subseteq Keys \X Time
  /\ raced \subseteq Keys

NoAlerts == [k \in Keys |-> Never]
AllIdle == [r \in Runs |-> "idle"]
NoChecks == [r \in Runs |-> NoCheck]

Init ==
  /\ now = 0
  /\ config \in Configs
  /\ scheduled = config.enabled
  /\ last = NoAlerts
  /\ pc = AllIdle
  /\ run = NoChecks
  /\ alerted = <<>>
  /\ heard = {}
  /\ lost = {}
  /\ raced = {}

Tick ==
  /\ now < MaxTime
  /\ now' = now + 1
  /\ UNCHANGED <<config, scheduled, last, pc, run, alerted, heard, lost, raced>>

\* The Web UI stores a new configuration; it does not tell the skill.
SaveConfig ==
  /\ config' \in Configs
  /\ UNCHANGED <<now, scheduled, last, pc, run, alerted, heard, lost, raced>>

\* A reload stops the scheduler and starts it again, if alerts are enabled;
\* the monitor and the checks under way stay.
Reschedule ==
  /\ scheduled' = config.enabled
  /\ UNCHANGED <<now, config, last, pc, run, alerted, heard, lost, raced>>

\* A new process knows nothing of earlier alerts.
Restart ==
  /\ scheduled' = config.enabled
  /\ last' = NoAlerts
  /\ pc' = AllIdle
  /\ run' = NoChecks
  /\ alerted' = <<>>
  /\ heard' = {}
  /\ lost' = {}
  /\ raced' = {}
  /\ UNCHANGED <<now, config>>

Goto(r, stage) == pc' = [pc EXCEPT ![r] = stage]

StartCheck(r) ==
  /\ scheduled
  /\ pc[r] = "idle"
  /\ config.enabled
  /\ \E todo \in SUBSET Keys \ {{}} : \E k \in todo :
       run' = [run EXCEPT ![r] =
                 [threshold |-> config.threshold, cooldown |-> config.cooldown,
                  started |-> now, todo |-> todo, key |-> k, events |-> {}]]
  /\ Goto(r, "check")
  /\ UNCHANGED <<now, config, scheduled, last, alerted, heard, lost, raced>>

CooldownElapsed(r, k) ==
  \/ last[k] = Never
  \/ last[k] + run[r].cooldown <= run[r].started

ShouldAlert(r, k, severity) ==
  severity >= run[r].threshold /\ CooldownElapsed(r, k)

\* Detection found nothing, or failed: no event.
NoEvent(r, k) ==
  /\ pc[r] = "check"
  /\ k \in run[r].todo
  /\ run' = [run EXCEPT ![r].todo = @ \ {k}]
  /\ UNCHANGED <<now, config, scheduled, last, pc, alerted, heard, lost, raced>>

\* Another check is about to alert on the same key.
Rival(r, k) == \E s \in Runs \ {r} : pc[s] = "record" /\ run[s].key = k

NoteRival(r, k) == raced' = IF Rival(r, k) THEN raced \union {k} ELSE raced

\* A mutant of Judge: the time of a suppressed alert is recorded as well.
JudgeAndRecord(r, k) ==
  /\ pc[r] = "check"
  /\ k \in run[r].todo
  /\ \E severity \in Levels :
       IF ShouldAlert(r, k, severity)
       THEN /\ run' = [run EXCEPT ![r].key = k]
            /\ Goto(r, "record")
            /\ NoteRival(r, k)
            /\ UNCHANGED last
       ELSE /\ run' = [run EXCEPT ![r].todo = @ \ {k}]
            /\ last' = [last EXCEPT ![k] = run[r].started]
            /\ UNCHANGED <<pc, raced>>
  /\ UNCHANGED <<now, config, scheduled, alerted, heard, lost>>

\* Detection found something: the event is suppressed, or alerts.
Judge(r, k) ==
  /\ pc[r] = "check"
  /\ k \in run[r].todo
  /\ \E severity \in Levels :
       IF ShouldAlert(r, k, severity)
       THEN /\ run' = [run EXCEPT ![r].key = k]
            /\ Goto(r, "record")
            /\ NoteRival(r, k)
       ELSE /\ run' = [run EXCEPT ![r].todo = @ \ {k}]
            /\ UNCHANGED <<pc, raced>>
  /\ UNCHANGED <<now, config, scheduled, last, alerted, heard, lost>>

Alert(r) == [key |-> run[r].key, at |-> run[r].started,
             cooldown |-> run[r].cooldown]

\* A mutant of Record: the time is not recorded.
RecordNothing(r) ==
  /\ pc[r] = "record"
  /\ run' = [run EXCEPT ![r].todo = @ \ {run[r].key},
                        ![r].events = @ \union {run[r].key}]
  /\ alerted' = Append(alerted, Alert(r))
  /\ Goto(r, "check")
  /\ UNCHANGED <<now, config, scheduled, last, heard, lost, raced>>

\* The other half of _build_event.
Record(r) ==
  /\ pc[r] = "record"
  /\ last' = [last EXCEPT ![run[r].key] = run[r].started]
  /\ run' = [run EXCEPT ![r].todo = @ \ {run[r].key},
                        ![r].events = @ \union {run[r].key}]
  /\ alerted' = Append(alerted, Alert(r))
  /\ Goto(r, "check")
  /\ UNCHANGED <<now, config, scheduled, heard, lost, raced>>

\* run_check returns its events.
EndCheck(r) ==
  /\ pc[r] = "check"
  /\ run[r].todo = {}
  /\ Goto(r, "speak")
  /\ UNCHANGED <<now, config, scheduled, last, run, alerted, heard, lost, raced>>

Speak(r) ==
  /\ pc[r] = "speak"
  /\ \E k \in run[r].events :
       /\ heard' = heard \union {<<k, run[r].started>>}
       /\ run' = [run EXCEPT ![r].events = @ \ {k}]
  /\ UNCHANGED <<now, config, scheduled, last, pc, alerted, lost, raced>>

\* The handler returns: nothing is left to speak.
Return(r) ==
  /\ pc[r] = "speak"
  /\ run[r].events = {}
  /\ run' = [run EXCEPT ![r] = NoCheck]
  /\ Goto(r, "idle")
  /\ UNCHANGED <<now, config, scheduled, last, alerted, heard, lost, raced>>

\* The handler ends early; what was decided and not spoken never will be.
Abandon(r) ==
  /\ lost' = lost \union (run[r].events \X {run[r].started})
  /\ run' = [run EXCEPT ![r] = NoCheck]
  /\ Goto(r, "idle")
  /\ UNCHANGED <<now, config, scheduled, last, alerted, heard, raced>>

\* Judging a result, or wording its message, raises: run_check returns no
\* event at all, not even those it has recorded.
FailCheck(r) == pc[r] = "check" /\ run[r].todo # {} /\ Abandon(r)

\* Handing a message to the bus raises: it and those after it are dropped.
FailSpeech(r) == pc[r] = "speak" /\ run[r].events # {} /\ Abandon(r)

-----------------------------------------------------------------------------
Continue(r) ==
  \/ \E k \in Keys : NoEvent(r, k) \/ Judge(r, k)
  \/ Record(r) \/ EndCheck(r) \/ Speak(r) \/ Return(r)
  \/ FailCheck(r) \/ FailSpeech(r)

Check(r) == StartCheck(r) \/ Continue(r)

Next == Tick \/ SaveConfig \/ Reschedule \/ Restart \/ \E r \in Runs : Check(r)

Spec == Init /\ [][Next]_vars

-----------------------------------------------------------------------------
(***************************************************************************)
(* A key alerts again only once the cooldown in force has elapsed since it *)
(* alerted before, whatever the administrator changes meanwhile and        *)
(* however many checks overlap, with a single exception: two checks that   *)
(* decide on the same key before either of them has recorded it.           *)
(***************************************************************************)
CooldownKeptIn(keys) ==
  \A i, j \in DOMAIN alerted :
    i < j /\ alerted[i].key = alerted[j].key /\ alerted[i].key \in keys
      => alerted[i].at + alerted[j].cooldown <= alerted[j].at

CooldownRaceContained == CooldownKeptIn(Keys \ raced)

(***************************************************************************)
(* The documentation makes no exception: an event is suppressed if "an     *)
(* unsuppressed event with the same key occurred within cooldown_minutes". *)
(***************************************************************************)
CooldownKept == CooldownKeptIn(Keys)

(***************************************************************************)
(* Whoever hears of the last alert of a key: it has been spoken, or the    *)
(* check that raised it is still going to speak it.                        *)
(***************************************************************************)
Heard(k) ==
  \/ <<k, last[k]>> \in heard
  \/ \E r \in Runs : k \in run[r].events /\ run[r].started = last[k]

(***************************************************************************)
(* A key is on cooldown for an alert nobody hears only if the check that   *)
(* decided it failed before speaking it: never for a suppressed one, and   *)
(* never because another check overlapped or the alerts were reconfigured. *)
(***************************************************************************)
SilenceContained ==
  \A k \in Keys : last[k] # Never => Heard(k) \/ <<k, last[k]>> \in lost

\* What a listener would want, and a failing check or speech refutes.
NoSilentCooldown == \A k \in Keys : last[k] # Never => Heard(k)
=============================================================================
