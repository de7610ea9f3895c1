-------------------------- MODULE AlertMonitorProofs --------------------------
(***************************************************************************)
(* Proofs about AlertMonitor, for any number of keys, severities and       *)
(* cooldowns and any length of time.  That a key is on cooldown for an     *)
(* alert nobody hears only because a check failed holds however many of    *)
(* them overlap; that the cooldown is kept holds of every key that no two  *)
(* checks decided on at once, and so of all keys if checks never overlap.  *)
(***************************************************************************)
EXTENDS AlertMonitor, TLAPS

USE AlertAssumption

Stages == {"idle", "check", "record", "speak"}

\* What a check holds at each stage.
StageOK ==
  \A r \in Runs :
    /\ pc[r] = "idle" => run[r] = NoCheck
    /\ pc[r] # "idle" => run[r] \in Checks
    /\ pc[r] = "record" => run[r].key \in run[r].todo

\* Its parts of TypeOK that the proofs need, and the stages.
Typed ==
  /\ now \in Time
  /\ config \in Configs
  /\ scheduled \in BOOLEAN
  /\ last \in [Keys -> Time \union {Never}]
  /\ pc \in [Runs -> Stages]
  /\ run \in [Runs -> Checks \union {NoCheck}]
  /\ alerted \in Seq(Alerts)
  /\ heard \subseteq Keys \X Time
  /\ lost \subseteq Keys \X Time
  /\ raced \subseteq Keys
  /\ StageOK

\* An idle thread holds no locals: the empty record has no field "started".
LEMMA NoCheckIdle == NoCheck \notin Checks
  BY DEF NoCheck, Checks

\* Starting, leaving and moving on within a check keep its locals typed.
LEMMA CheckUpdated ==
  ASSUME NEW x \in Checks
  PROVE  /\ \A k \in Keys : /\ [x EXCEPT !.key = k] \in Checks
                            /\ [x EXCEPT !.key = k].key = k
                            /\ [x EXCEPT !.key = k].todo = x.todo
                            /\ [x EXCEPT !.key = k].started = x.started
                            /\ [x EXCEPT !.key = k].cooldown = x.cooldown
                            /\ [x EXCEPT !.key = k].events = x.events
         /\ \A I \in SUBSET Keys : /\ [x EXCEPT !.todo = I] \in Checks
                                   /\ [x EXCEPT !.todo = I].started = x.started
                                   /\ [x EXCEPT !.todo = I].events = x.events
         /\ \A I \in SUBSET Keys : /\ [x EXCEPT !.events = I] \in Checks
                                   /\ [x EXCEPT !.events = I].started = x.started
                                   /\ [x EXCEPT !.events = I].events = I
         /\ \A I, J \in SUBSET Keys :
              /\ [x EXCEPT !.todo = I, !.events = J] \in Checks
              /\ [x EXCEPT !.todo = I, !.events = J].started = x.started
              /\ [x EXCEPT !.todo = I, !.events = J].events = J
  BY DEF Checks

\* One check changes; the others do not.
LEMMA OneRuns ==
  ASSUME Typed, NEW r \in Runs, NEW x \in Checks \union {NoCheck},
         run' = [run EXCEPT ![r] = x]
  PROVE  /\ run' \in [Runs -> Checks \union {NoCheck}]
         /\ run'[r] = x
         /\ \A s \in Runs : s # r => run'[s] = run[s]
  BY DEF Typed

LEMMA OneMoves ==
  ASSUME Typed, NEW r \in Runs, NEW stage \in Stages, Goto(r, stage)
  PROVE  /\ pc' \in [Runs -> Stages]
         /\ pc'[r] = stage
         /\ \A s \in Runs : s # r => pc'[s] = pc[s]
  BY DEF Typed, Goto

-----------------------------------------------------------------------------
(* What each step of a check does to its locals.                           *)

LEMMA JudgeEffect ==
  ASSUME Typed, NEW r \in Runs, NEW k \in Keys, NoEvent(r, k) \/ Judge(r, k)
  PROVE  /\ run' \in [Runs -> Checks \union {NoCheck}] /\ run[r] \in Checks
         /\ \A s \in Runs : s # r => run'[s] = run[s] /\ pc'[s] = pc[s]
         /\ run'[r] \in Checks /\ run'[r].events = run[r].events
         /\ run'[r].started = run[r].started
         /\ pc' \in [Runs -> Stages] /\ pc'[r] \in {"check", "record"}
         /\ pc'[r] = "record" => /\ k \in run'[r].todo /\ run'[r].key = k
                                 /\ CooldownElapsed(r, k)
                                 /\ run'[r].cooldown = run[r].cooldown
                                 /\ Rival(r, k) => k \in raced'
         /\ raced \subseteq raced' /\ raced' \subseteq Keys
         /\ UNCHANGED <<now, config, scheduled, last, alerted, heard, lost>>
<1> DEFINE x == [run[r] EXCEPT !.key = k]
           y == [run[r] EXCEPT !.todo = @ \ {k}]
<1>1. /\ run[r] \in Checks /\ pc[r] = "check" /\ k \in run[r].todo
      /\ UNCHANGED <<now, config, scheduled, last, alerted, heard, lost>>
  BY DEF Typed, StageOK, NoEvent, Judge
<1>2. run[r].todo \ {k} \in SUBSET Keys
  BY <1>1 DEF Checks
<1>3. /\ x \in Checks /\ x.key = k /\ x.todo = run[r].todo
      /\ x.started = run[r].started /\ x.cooldown = run[r].cooldown
      /\ x.events = run[r].events
  BY <1>1, CheckUpdated
<1>4. /\ y \in Checks /\ y.started = run[r].started
      /\ y.events = run[r].events
  BY <1>1, <1>2, CheckUpdated
<1>5. \/ /\ run' = [run EXCEPT ![r] = y] /\ UNCHANGED <<pc, raced>>
      \/ /\ run' = [run EXCEPT ![r] = x] /\ Goto(r, "record")
         /\ CooldownElapsed(r, k) /\ NoteRival(r, k)
  BY DEF NoEvent, Judge, ShouldAlert
<1> HIDE DEF x, y
<1>6. CASE run' = [run EXCEPT ![r] = y] /\ UNCHANGED <<pc, raced>>
  <2>1. /\ run' \in [Runs -> Checks \union {NoCheck}] /\ run'[r] = y
        /\ \A s \in Runs : s # r => run'[s] = run[s]
    BY <1>4, <1>6, OneRuns
  <2> QED
    BY <1>1, <1>4, <1>6, <2>1 DEF Typed
<1>7. CASE /\ run' = [run EXCEPT ![r] = x] /\ Goto(r, "record")
           /\ CooldownElapsed(r, k) /\ NoteRival(r, k)
  <2>1. /\ run' \in [Runs -> Checks \union {NoCheck}] /\ run'[r] = x
        /\ \A s \in Runs : s # r => run'[s] = run[s]
    BY <1>3, <1>7, OneRuns
  <2>2. /\ pc' \in [Runs -> Stages] /\ pc'[r] = "record"
        /\ \A s \in Runs : s # r => pc'[s] = pc[s]
    BY <1>7, OneMoves DEF Stages
  <2>3. /\ raced \subseteq raced' /\ raced' \subseteq Keys
        /\ Rival(r, k) => k \in raced'
    BY <1>7 DEF NoteRival, Typed
  <2> QED
    BY <1>1, <1>3, <1>7, <2>1, <2>2, <2>3
<1> QED
  BY <1>5, <1>6, <1>7

LEMMA RecordEffect ==
  ASSUME Typed, NEW r \in Runs, Record(r)
  PROVE  /\ run' \in [Runs -> Checks \union {NoCheck}] /\ run[r] \in Checks
         /\ \A s \in Runs : s # r => run'[s] = run[s] /\ pc'[s] = pc[s]
         /\ run'[r] \in Checks /\ run'[r].started = run[r].started
         /\ run'[r].events = run[r].events \union {run[r].key}
         /\ pc' \in [Runs -> Stages] /\ pc[r] = "record" /\ pc'[r] = "check"
         /\ last' \in [Keys -> Time \union {Never}]
         /\ last'[run[r].key] = run[r].started /\ run[r].started \in Time
         /\ \A k \in Keys : k # run[r].key => last'[k] = last[k]
         /\ run[r].key \in Keys
         /\ Alert(r) \in Alerts /\ alerted' = Append(alerted, Alert(r))
         /\ UNCHANGED <<now, config, scheduled, heard, lost, raced>>
<1> DEFINE I == run[r].todo \ {run[r].key}
           J == run[r].events \union {run[r].key}
           x == [run[r] EXCEPT !.todo = I, !.events = J]
<1>1. /\ run[r] \in Checks /\ pc[r] = "record"
      /\ UNCHANGED <<now, config, scheduled, heard, lost, raced>>
      /\ alerted' = Append(alerted, Alert(r))
  BY DEF Typed, StageOK, Record
<1>2. /\ run[r].key \in Keys /\ run[r].started \in Time
      /\ run[r].cooldown \in Cooldowns
      /\ run[r].todo \subseteq Keys /\ run[r].events \subseteq Keys
  BY <1>1 DEF Checks
<1>3. x \in Checks /\ x.started = run[r].started /\ x.events = J
  <2>1. I \in SUBSET Keys /\ J \in SUBSET Keys
    BY <1>2
  <2> HIDE DEF I, J
  <2> QED
    BY <1>1, <2>1 DEF Checks
<1>4. run' = [run EXCEPT ![r] = x] /\ Goto(r, "check")
  BY DEF Record
<1>5. /\ last' \in [Keys -> Time \union {Never}]
      /\ last'[run[r].key] = run[r].started
      /\ \A k \in Keys : k # run[r].key => last'[k] = last[k]
  BY <1>2 DEF Record, Typed
<1>6. Alert(r) \in Alerts
  BY <1>2 DEF Alert, Alerts
<1> HIDE DEF x
<1>7. /\ run' \in [Runs -> Checks \union {NoCheck}] /\ run'[r] = x
      /\ \A s \in Runs : s # r => run'[s] = run[s]
  BY <1>3, <1>4, OneRuns
<1>8. /\ pc' \in [Runs -> Stages] /\ pc'[r] = "check"
      /\ \A s \in Runs : s # r => pc'[s] = pc[s]
  BY <1>4, OneMoves DEF Stages
<1> QED
  BY <1>1, <1>2, <1>3, <1>5, <1>6, <1>7, <1>8

LEMMA SpeakEffect ==
  ASSUME Typed, NEW r \in Runs, Speak(r)
  PROVE  /\ run' \in [Runs -> Checks \union {NoCheck}] /\ run[r] \in Checks
         /\ \A s \in Runs : s # r => run'[s] = run[s]
         /\ run'[r] \in Checks /\ run'[r].started = run[r].started
         /\ pc[r] = "speak"
         /\ \E k \in run[r].events :
              /\ heard' = heard \union {<<k, run[r].started>>}
              /\ run'[r].events = run[r].events \ {k}
         /\ heard' \subseteq Keys \X Time
         /\ UNCHANGED <<now, config, scheduled, last, pc, alerted, lost, raced>>
<1>1. /\ run[r] \in Checks /\ pc[r] = "speak"
      /\ UNCHANGED <<now, config, scheduled, last, pc, alerted, lost, raced>>
  BY DEF Typed, StageOK, Speak
<1>2. PICK k \in run[r].events :
        /\ heard' = heard \union {<<k, run[r].started>>}
        /\ run' = [run EXCEPT ![r].events = @ \ {k}]
  BY DEF Speak
<1> DEFINE I == run[r].events \ {k}
           x == [run[r] EXCEPT !.events = I]
<1>3. k \in Keys /\ run[r].started \in Time /\ I \in SUBSET Keys
  BY <1>1 DEF Checks
<1>4. x \in Checks /\ x.started = run[r].started /\ x.events = I
  BY <1>1, <1>3, CheckUpdated
<1>5. run' = [run EXCEPT ![r] = x]
  BY <1>2
<1> HIDE DEF x
<1>6. /\ run' \in [Runs -> Checks \union {NoCheck}] /\ run'[r] = x
      /\ \A s \in Runs : s # r => run'[s] = run[s]
  BY <1>4, <1>5, OneRuns
<1>7. heard' \subseteq Keys \X Time
  BY <1>2, <1>3 DEF Typed
<1>8. run'[r] \in Checks /\ run'[r].events = run[r].events \ {k}
  BY <1>4, <1>6
<1>9. run'[r].started = run[r].started
  BY <1>4, <1>6
<1> QED
  BY <1>1, <1>2, <1>6, <1>7, <1>8, <1>9

\* A check begins, ends or fails: an idle thread holds nothing, and what a
\* failure keeps from being spoken is lost.
LEMMA BoundaryEffect ==
  ASSUME Typed, NEW r \in Runs,
         \/ StartCheck(r) \/ EndCheck(r) \/ Return(r)
         \/ FailCheck(r) \/ FailSpeech(r)
  PROVE  /\ run' \in [Runs -> Checks \union {NoCheck}]
         /\ \A s \in Runs : s # r => run'[s] = run[s] /\ pc'[s] = pc[s]
         /\ pc' \in [Runs -> Stages] /\ pc'[r] # "record"
         /\ pc'[r] = "idle" => run'[r] = NoCheck
         /\ pc'[r] # "idle" => run'[r] \in Checks
         /\ \/ UNCHANGED run
            \/ \A k \in run[r].events : <<k, run[r].started>> \in lost'
         /\ lost \subseteq lost' /\ lost' \subseteq Keys \X Time
         /\ UNCHANGED <<now, config, scheduled, last, alerted, heard, raced>>
<1>1. CASE StartCheck(r)
  <2>1. PICK todo \in SUBSET Keys \ {{}} : \E k \in todo :
          run' = [run EXCEPT ![r] =
                    [threshold |-> config.threshold,
                     cooldown |-> config.cooldown, started |-> now,
                     todo |-> todo, key |-> k, events |-> {}]]
    BY <1>1 DEF StartCheck
  <2>2. PICK k \in todo :
          run' = [run EXCEPT ![r] =
                    [threshold |-> config.threshold,
                     cooldown |-> config.cooldown, started |-> now,
                     todo |-> todo, key |-> k, events |-> {}]]
    BY <2>1
  <2> DEFINE x == [threshold |-> config.threshold,
                   cooldown |-> config.cooldown, started |-> now,
                   todo |-> todo, key |-> k, events |-> {}]
  <2>3. x \in Checks
    BY DEF Typed, Configs, Checks
  <2> HIDE DEF x
  <2>4. /\ run' \in [Runs -> Checks \union {NoCheck}] /\ run'[r] = x
        /\ \A s \in Runs : s # r => run'[s] = run[s]
    BY <2>2, <2>3, OneRuns DEF x
  <2>5. /\ pc' \in [Runs -> Stages] /\ pc'[r] = "check"
        /\ \A s \in Runs : s # r => pc'[s] = pc[s]
    BY <1>1, OneMoves DEF StartCheck, Stages
  <2>6. run[r].events = {}
    BY <1>1 DEF StartCheck, Typed, StageOK, NoCheck
  <2>7. UNCHANGED <<now, config, scheduled, last, alerted, heard, lost, raced>>
    BY <1>1 DEF StartCheck
  <2>8. lost \subseteq Keys \X Time
    BY DEF Typed
  <2> QED
    BY <2>3, <2>4, <2>5, <2>6, <2>7, <2>8
<1>2. CASE EndCheck(r)
  <2>1. /\ pc' \in [Runs -> Stages] /\ pc'[r] = "speak"
        /\ \A s \in Runs : s # r => pc'[s] = pc[s]
    BY <1>2, OneMoves DEF EndCheck, Stages
  <2> QED
    BY <1>2, <2>1 DEF EndCheck, Typed, StageOK
<1>3. CASE Return(r)
  <2>1. /\ run' \in [Runs -> Checks \union {NoCheck}] /\ run'[r] = NoCheck
        /\ \A s \in Runs : s # r => run'[s] = run[s]
    BY <1>3, OneRuns DEF Return
  <2>2. /\ pc' \in [Runs -> Stages] /\ pc'[r] = "idle"
        /\ \A s \in Runs : s # r => pc'[s] = pc[s]
    BY <1>3, OneMoves DEF Return, Stages
  <2> QED
    BY <1>3, <2>1, <2>2 DEF Return, Typed
<1>4. CASE FailCheck(r) \/ FailSpeech(r)
  <2>1. Abandon(r) /\ pc[r] # "idle"
    BY <1>4 DEF FailCheck, FailSpeech
  <2>2. /\ run' \in [Runs -> Checks \union {NoCheck}] /\ run'[r] = NoCheck
        /\ \A s \in Runs : s # r => run'[s] = run[s]
    BY <2>1, OneRuns DEF Abandon
  <2>3. /\ pc' \in [Runs -> Stages] /\ pc'[r] = "idle"
        /\ \A s \in Runs : s # r => pc'[s] = pc[s]
    BY <2>1, OneMoves DEF Abandon, Stages
  <2>4. run[r].events \subseteq Keys /\ run[r].started \in Time
    BY <2>1 DEF Typed, StageOK, Checks
  <2>5. lost' = lost \union (run[r].events \X {run[r].started})
    BY <2>1 DEF Abandon
  <2>6. /\ lost \subseteq lost' /\ lost' \subseteq Keys \X Time
        /\ \A k \in run[r].events : <<k, run[r].started>> \in lost'
    BY <2>4, <2>5 DEF Typed
  <2> QED
    BY <2>1, <2>2, <2>3, <2>6 DEF Abandon
<1> QED
  BY <1>1, <1>2, <1>3, <1>4

-----------------------------------------------------------------------------
(* Type correctness.                                                       *)

LEMMA TypedInit == Init => Typed
<1> SUFFICES ASSUME Init PROVE Typed
  OBVIOUS
<1>1. /\ last \in [Keys -> Time \union {Never}]
      /\ pc \in [Runs -> Stages]
      /\ run \in [Runs -> Checks \union {NoCheck}]
  BY DEF Init, NoAlerts, AllIdle, NoChecks, Stages
<1>2. /\ now \in Time /\ config \in Configs /\ scheduled \in BOOLEAN
      /\ heard \subseteq Keys \X Time /\ lost \subseteq Keys \X Time
      /\ raced \subseteq Keys
  BY DEF Init, Configs, Time
<1>3. alerted \in Seq(Alerts)
  BY DEF Init
<1>4. StageOK
  BY DEF Init, StageOK, AllIdle, NoChecks
<1> QED
  BY <1>1, <1>2, <1>3, <1>4 DEF Typed

\* Every step preserves it.
LEMMA TypedNext == Typed /\ [Next]_vars => Typed'
<1> SUFFICES ASSUME Typed, [Next]_vars PROVE Typed'
  OBVIOUS
<1>1. CASE Tick
  <2>1. now' \in Time
    BY <1>1 DEF Tick, Typed, Time
  <2> QED
    BY <1>1, <2>1 DEF Tick, Typed, StageOK
<1>2. CASE SaveConfig \/ Reschedule
  BY <1>2 DEF SaveConfig, Reschedule, Typed, StageOK, Configs
<1>3. CASE Restart
  BY <1>3 DEF Restart, Typed, StageOK, NoAlerts, AllIdle, NoChecks, Stages,
     Configs
<1>4. ASSUME NEW r \in Runs, NEW k \in Keys, NoEvent(r, k) \/ Judge(r, k)
      PROVE  Typed'
  <2>1. StageOK'
    BY <1>4, JudgeEffect DEF Typed, StageOK
  <2> QED
    BY <1>4, <2>1, JudgeEffect DEF Typed
<1>5. ASSUME NEW r \in Runs, Record(r) PROVE Typed'
  <2>1. StageOK'
    BY <1>5, RecordEffect DEF Typed, StageOK
  <2>2. alerted' \in Seq(Alerts)
    <3>1. /\ alerted \in Seq(Alerts) /\ Alert(r) \in Alerts
          /\ alerted' = Append(alerted, Alert(r))
      BY <1>5, RecordEffect DEF Typed
    <3> QED
      BY <3>1
  <2> QED
    BY <1>5, <2>1, <2>2, RecordEffect DEF Typed
<1>6. ASSUME NEW r \in Runs, Speak(r) PROVE Typed'
  <2>1. StageOK'
    BY <1>6, SpeakEffect DEF Typed, StageOK
  <2> QED
    BY <1>6, <2>1, SpeakEffect DEF Typed
<1>7. ASSUME NEW r \in Runs,
             \/ StartCheck(r) \/ EndCheck(r) \/ Return(r)
             \/ FailCheck(r) \/ FailSpeech(r)
      PROVE  Typed'
  <2>1. StageOK'
    BY <1>7, BoundaryEffect DEF Typed, StageOK
  <2> QED
    BY <1>7, <2>1, BoundaryEffect DEF Typed
<1>8. CASE UNCHANGED vars
  BY <1>8 DEF vars, Typed, StageOK
<1> QED
  BY <1>1, <1>2, <1>3, <1>4, <1>5, <1>6, <1>7, <1>8 DEF Next, Check, Continue

LEMMA TypedHolds == Spec => []Typed
  BY TypedInit, TypedNext, PTL DEF Spec

(***************************************************************************)
(* Every reachable state is well typed; in particular a thread has locals  *)
(* exactly while it runs a check.                                          *)
(***************************************************************************)
THEOREM TypeCorrect == Spec => []TypeOK
<1>1. Typed => TypeOK
  BY NoCheckIdle DEF Typed, StageOK, Stages, TypeOK
<1> QED
  BY <1>1, TypedHolds, PTL

-----------------------------------------------------------------------------
(* No cooldown without an alert somebody hears.                            *)

\* Every step keeps it: the message of the alert that put a key on cooldown
\* stays with its check until it is spoken or that check fails.
LEMMA HeardNext ==
  ASSUME Typed, SilenceContained, [Next]_vars
  PROVE  SilenceContained'
<1>1. CASE Tick \/ SaveConfig \/ Reschedule \/ UNCHANGED vars
  BY <1>1 DEF Tick, SaveConfig, Reschedule, vars, SilenceContained,
     Heard
<1>2. CASE Restart
  BY <1>2 DEF Restart, NoAlerts, SilenceContained
<1>3. ASSUME NEW r \in Runs, NEW k \in Keys, NoEvent(r, k) \/ Judge(r, k)
      PROVE  SilenceContained'
  <2>1. \A s \in Runs : /\ run'[s].events = run[s].events
                        /\ run'[s].started = run[s].started
    BY <1>3, JudgeEffect
  <2> QED
    BY <1>3, <2>1, JudgeEffect DEF SilenceContained, Heard
<1>4. ASSUME NEW r \in Runs, Record(r) PROVE SilenceContained'
  <2>1. \A s \in Runs : /\ run[s].events \subseteq run'[s].events
                        /\ run'[s].started = run[s].started
    BY <1>4, RecordEffect
  <2>2. ASSUME NEW k \in Keys, last'[k] # Never
        PROVE  \/ <<k, last'[k]>> \in heard' \union lost'
               \/ \E s \in Runs : /\ k \in run'[s].events
                                  /\ run'[s].started = last'[k]
    <3>1. CASE k = run[r].key
      BY <1>4, <3>1, RecordEffect
    <3>2. CASE k # run[r].key
      BY <1>4, <2>1, <2>2, <3>2, RecordEffect DEF SilenceContained, Heard
    <3> QED
      BY <3>1, <3>2
  <2> QED
    BY <2>2 DEF SilenceContained, Heard
<1>5. ASSUME NEW r \in Runs, Speak(r) PROVE SilenceContained'
  <2>1. PICK spoken \in run[r].events :
          /\ heard' = heard \union {<<spoken, run[r].started>>}
          /\ run'[r].events = run[r].events \ {spoken}
    BY <1>5, SpeakEffect
  <2>2. /\ \A s \in Runs : /\ s # r => run'[s] = run[s]
                           /\ run'[s].started = run[s].started
        /\ UNCHANGED <<last, lost>>
    BY <1>5, SpeakEffect
  <2>3. ASSUME NEW k \in Keys, last'[k] # Never
        PROVE  \/ <<k, last'[k]>> \in heard' \union lost'
               \/ \E s \in Runs : /\ k \in run'[s].events
                                  /\ run'[s].started = last'[k]
    <3>1. CASE <<k, last[k]>> \in heard \union lost
      BY <2>1, <2>2, <3>1
    <3>2. ASSUME NEW s \in Runs, k \in run[s].events, run[s].started = last[k]
          PROVE  \/ <<k, last'[k]>> \in heard'
                 \/ /\ k \in run'[s].events
                    /\ run'[s].started = last'[k]
      BY <2>1, <2>2, <3>2
    <3> QED
      BY <2>2, <2>3, <3>1, <3>2 DEF SilenceContained, Heard
  <2> QED
    BY <2>3 DEF SilenceContained, Heard
<1>6. ASSUME NEW r \in Runs,
             \/ StartCheck(r) \/ EndCheck(r) \/ Return(r)
             \/ FailCheck(r) \/ FailSpeech(r)
      PROVE  SilenceContained'
  <2>1. /\ \A s \in Runs : \/ run'[s] = run[s]
                           \/ \A k \in run[s].events :
                                <<k, run[s].started>> \in lost'
        /\ lost \subseteq lost' /\ UNCHANGED <<last, heard>>
    BY <1>6, BoundaryEffect
  <2>2. ASSUME NEW k \in Keys, last'[k] # Never
        PROVE  \/ <<k, last'[k]>> \in heard' \union lost'
               \/ \E s \in Runs : /\ k \in run'[s].events
                                  /\ run'[s].started = last'[k]
    <3>1. CASE <<k, last[k]>> \in heard \union lost
      BY <2>1, <3>1
    <3>2. ASSUME NEW s \in Runs, k \in run[s].events, run[s].started = last[k]
          PROVE  \/ <<k, last'[k]>> \in lost'
                 \/ /\ k \in run'[s].events
                    /\ run'[s].started = last'[k]
      BY <2>1, <3>2
    <3> QED
      BY <2>1, <2>2, <3>1, <3>2 DEF SilenceContained, Heard
  <2> QED
    BY <2>2 DEF SilenceContained, Heard
<1> QED
  BY <1>1, <1>2, <1>3, <1>4, <1>5, <1>6 DEF Next, Check, Continue

(***************************************************************************)
(* However many checks overlap, fail or are reconfigured under way: a key  *)
(* is on cooldown only for an alert that was spoken, is about to be, or    *)
(* was lost with the check that decided it.                                *)
(***************************************************************************)
THEOREM CooldownHeard == Spec => []SilenceContained
<1>1. Init => SilenceContained
  BY DEF Init, NoAlerts, SilenceContained
<1>2. Typed /\ SilenceContained /\ [Next]_vars => SilenceContained'
  BY HeardNext
<1> QED
  BY <1>1, <1>2, TypedHolds, PTL DEF Spec

-----------------------------------------------------------------------------
(* The cooldown.                                                           *)

Calm == Keys \ raced

\* Of a key that was never raced, the last alert is the one remembered, and a
\* decision to alert is the only one under way and still right.
Remembered ==
  /\ \A i \in DOMAIN alerted : alerted[i].key \in Calm =>
       /\ last[alerted[i].key] # Never
       /\ alerted[i].at <= last[alerted[i].key]
  /\ \A r \in Runs : pc[r] = "record" /\ run[r].key \in Calm =>
       /\ CooldownElapsed(r, run[r].key)
       /\ ~Rival(r, run[r].key)

CInv == Remembered /\ CooldownRaceContained

LEMMA CooldownNext == Typed /\ CInv /\ [Next]_vars => CInv'
<1> SUFFICES ASSUME Typed, CInv, [Next]_vars PROVE CInv'
  OBVIOUS
<1> USE DEF CInv
<1>1. CASE Tick \/ SaveConfig \/ Reschedule \/ UNCHANGED vars
  BY <1>1 DEF Tick, SaveConfig, Reschedule, vars, Remembered, Calm, Rival,
     CooldownRaceContained, CooldownKeptIn, CooldownElapsed
<1>2. CASE Restart
  BY <1>2 DEF Restart, AllIdle, Remembered, CooldownRaceContained,
     CooldownKeptIn
<1>3. ASSUME NEW r \in Runs, NEW k \in Keys, NoEvent(r, k) \/ Judge(r, k)
      PROVE  CInv'
  <2>1. CooldownRaceContained'
    BY <1>3, JudgeEffect DEF CooldownRaceContained, CooldownKeptIn
  <2>2. \A i \in DOMAIN alerted' : alerted'[i].key \in Calm' =>
          /\ last'[alerted'[i].key] # Never
          /\ alerted'[i].at <= last'[alerted'[i].key]
    BY <1>3, JudgeEffect DEF Remembered, Calm
  <2>3. ASSUME NEW s \in Runs, pc'[s] = "record", run'[s].key \in Calm'
        PROVE  CooldownElapsed(s, run[s].key)' /\ ~Rival(s, run[s].key)'
    <3>1. CASE s = r
      <4>1. /\ run'[r].key = k /\ CooldownElapsed(r, k) /\ UNCHANGED last
            /\ run'[r].cooldown = run[r].cooldown
            /\ run'[r].started = run[r].started
            /\ Rival(r, k) => k \in raced'
        BY <1>3, <2>3, <3>1, JudgeEffect
      <4>2. ~Rival(r, k)
        BY <2>3, <3>1, <4>1 DEF Calm
      <4>3. ~\E q \in Runs \ {r} : pc'[q] = "record" /\ run'[q].key = k
        BY <1>3, <4>2, JudgeEffect DEF Rival
      <4> QED
        BY <3>1, <4>1, <4>3 DEF CooldownElapsed, Rival
    <3>2. CASE s # r
      <4>1. /\ run'[s] = run[s] /\ pc'[s] = pc[s] /\ UNCHANGED last
            /\ raced \subseteq raced'
        BY <1>3, <3>2, JudgeEffect
      <4>2. CooldownElapsed(s, run[s].key) /\ ~Rival(s, run[s].key)
        BY <2>3, <4>1 DEF Remembered, Calm
      <4>3. ~(pc'[r] = "record" /\ run'[r].key = run[s].key)
        <5>1. SUFFICES ASSUME pc'[r] = "record", run'[r].key = run[s].key
                       PROVE  FALSE
          OBVIOUS
        <5>2. run[s].key = k /\ (Rival(r, k) => k \in raced')
          BY <1>3, <5>1, JudgeEffect
        <5>3. Rival(r, k)
          BY <2>3, <3>2, <4>1, <5>2 DEF Rival
        <5> QED
          BY <2>3, <4>1, <5>2, <5>3 DEF Calm
      <4>4. \A q \in Runs : q # r => run'[q] = run[q] /\ pc'[q] = pc[q]
        BY <1>3, JudgeEffect
      <4>5. ~Rival(s, run[s].key)'
        BY <4>1, <4>2, <4>3, <4>4 DEF Rival
      <4> QED
        BY <4>1, <4>2, <4>5 DEF CooldownElapsed
    <3> QED
      BY <3>1, <3>2
  <2> QED
    BY <2>1, <2>2, <2>3 DEF Remembered
<1>4. ASSUME NEW r \in Runs, Record(r) PROVE CInv'
  <2> DEFINE n == Len(alerted) + 1
             key == run[r].key
  <2>1. /\ key \in Keys /\ run[r].started \in Nat
        /\ run[r].cooldown \in Nat \ {0} /\ last'[key] = run[r].started
        /\ \A k \in Keys : k # key => last'[k] = last[k]
        /\ last[key] \in Nat \union {Never}
    <3>1. /\ run[r] \in Checks /\ key \in Keys /\ last'[key] = run[r].started
          /\ \A k \in Keys : k # key => last'[k] = last[k]
      BY <1>4, RecordEffect
    <3>2. run[r].started \in Time /\ run[r].cooldown \in Cooldowns
      BY <3>1 DEF Checks
    <3>3. last[key] \in Time \union {Never}
      BY <3>1 DEF Typed
    <3>4. Time \subseteq Nat /\ Cooldowns \subseteq Nat \ {0}
      BY DEF Time
    <3> HIDE DEF key
    <3> QED
      BY <3>1, <3>2, <3>3, <3>4
  <2>2. /\ alerted \in Seq(Alerts) /\ alerted' = Append(alerted, Alert(r))
        /\ UNCHANGED raced
    BY <1>4, RecordEffect DEF Typed
  <2>3. /\ Len(alerted) \in Nat /\ DOMAIN alerted = 1 .. Len(alerted)
        /\ DOMAIN alerted' = 1 .. n /\ alerted'[n] = Alert(r)
        /\ \A i \in DOMAIN alerted :
             alerted'[i] = alerted[i] /\ alerted[i] \in Alerts
    BY <1>4, <2>2, RecordEffect
  <2>4. key \in Calm => CooldownElapsed(r, key) /\ ~Rival(r, key)
    BY <1>4, RecordEffect DEF Remembered
  <2>5. \A i \in DOMAIN alerted : alerted[i].key \in Calm =>
          /\ alerted[i].key \in Keys /\ alerted[i].at \in Nat
          /\ last[alerted[i].key] \in Nat
          /\ alerted[i].at <= last[alerted[i].key]
    BY <2>3 DEF Remembered, Alerts, Typed, Time
  <2>6. \A i \in DOMAIN alerted : alerted[i].key = key /\ key \in Calm =>
          alerted[i].at + run[r].cooldown <= run[r].started
    BY <2>1, <2>4, <2>5 DEF CooldownElapsed
  <2>7. /\ Alert(r).key = key /\ Alert(r).at = run[r].started
        /\ Alert(r).cooldown = run[r].cooldown
    BY DEF Alert
  <2>8. Calm' = Calm
    BY <2>2 DEF Calm
  <2>9. ASSUME NEW i \in DOMAIN alerted', alerted'[i].key \in Calm
        PROVE  /\ last'[alerted'[i].key] # Never
               /\ alerted'[i].at <= last'[alerted'[i].key]
    <3>1. CASE i = n
      BY <2>1, <2>3, <2>7, <3>1
    <3>2. CASE i \in DOMAIN alerted /\ alerted[i].key = key
      <4>1. alerted[i].at <= run[r].started
        BY <2>1, <2>3, <2>5, <2>6, <2>9, <3>2
      <4> QED
        BY <2>1, <2>3, <3>2, <4>1
    <3>3. CASE i \in DOMAIN alerted /\ alerted[i].key # key
      BY <2>1, <2>3, <2>5, <2>9, <3>3
    <3> QED
      BY <2>3, <3>1, <3>2, <3>3
  <2>10. ASSUME NEW s \in Runs, pc'[s] = "record", run'[s].key \in Calm'
         PROVE  CooldownElapsed(s, run[s].key)' /\ ~Rival(s, run[s].key)'
    <3>1. /\ s # r /\ run'[s] = run[s] /\ pc'[s] = pc[s] /\ pc[r] = "record"
          /\ \A q \in Runs : q # r => run'[q] = run[q] /\ pc'[q] = pc[q]
          /\ pc'[r] = "check" /\ run[s].key \in Keys
      BY <1>4, <2>8, <2>10, RecordEffect DEF Calm
    <3>2. CooldownElapsed(s, run[s].key) /\ ~Rival(s, run[s].key)
      BY <2>8, <2>10, <3>1 DEF Remembered
    <3>3. run[s].key # key
      BY <3>1, <3>2 DEF Rival
    <3>4. last'[run[s].key] = last[run[s].key]
      BY <2>1, <3>1, <3>3
    <3>5. ~Rival(s, run[s].key)'
      BY <3>1, <3>2 DEF Rival
    <3> QED
      BY <3>1, <3>2, <3>4, <3>5 DEF CooldownElapsed
  <2>11. ASSUME NEW i \in DOMAIN alerted', NEW j \in DOMAIN alerted', i < j,
                alerted'[i].key = alerted'[j].key, alerted'[i].key \in Calm
         PROVE  alerted'[i].at + alerted'[j].cooldown <= alerted'[j].at
    <3>1. i \in DOMAIN alerted
      BY <2>3, <2>11
    <3>2. CASE j = n
      BY <2>3, <2>6, <2>7, <2>11, <3>1, <3>2
    <3>3. CASE j \in DOMAIN alerted
      BY <2>3, <2>11, <3>1, <3>3
      DEF CooldownRaceContained, CooldownKeptIn, Calm
    <3> QED
      BY <2>3, <3>2, <3>3
  <2>12. CooldownRaceContained'
    BY <2>8, <2>11 DEF CooldownRaceContained, CooldownKeptIn, Calm
  <2> QED
    BY <2>8, <2>9, <2>10, <2>12 DEF Remembered
<1>5. ASSUME NEW r \in Runs, Speak(r) PROVE CInv'
  <2>1. /\ UNCHANGED <<last, pc, alerted, lost, raced>>
        /\ \A s \in Runs : s # r => run'[s] = run[s]
        /\ pc[r] = "speak"
    BY <1>5, SpeakEffect
  <2> QED
    BY <2>1 DEF Remembered, Calm, Rival, CooldownElapsed,
       CooldownRaceContained, CooldownKeptIn
<1>6. ASSUME NEW r \in Runs,
             \/ StartCheck(r) \/ EndCheck(r) \/ Return(r)
             \/ FailCheck(r) \/ FailSpeech(r)
      PROVE  CInv'
  <2>1. /\ UNCHANGED <<last, alerted, raced>> /\ pc'[r] # "record"
        /\ \A s \in Runs : s # r => run'[s] = run[s] /\ pc'[s] = pc[s]
    BY <1>6, BoundaryEffect
  <2> QED
    BY <2>1 DEF Remembered, Calm, Rival, CooldownElapsed,
       CooldownRaceContained, CooldownKeptIn
<1> QED
  BY <1>1, <1>2, <1>3, <1>4, <1>5, <1>6 DEF Next, Check, Continue

LEMMA CInvHolds == Spec => []CInv
<1>1. Init => CInv
  BY DEF Init, AllIdle, CInv, Remembered, CooldownRaceContained, CooldownKeptIn
<1> QED
  BY <1>1, CooldownNext, TypedHolds, PTL DEF Spec

(***************************************************************************)
(* However many checks overlap, and whatever is reconfigured in the middle *)
(* of them: a key that no two checks decided on at once never alerts twice *)
(* within the cooldown in force.                                           *)
(***************************************************************************)
THEOREM CooldownContained == Spec => []CooldownRaceContained
  BY CInvHolds, PTL DEF CInv

Unraced == raced = {}

OneAtATime == \A r, s \in Runs : r = s

LEMMA UnracedNext ==
  ASSUME OneAtATime, Unraced, [Next]_vars
  PROVE  Unraced'
<1>1. ASSUME NEW r \in Runs, NEW k \in Keys PROVE ~Rival(r, k)
  BY DEF OneAtATime, Rival
<1>2. ASSUME NEW r \in Runs, Check(r) PROVE raced' = {}
  <2>1. ASSUME NEW k \in Keys, Judge(r, k) PROVE raced' = {}
    BY <1>1, <2>1 DEF Judge, NoteRival, Unraced
  <2> QED
    BY <1>2, <2>1 DEF Check, StartCheck, Continue, NoEvent, Record,
       EndCheck, Speak, Return, FailCheck, FailSpeech, Abandon, Unraced
<1> QED
  BY <1>2 DEF Next, vars, Tick, SaveConfig, Reschedule, Restart, Unraced

(***************************************************************************)
(* Without overlapping checks the documented cooldown holds as it stands.  *)
(***************************************************************************)
THEOREM AloneCooldownKept ==
  ASSUME OneAtATime
  PROVE  Spec => []CooldownKept
<1>1. Init => Unraced
  BY DEF Init, Unraced
<1>2. Unraced /\ [Next]_vars => Unraced'
  BY OneAtATime, UnracedNext
<1>3. Unraced /\ CInv => CooldownKept
  BY DEF Unraced, CInv, CooldownRaceContained, CooldownKept
<1> QED
  BY <1>1, <1>2, <1>3, CInvHolds, PTL DEF Spec
=============================================================================
