------------------------ MODULE ProfileActivationProofs ------------------------
(***************************************************************************)
(* For any number of handlers, profiles, requests, adapters, outages and   *)
(* restarts, and whether or not notifications get lost: no session is left *)
(* open until two handlers have been in the factory at once, and no alert  *)
(* scheduler runs over the unconfigured adapter until two have reloaded at *)
(* once.  What a calm skill with a single handler keeps besides.           *)
(***************************************************************************)
EXTENDS ProfileActivation, TLAPS

\* The skill runs its handlers one at a time.
OneThread == \A t, u \in Threads : t = u

Stages == {"idle", "stop", "install", "label", "start", "fallback", "act", "set_active"}
          \union RunningStages

AdapterStates == [of : Names, rest : BOOLEAN, open : BOOLEAN]

ThreadStates ==
  [pc : Stages, job : {"none", "boot", "event", "utterance"}, prof : Names,
   runner : Adapters \union {NoAdapter}, mine : Adapters \union {NoAdapter}, rest : BOOLEAN]

Typed ==
  /\ active \in Names
  /\ adapter \in [Adapters -> AdapterStates]
  /\ current \in Adapters \union {NoAdapter}
  /\ dispatcher \in Adapters \union {NoAdapter}
  /\ loaded \in Names /\ loadedRest \in BOOLEAN
  /\ scheduler \in BOOLEAN /\ up \in BOOLEAN
  /\ thread \in [Threads -> ThreadStates]

WebTyped ==
  web \in [Requests -> [pc : {"idle", "set", "reload", "rollback", "notify"},
                        target : Names, old : Names]]

Reloading(t) == thread[t].pc \notin {"idle", "act"}

\* The adapters a reload goes on with exist.
Handled ==
  \A t \in Threads :
    /\ thread[t].pc \in {"probe", "install", "label", "start"} => thread[t].mine \in Adapters
    /\ thread[t].pc \in {"label", "start"} => dispatcher \in Adapters

UpInv ==
  /\ up => dispatcher \in Adapters
  /\ \A t \in Threads :
       /\ thread[t].job = "utterance" => up
       /\ thread[t].pc = "act" => thread[t].job = "utterance"
       /\ thread[t].job = "none" <=> thread[t].pc = "idle"

\* It takes two threads to overlap.
TwoOverlap == overlaps # {} => \E t, u \in Threads : t # u

OnlyCurrentOpen == \A a \in Adapters : adapter[a].open => a = current

\* One reload of the factory at a time: it works on the current adapter.
FactoryAlone ==
  /\ \A t, u \in Threads :
       thread[t].pc \in RunningStages /\ thread[u].pc \in RunningStages => t = u
  /\ \A t \in Threads :
       /\ thread[t].pc \in {"create", "configure"} => current = NoAdapter
       /\ thread[t].pc = "probe" => thread[t].mine = current
  /\ OnlyCurrentOpen

SchedulerOverPlatform ==
  scheduler =>
    /\ dispatcher \in Adapters /\ adapter[dispatcher].rest
    /\ \A t \in Threads : thread[t].pc \in {"idle", "stop", "act"}

\* One reload at a time: what it has in hand is what everybody sees.
InHand ==
  \A t \in Threads :
    /\ thread[t].pc = "install" => thread[t].mine = current
    /\ thread[t].pc \in {"label", "start"} => thread[t].mine = dispatcher

ReloadAlone ==
  /\ "factory" \notin overlaps
  /\ \A t, u \in Threads : Reloading(t) /\ Reloading(u) => t = u
  /\ InHand
  /\ SchedulerOverPlatform

FactoryInv == "factory" \notin overlaps => FactoryAlone
ReloadInv == "reload" \notin overlaps => ReloadAlone

IInv == Typed /\ WebTyped /\ Handled /\ UpInv /\ TwoOverlap /\ FactoryInv /\ ReloadInv

\* A single handler never overlaps another.
LEMMA Single ==
  ASSUME OneThread, IInv
  PROVE  FactoryAlone /\ ReloadAlone
BY DEF OneThread, IInv, TwoOverlap, FactoryInv, ReloadInv

LEMMA InitHolds == Init => IInv
<1> SUFFICES ASSUME Init PROVE IInv
  OBVIOUS
<1>1. Boot \in ThreadStates /\ IdleThread \in ThreadStates /\ Boot.pc = "create" /\ Boot.job = "boot"
      /\ IdleThread.pc = "idle" /\ IdleThread.job = "none"
  BY DEF Boot, IdleThread, ThreadStates, Stages, RunningStages, Names
<1>2. \A t \in Threads : thread[t] \in {Boot, IdleThread}
  BY DEF Init
<1>3. Typed /\ WebTyped
  <2>1. thread \in [Threads -> ThreadStates]
    BY <1>1 DEF Init
  <2> QED
    BY <2>1 DEF Init, Typed, WebTyped, Names, AdapterStates, IdleRequest
<1>4. Handled /\ UpInv /\ TwoOverlap
  BY <1>1, <1>2 DEF Init, Handled, UpInv, TwoOverlap
<1>5. PICK t \in Threads : thread = [u \in Threads |-> IF u = t THEN Boot ELSE IdleThread]
  BY DEF Init
<1>6. FactoryAlone
  BY <1>1, <1>5 DEF Init, FactoryAlone, OnlyCurrentOpen, RunningStages
<1>7. ReloadAlone
  BY <1>1, <1>5 DEF Init, ReloadAlone, InHand, SchedulerOverPlatform, Reloading
<1> QED
  BY <1>3, <1>4, <1>6, <1>7 DEF IInv, FactoryInv, ReloadInv

\* A step of a request touches no part of the skill.
LEMMA WebHolds ==
  ASSUME IInv, NEW r \in Requests, WebStep(r) \/ \E p \in Names : BeginActivate(r, p)
  PROVE  IInv'
<1>1. UNCHANGED skillVars /\ UNCHANGED overlaps
  BY DEF WebStep, SetActive, WebReload, Rollback, Notify, BeginActivate
<1>2. active' \in Names /\ WebTyped'
  BY DEF WebStep, SetActive, WebReload, Rollback, Notify, BeginActivate, WebGoto, WriteActive,
         IdleRequest, IInv, Typed, WebTyped, Names
<1> QED
  BY <1>1, <1>2
  DEF skillVars, IInv, Typed, Handled, UpInv, TwoOverlap, FactoryInv, FactoryAlone, OnlyCurrentOpen,
      ReloadInv, ReloadAlone, Reloading, InHand, SchedulerOverPlatform

\* How a handler's locals change.
LEMMA Moved ==
  ASSUME Typed, NEW t \in Threads, NEW th \in ThreadStates, thread' = [thread EXCEPT ![t] = th]
  PROVE  thread' \in [Threads -> ThreadStates]
BY DEF Typed

LEMMA Located ==
  ASSUME NEW th \in ThreadStates, NEW s \in Stages, NEW a \in Adapters \union {NoAdapter}
  PROVE  /\ [th EXCEPT !.pc = s] \in ThreadStates
         /\ [th EXCEPT !.pc = s, !.runner = a] \in ThreadStates
         /\ [th EXCEPT !.runner = a, !.pc = s] \in ThreadStates
         /\ [th EXCEPT !.pc = s, !.mine = a] \in ThreadStates
         /\ [th EXCEPT !.mine = a, !.pc = s] \in ThreadStates
         /\ \A b \in BOOLEAN : [th EXCEPT !.rest = b, !.pc = s] \in ThreadStates
BY DEF ThreadStates

LEMMA Staged ==
  ASSUME Typed, NEW t \in Threads, NEW s \in Stages, Goto(t, s)
  PROVE  thread' \in [Threads -> ThreadStates]
BY Moved, Located, ActivationAssumption DEF Typed, Goto

LEMMA Finished ==
  ASSUME Typed, NEW t \in Threads, Finish(t)
  PROVE  thread' \in [Threads -> ThreadStates]
<1>1. IdleThread \in ThreadStates
  BY DEF IdleThread, ThreadStates, Stages, Names
<1> QED BY <1>1, Moved DEF Finish

LEMMA Opened ==
  ASSUME Typed, NEW a \in Adapters, NEW b \in BOOLEAN, adapter' = [adapter EXCEPT ![a].open = b]
  PROVE  adapter' \in [Adapters -> AdapterStates]
BY DEF Typed, AdapterStates

\* A handler whose probe failed goes on as its job says.
LEMMA ProbeGoes ==
  ASSUME IInv, NEW t \in Threads, ProbeFails(t)
  PROVE  \E s \in {"install", "fallback", "act"} :
           /\ thread' = [thread EXCEPT ![t].runner = NoAdapter, ![t].pc = s]
           /\ s = "act" => thread[t].job = "utterance"
<1>1. thread[t].job \in {"boot", "event", "utterance"}
  BY DEF IInv, Typed, ThreadStates, UpInv, ProbeFails
<1> QED
  BY <1>1 DEF ProbeFails

\* A step of the one handler keeps the types ...
LEMMA HandlerTyped ==
  ASSUME IInv, NEW t \in Threads, HandlerStep(t)
  PROVE  Typed' /\ WebTyped'
<1>0. Typed /\ WebTyped /\ Handled /\ thread[t] \in ThreadStates
  BY DEF IInv, Typed
<1>1. CASE StopScheduler(t)
  <2>1. thread' \in [Threads -> ThreadStates]
    BY <1>1, <1>0, Moved, Located DEF StopScheduler, Typed, Stages
  <2> QED
    BY <1>1, <1>0, <2>1 DEF Typed, WebTyped, StopScheduler
<1>2. CASE RecordActive(t)
  <2>1. thread' \in [Threads -> ThreadStates]
    BY <1>2, <1>0, Staged DEF RecordActive, Stages, RunningStages
  <2> QED
    BY <1>2, <1>0, <2>1 DEF Typed, WebTyped, RecordActive, WriteActive, ThreadStates
<1>3. CASE ShutdownCurrent(t)
  <2>1. thread' \in [Threads -> ThreadStates]
    BY <1>3, <1>0, Staged DEF ShutdownCurrent, Stages, RunningStages
  <2> QED
    BY <1>3, <1>0, <2>1 DEF Typed, WebTyped, ShutdownCurrent, AdapterStates
<1>4. CASE ChooseClass(t)
  <2>1. thread' \in [Threads -> ThreadStates]
    BY <1>4, <1>0, Moved, Located DEF ChooseClass, Typed, Stages, RunningStages
  <2> QED
    BY <1>4, <1>0, <2>1 DEF Typed, WebTyped, ChooseClass
<1>5. CASE Instantiate(t)
  <2>1. thread' \in [Threads -> ThreadStates]
    BY <1>5, <1>0, Moved, Located DEF Instantiate, Typed, Free, Stages, RunningStages
  <2> QED
    BY <1>5, <1>0, <2>1 DEF Typed, WebTyped, Instantiate, Free, AdapterStates, ThreadStates, Names
<1>6. CASE ProbeSucceeds(t)
  <2>1. thread' \in [Threads -> ThreadStates]
    BY <1>6, <1>0, Staged DEF ProbeSucceeds, Stages
  <2> QED
    BY <1>6, <1>0, <2>1 DEF Typed, WebTyped, ProbeSucceeds, AdapterStates, Handled
<1>7. CASE ProbeFails(t)
  <2>1. PICK s \in {"install", "fallback", "act"} :
          thread' = [thread EXCEPT ![t].runner = NoAdapter, ![t].pc = s]
    BY <1>7, ProbeGoes
  <2>2. thread' \in [Threads -> ThreadStates]
    BY <1>0, <2>1, Moved, Located DEF Stages, Typed
  <2> QED
    BY <1>7, <1>0, <2>2 DEF Typed, WebTyped, ProbeFails, AdapterStates, Handled
<1>8. CASE InstallDispatcher(t)
  <2>1. thread' \in [Threads -> ThreadStates]
    BY <1>8, <1>0, Moved, Located DEF InstallDispatcher, Typed, Stages
  <2> QED
    BY <1>8, <1>0, <2>1 DEF Typed, WebTyped, InstallDispatcher, ThreadStates
<1>9. CASE LabelProfile(t)
  <2>1. thread' \in [Threads -> ThreadStates]
    BY <1>9, <1>0, Staged DEF LabelProfile, Stages
  <2> QED
    BY <1>9, <1>0, <2>1 DEF Typed, WebTyped, LabelProfile, Handled, AdapterStates
<1>10. CASE StartScheduler(t)
  <2>1. thread' \in [Threads -> ThreadStates]
    BY <1>10, <1>0, Staged, Finished DEF StartScheduler, Stages
  <2> QED
    BY <1>10, <1>0, <2>1 DEF Typed, WebTyped, StartScheduler, Finish, Handled, AdapterStates
<1>11. CASE Fallback(t)
  <2>1. thread' \in [Threads -> ThreadStates]
    BY <1>11, <1>0, Finished DEF Fallback
  <2> QED
    BY <1>11, <1>0, <2>1 DEF Typed, WebTyped, Fallback, Free, AdapterStates, Names
<1>12. CASE Answer(t)
  <2>1. thread' \in [Threads -> ThreadStates]
    BY <1>12, <1>0, Finished DEF Answer
  <2> QED
    BY <1>12, <1>0, <2>1 DEF Typed, WebTyped, Answer
<1> QED
  BY <1>1, <1>2, <1>3, <1>4, <1>5, <1>6, <1>7, <1>8, <1>9, <1>10, <1>11, <1>12 DEF HandlerStep

\* ... what its locals say of it ...
LEMMA HandlerUp ==
  ASSUME IInv, NEW t \in Threads, HandlerStep(t)
  PROVE  Handled' /\ UpInv' /\ TwoOverlap'
<1>t. Typed'
  BY HandlerTyped
<1> USE <1>t, ActivationAssumption
    DEF IInv, Typed, Handled, UpInv, TwoOverlap, ThreadStates, RunningStages, Goto
<1>1. CASE StopScheduler(t)
  BY <1>1 DEF StopScheduler
<1>2. CASE RecordActive(t)
  BY <1>2 DEF RecordActive, WriteActive
<1>3. CASE ShutdownCurrent(t)
  BY <1>3 DEF ShutdownCurrent
<1>4. CASE ChooseClass(t)
  BY <1>4 DEF ChooseClass
<1>5. CASE Instantiate(t)
  BY <1>5 DEF Instantiate, Free
<1>6. CASE ProbeSucceeds(t)
  BY <1>6 DEF ProbeSucceeds
<1>7. CASE ProbeFails(t)
  <2>1. PICK s \in {"install", "fallback", "act"} :
          /\ thread' = [thread EXCEPT ![t].runner = NoAdapter, ![t].pc = s]
          /\ s = "act" => thread[t].job = "utterance"
    BY <1>7, ProbeGoes
  <2> QED
    BY <1>7, <2>1 DEF ProbeFails
<1>8. CASE InstallDispatcher(t)
  BY <1>8 DEF InstallDispatcher
<1>9. CASE LabelProfile(t)
  BY <1>9 DEF LabelProfile
<1>10. CASE StartScheduler(t)
  BY <1>10 DEF StartScheduler, Finish, IdleThread
<1>11. CASE Fallback(t)
  BY <1>11 DEF Fallback, Free, Finish, IdleThread
<1>12. CASE Answer(t)
  BY <1>12 DEF Answer, Finish, IdleThread
<1> QED
  BY <1>1, <1>2, <1>3, <1>4, <1>5, <1>6, <1>7, <1>8, <1>9, <1>10, <1>11, <1>12 DEF HandlerStep

\* ... that the factory opens no session beside the current adapter's ...
LEMMA HandlerFactory ==
  ASSUME IInv, NEW t \in Threads, HandlerStep(t)
  PROVE  FactoryInv'
<1> SUFFICES ASSUME "factory" \notin overlaps' PROVE FactoryAlone'
  BY DEF FactoryInv
<1>0. Typed' /\ "factory" \notin overlaps /\ FactoryAlone /\ Typed /\ Handled
  <2>1. overlaps \subseteq overlaps'
    BY DEF HandlerStep, StopScheduler, RecordActive, ShutdownCurrent, ChooseClass, Instantiate, ProbeSucceeds,
           ProbeFails, InstallDispatcher, LabelProfile, StartScheduler, Fallback, Answer
  <2> QED
    BY <2>1, HandlerTyped DEF IInv, FactoryInv
<1> USE <1>0, ActivationAssumption
    DEF Typed, Handled, FactoryAlone, OnlyCurrentOpen, AdapterStates, ThreadStates, RunningStages, Goto
<1>1. CASE StopScheduler(t)
  BY <1>1 DEF StopScheduler
<1>2. CASE RecordActive(t)
  <2>1. \A u \in Threads : u # t => thread[u].pc \notin RunningStages
    BY <1>2 DEF RecordActive
  <2> QED
    BY <1>2, <2>1 DEF RecordActive
<1>3. CASE ShutdownCurrent(t)
  BY <1>3 DEF ShutdownCurrent
<1>4. CASE ChooseClass(t)
  BY <1>4 DEF ChooseClass
<1>5. CASE Instantiate(t)
  <2>1. PICK a \in Free :
          /\ adapter' = [adapter EXCEPT ![a] =
               [of |-> IF thread[t].rest THEN active ELSE Unconfigured, rest |-> thread[t].rest, open |-> FALSE]]
          /\ current' = a
          /\ thread' = [thread EXCEPT ![t].mine = a, ![t].pc = "probe"]
    BY <1>5 DEF Instantiate
  <2>2. a \in Adapters
    BY DEF Free
  <2> QED
    BY <1>5, <2>1, <2>2 DEF Instantiate
<1>6. CASE ProbeSucceeds(t)
  BY <1>6 DEF ProbeSucceeds
<1>7. CASE ProbeFails(t)
  <2>1. PICK s \in {"install", "fallback", "act"} :
          thread' = [thread EXCEPT ![t].runner = NoAdapter, ![t].pc = s]
    BY <1>7, ProbeGoes
  <2> QED
    BY <1>7, <2>1 DEF ProbeFails
<1>8. CASE InstallDispatcher(t)
  BY <1>8 DEF InstallDispatcher
<1>9. CASE LabelProfile(t)
  BY <1>9 DEF LabelProfile
<1>10. CASE StartScheduler(t)
  BY <1>10 DEF StartScheduler, Finish, IdleThread
<1>11. CASE Fallback(t)
  <2>1. PICK a \in Free :
          adapter' = [adapter EXCEPT ![a] = [of |-> Unconfigured, rest |-> FALSE, open |-> FALSE]]
    BY <1>11 DEF Fallback
  <2>2. a \in Adapters
    BY DEF Free
  <2> QED
    BY <1>11, <2>1, <2>2 DEF Fallback, Finish, IdleThread
<1>12. CASE Answer(t)
  BY <1>12 DEF Answer, Finish, IdleThread
<1> QED
  BY <1>1, <1>2, <1>3, <1>4, <1>5, <1>6, <1>7, <1>8, <1>9, <1>10, <1>11, <1>12 DEF HandlerStep

\* ... and that the scheduler starts over what the one reload has installed.
LEMMA HandlerReload ==
  ASSUME IInv, NEW t \in Threads, HandlerStep(t)
  PROVE  ReloadInv'
<1> SUFFICES ASSUME "reload" \notin overlaps' PROVE ReloadAlone'
  BY DEF ReloadInv
<1>0. Typed' /\ "reload" \notin overlaps /\ ReloadAlone /\ FactoryAlone /\ Typed /\ Handled
  <2>1. overlaps \subseteq overlaps'
    BY DEF HandlerStep, StopScheduler, RecordActive, ShutdownCurrent, ChooseClass, Instantiate, ProbeSucceeds,
           ProbeFails, InstallDispatcher, LabelProfile, StartScheduler, Fallback, Answer
  <2> QED
    BY <2>1, HandlerTyped DEF IInv, ReloadInv, ReloadAlone, FactoryInv
<1> USE <1>0, ActivationAssumption
    DEF Typed, Handled, ReloadAlone, Reloading, InHand, SchedulerOverPlatform, AdapterStates, ThreadStates,
        RunningStages, Goto
<1>1. CASE StopScheduler(t)
  BY <1>1 DEF StopScheduler
<1>2. CASE RecordActive(t)
  <2>1. UNCHANGED overlaps
    BY <1>2 DEF RecordActive
  <2> QED
    BY <1>2, <2>1 DEF RecordActive
<1>3. CASE ShutdownCurrent(t)
  BY <1>3 DEF ShutdownCurrent
<1>4. CASE ChooseClass(t)
  BY <1>4 DEF ChooseClass
<1>5. CASE Instantiate(t)
  <2>1. PICK a \in Free :
          /\ adapter' = [adapter EXCEPT ![a] =
               [of |-> IF thread[t].rest THEN active ELSE Unconfigured, rest |-> thread[t].rest, open |-> FALSE]]
          /\ current' = a
          /\ thread' = [thread EXCEPT ![t].mine = a, ![t].pc = "probe"]
    BY <1>5 DEF Instantiate
  <2> QED
    BY <1>5, <2>1 DEF Instantiate
<1>6. CASE ProbeSucceeds(t)
  BY <1>6 DEF ProbeSucceeds, FactoryAlone
<1>7. CASE ProbeFails(t)
  <2>1. PICK s \in {"install", "fallback", "act"} :
          thread' = [thread EXCEPT ![t].runner = NoAdapter, ![t].pc = s]
    BY <1>7, ProbeGoes
  <2> QED
    BY <1>7, <2>1 DEF ProbeFails, FactoryAlone
<1>8. CASE InstallDispatcher(t)
  <2>1. /\ thread'[t].pc = "label" /\ thread'[t].mine = dispatcher'
        /\ \A u \in Threads : u # t => thread'[u] = thread[u] /\ ~Reloading(u)
        /\ ~scheduler /\ UNCHANGED <<overlaps, scheduler>>
    BY <1>8 DEF InstallDispatcher
  <2> QED
    BY <2>1
<1>9. CASE LabelProfile(t)
  BY <1>9 DEF LabelProfile
<1>10. CASE StartScheduler(t)
  <2>1. thread'[t].pc \in {"act", "idle"}
    BY <1>10 DEF StartScheduler, Finish, IdleThread
  <2>2. \A u \in Threads : u # t => thread'[u] = thread[u] /\ ~Reloading(u)
    BY <1>10 DEF StartScheduler, Finish
  <2>3. /\ scheduler' = (scheduler \/ adapter[dispatcher].rest) /\ dispatcher \in Adapters
        /\ UNCHANGED <<overlaps, adapter, dispatcher>>
    BY <1>10 DEF StartScheduler
  <2> QED
    BY <2>1, <2>2, <2>3
<1>11. CASE Fallback(t)
  BY <1>11 DEF Fallback, Finish, IdleThread
<1>12. CASE Answer(t)
  BY <1>12 DEF Answer, Finish, IdleThread
<1> QED
  BY <1>1, <1>2, <1>3, <1>4, <1>5, <1>6, <1>7, <1>8, <1>9, <1>10, <1>11, <1>12 DEF HandlerStep

LEMMA HandlerHolds == ASSUME IInv, NEW t \in Threads, HandlerStep(t) PROVE IInv'
BY HandlerTyped, HandlerUp, HandlerFactory, HandlerReload DEF IInv

\* A handler begins, or the skill restarts.
LEMMA OthersTyped ==
  ASSUME IInv, NEW t \in Threads,
         \/ BeginUtterance(t) \/ Restart(t)
         \/ \E p \in Names : DeliverEvent(t, p)
  PROVE  Typed' /\ WebTyped'
<1>0. Typed /\ WebTyped
  BY DEF IInv
<1>1. CASE BeginUtterance(t)
  <2>1. [IdleThread EXCEPT !.pc = IF Mismatch THEN "stop" ELSE "act", !.job = "utterance", !.prof = active] \in ThreadStates
    BY <1>0 DEF IdleThread, ThreadStates, Stages, Typed
  <2>2. thread' \in [Threads -> ThreadStates]
    BY <1>0, <1>1, <2>1, Moved DEF BeginUtterance
  <2> QED
    BY <1>1, <1>0, <2>2 DEF BeginUtterance, Typed, WebTyped
<1>2. CASE Restart(t)
  <2>1. Boot \in ThreadStates /\ IdleThread \in ThreadStates
    BY DEF Boot, IdleThread, ThreadStates, Stages, RunningStages, Names
  <2>2. thread' \in [Threads -> ThreadStates]
    BY <1>2, <2>1 DEF Restart
  <2> QED
    BY <1>2, <1>0, <2>2 DEF Restart, Typed, WebTyped, AdapterStates, Names
<1>3. CASE \E p \in Names : DeliverEvent(t, p)
  <2>1. PICK p \in Names : DeliverEvent(t, p)
    BY <1>3
  <2>2. [IdleThread EXCEPT !.pc = "stop", !.job = "event", !.prof = p] \in ThreadStates
    BY DEF IdleThread, ThreadStates, Stages
  <2>3. thread' \in [Threads -> ThreadStates]
    BY <1>0, <2>1, <2>2, Moved DEF DeliverEvent
  <2> QED
    BY <2>1, <1>0, <2>3 DEF DeliverEvent, Typed, WebTyped
<1> QED BY <1>1, <1>2, <1>3

LEMMA OthersHold ==
  ASSUME IInv, NEW t \in Threads,
         \/ BeginUtterance(t) \/ Restart(t)
         \/ \E p \in Names : DeliverEvent(t, p)
  PROVE  IInv'
<1>t. Typed' /\ WebTyped' /\ Typed
  BY OthersTyped DEF IInv
<1>1. CASE Restart(t)
  <2>1. /\ thread' = [u \in Threads |-> IF u = t THEN Boot ELSE IdleThread]
        /\ \A a \in Adapters : ~adapter'[a].open
        /\ current' = NoAdapter /\ overlaps' = {} /\ scheduler' = FALSE /\ up' = FALSE
    BY <1>1 DEF Restart
  <2>2. Boot.pc = "create" /\ Boot.job = "boot" /\ IdleThread.pc = "idle" /\ IdleThread.job = "none"
    BY DEF Boot, IdleThread
  <2>3. (Handled /\ UpInv /\ TwoOverlap)'
    BY <2>1, <2>2 DEF Handled, UpInv, TwoOverlap
  <2>4. FactoryAlone'
    BY <2>1, <2>2 DEF FactoryAlone, OnlyCurrentOpen, RunningStages
  <2>5. ReloadAlone'
    BY <2>1, <2>2 DEF ReloadAlone, InHand, SchedulerOverPlatform, Reloading
  <2> QED
    BY <1>t, <2>3, <2>4, <2>5 DEF IInv, FactoryInv, ReloadInv
<1>2. ASSUME NEW x \in {"stop", "act"}, NEW j \in {"event", "utterance"},
             up, thread[t].pc = "idle", x = "act" => j = "utterance",
             thread'[t].pc = x, thread'[t].job = j,
             \A u \in Threads : u # t => thread'[u] = thread[u],
             UNCHANGED <<adapter, current, dispatcher, scheduler, up>>,
             \/ NoteReload(t)
             \/ x = "act" /\ UNCHANGED overlaps
      PROVE  IInv'
  <2>1. overlaps \subseteq overlaps' /\ ("factory" \in overlaps' => "factory" \in overlaps)
    BY <1>2 DEF NoteReload
  <2>2. (Handled /\ UpInv)'
    BY <1>2 DEF IInv, Handled, UpInv
  <2>3. TwoOverlap'
    BY <1>2 DEF IInv, TwoOverlap, NoteReload
  <2>4. FactoryInv'
    BY <1>2, <2>1 DEF IInv, FactoryInv, FactoryAlone, OnlyCurrentOpen, RunningStages
  <2>5. ASSUME "reload" \notin overlaps' PROVE ReloadAlone'
    <3>1. ReloadAlone
      BY <2>1, <2>5 DEF IInv, ReloadInv
    <3>2. x = "stop" => \A u \in Threads : u # t => ~Reloading(u)
      BY <1>2, <2>5 DEF NoteReload, Reloading
    <3> QED
      BY <1>2, <2>1, <3>1, <3>2 DEF ReloadAlone, Reloading, InHand, SchedulerOverPlatform
  <2> QED
    BY <1>t, <2>2, <2>3, <2>4, <2>5 DEF IInv, ReloadInv
<1>3. CASE BeginUtterance(t)
  <2>1. /\ thread'[t].pc = (IF Mismatch THEN "stop" ELSE "act") /\ thread'[t].job = "utterance"
        /\ \A u \in Threads : u # t => thread'[u] = thread[u]
    BY <1>3, <1>t DEF BeginUtterance, IdleThread, Typed
  <2>2. /\ up /\ thread[t].pc = "idle"
        /\ UNCHANGED <<adapter, current, dispatcher, scheduler, up>>
        /\ IF Mismatch THEN NoteReload(t) ELSE UNCHANGED overlaps
    BY <1>3 DEF BeginUtterance, MayStart
  <2>3. CASE Mismatch
    BY <2>1, <2>2, <2>3, <1>2
  <2>4. CASE ~Mismatch
    BY <2>1, <2>2, <2>4, <1>2
  <2> QED BY <2>3, <2>4
<1>4. CASE \E p \in Names : DeliverEvent(t, p)
  <2>1. PICK p \in Names : DeliverEvent(t, p)
    BY <1>4
  <2>2. /\ thread'[t].pc = "stop" /\ thread'[t].job = "event"
        /\ \A u \in Threads : u # t => thread'[u] = thread[u]
    BY <2>1, <1>t DEF DeliverEvent, IdleThread, Typed
  <2>3. /\ up /\ thread[t].pc = "idle" /\ NoteReload(t)
        /\ UNCHANGED <<adapter, current, dispatcher, scheduler, up>>
    BY <2>1 DEF DeliverEvent, MayStart
  <2> QED BY <2>2, <2>3, <1>2
<1> QED BY <1>1, <1>3, <1>4

\* A platform comes or goes.
LEMMA OutageHolds ==
  ASSUME IInv, \E p \in Profiles : Outage(p)
  PROVE  IInv'
BY DEF Outage, skillVars, WebTyped, IInv, Typed, Handled, UpInv, TwoOverlap, FactoryInv, FactoryAlone, OnlyCurrentOpen,
      ReloadInv, ReloadAlone, Reloading, InHand, SchedulerOverPlatform

LEMMA StutterHolds == ASSUME IInv, UNCHANGED vars PROVE IInv'
BY DEF vars, WebTyped, IInv, Typed, Handled, UpInv, TwoOverlap, FactoryInv, FactoryAlone, OnlyCurrentOpen,
      ReloadInv, ReloadAlone, Reloading, InHand, SchedulerOverPlatform

\* Every step keeps the invariant.
LEMMA StepHolds == ASSUME IInv, [Next]_vars PROVE IInv'
<1>1. CASE \E r \in Requests : WebStep(r) \/ \E p \in Names : BeginActivate(r, p)
  BY <1>1, WebHolds
<1>2. ASSUME NEW t \in Threads, HandlerStep(t) PROVE IInv'
  BY <1>2, HandlerHolds
<1>3. ASSUME NEW t \in Threads,
             BeginUtterance(t) \/ (\E p \in Names : DeliverEvent(t, p)) \/ Restart(t)
      PROVE  IInv'
  BY <1>3, OthersHold
<1>4. CASE \E p \in Profiles : Outage(p)
  BY <1>4, OutageHolds
<1>5. CASE UNCHANGED vars
  BY <1>5, StutterHolds
<1> QED
  BY <1>1, <1>2, <1>3, <1>4, <1>5 DEF Next

(***************************************************************************)
(* However many handlers reload adapters, fail their probe or fall back,   *)
(* and wherever requests, outages and restarts fall: no session is left    *)
(* open by an adapter that nothing refers to until two handlers have been  *)
(* in the factory at once (skill/adapters/factory.py, reload).             *)
(***************************************************************************)
THEOREM SessionsReferenced == Spec => []SessionRaceContained
<1>1. IInv => SessionRaceContained
  BY DEF IInv, FactoryInv, FactoryAlone, OnlyCurrentOpen, SessionRaceContained, NoOrphanSession, Referenced
<1>2. IInv /\ [Next]_vars => IInv'
  BY StepHolds
<1> QED
  BY InitHolds, <1>1, <1>2, PTL DEF Spec

(***************************************************************************)
(* However handlers and requests overlap and however reloads end, no alert *)
(* scheduler runs over the unconfigured adapter until two handlers have    *)
(* reloaded at once (skill/__init__.py, _reload_adapter).                  *)
(***************************************************************************)
THEOREM SchedulerServed == Spec => []SchedulerRaceContained
<1>1. IInv => SchedulerRaceContained
  BY DEF IInv, ReloadInv, ReloadAlone, SchedulerOverPlatform, SchedulerRaceContained, SchedulerHasPlatform
<1>2. IInv /\ [Next]_vars => IInv'
  BY StepHolds
<1> QED
  BY InitHolds, <1>1, <1>2, PTL DEF Spec

-----------------------------------------------------------------------------
(* A calm skill: no request begins while a handler runs or an event is under *)
(* way, and no handler while a request does.                               *)

Calm == ~Overlap

\* Requests come one after the other, and each ends with the profile active that
\* was last reported.
WebCalm ==
  /\ WebIdle => active = lastDone
  /\ ~WebIdle => SkillIdle /\ BusEmpty
  /\ \A r, s \in Requests : web[r].pc # "idle" /\ web[s].pc # "idle" => r = s
  /\ \A r \in Requests :
       /\ web[r].pc # "idle" => web[r].old = lastDone
       /\ web[r].pc \in {"reload", "notify"} => active = web[r].target

\* Events and handlers are about the active profile.
AboutActive ==
  /\ bus \in [Names -> Nat]
  /\ \A p \in Names : bus[p] # 0 => p = active
  /\ \A t \in Threads :
       /\ thread[t].pc \in {"stop", "set_active"} => thread[t].prof = active
       /\ thread[t].pc = "configure" => thread[t].rest = (active # Unconfigured)
       /\ thread[t].pc \in {"probe", "install", "label", "start"} => adapter[thread[t].mine].of = active

\* The labels tell of the adapter in use, but between its installation and theirs.
LabelsTrue ==
  up /\ (\A t \in Threads : thread[t].pc # "label") =>
    /\ loaded # Unconfigured => adapter[dispatcher].of = loaded
    /\ loadedRest <=> adapter[dispatcher].rest

\* An utterance has seen the active profile, and asks its platform if any.
AsksActive ==
  /\ seen \in [Threads -> SUBSET Names]
  /\ \A t \in Threads :
       /\ thread[t].job = "utterance" => active \in seen[t]
       /\ thread[t].pc = "act" /\ adapter[dispatcher].rest /\ adapter[dispatcher].open =>
            adapter[dispatcher].of = active

CalmInv == WebCalm /\ AboutActive /\ LabelsTrue /\ AsksActive

LEMMA CalmInit == Init => CalmInv
<1> SUFFICES ASSUME Init PROVE CalmInv
  OBVIOUS
<1>1. WebCalm
  BY DEF Init, WebCalm, WebIdle, IdleRequest
<1>2. AboutActive
  <2>1. \A u \in Threads : thread[u].pc \in {"idle", "create"}
    BY DEF Init, Boot, IdleThread
  <2> QED
    BY <2>1 DEF Init, AboutActive
<1>3. LabelsTrue
  BY DEF Init, LabelsTrue
<1>4. AsksActive
  <2>1. \A u \in Threads : thread[u].pc \in {"idle", "create"} /\ thread[u].job \in {"none", "boot"}
    BY DEF Init, Boot, IdleThread
  <2> QED
    BY <2>1 DEF Init, AsksActive
<1> QED
  BY <1>1, <1>2, <1>3, <1>4 DEF CalmInv

\* While a request is under way the skill rests.
LEMMA WebCalmHolds ==
  ASSUME Calm, IInv, CalmInv, NEW r \in Requests, WebStep(r) \/ \E p \in Names : BeginActivate(r, p)
  PROVE  CalmInv'
<1>1. /\ SkillIdle /\ BusEmpty /\ UNCHANGED skillVars
      /\ web \in [Requests -> [pc : {"idle", "set", "reload", "rollback", "notify"}, target : Names, old : Names]]
      /\ \A t \in Threads : thread[t].job # "utterance"
  <2>1. SkillIdle /\ BusEmpty
    BY DEF CalmInv, WebCalm, WebIdle, WebStep, SetActive, WebReload, Rollback, Notify, BeginActivate, Calm, Quiet
  <2>2. UNCHANGED skillVars
    BY DEF WebStep, SetActive, WebReload, Rollback, Notify, BeginActivate
  <2>3. \A t \in Threads : thread[t].job # "utterance"
    BY <2>1 DEF SkillIdle, IInv, UpInv
  <2> QED BY <2>1, <2>2, <2>3 DEF IInv, WebTyped
<1>2. WebCalm'
  <2> USE <1>1 DEF CalmInv, WebCalm, WebIdle, SkillIdle, skillVars, IdleRequest
  <2>1. CASE SetActive(r)
    BY <2>1 DEF SetActive, WriteActive, WebGoto, BusEmpty
  <2>2. CASE WebReload(r)
    BY <2>2 DEF WebReload, WebGoto, BusEmpty
  <2>3. CASE Rollback(r)
    BY <2>3 DEF Rollback, WriteActive
  <2>4. CASE Notify(r)
    BY <2>4 DEF Notify
  <2>5. CASE \E p \in Names : BeginActivate(r, p)
    BY <2>5 DEF BeginActivate, Calm, Quiet, BusEmpty
  <2> QED BY <2>1, <2>2, <2>3, <2>4, <2>5 DEF WebStep
<1>3. AboutActive'
  <2>1. bus' \in [Names -> Nat] /\ \A p \in Names : bus'[p] # 0 => p = active'
    <3>1. CASE Notify(r)
      BY <3>1, <1>1 DEF Notify, CalmInv, WebCalm, AboutActive, BusEmpty
    <3>2. CASE ~Notify(r)
      BY <3>2, <1>1 DEF WebStep, SetActive, WebReload, Rollback, BeginActivate, CalmInv, AboutActive, BusEmpty
    <3> QED BY <3>1, <3>2
  <2> QED BY <2>1, <1>1 DEF AboutActive, SkillIdle, skillVars
<1>4. LabelsTrue'
  BY <1>1 DEF CalmInv, LabelsTrue, skillVars
<1>5. AsksActive'
  <2>1. seen' \in [Threads -> SUBSET Names]
    BY <1>1 DEF WebStep, SetActive, WebReload, Rollback, Notify, BeginActivate, WriteActive, CalmInv, AsksActive
  <2> QED BY <2>1, <1>1 DEF AsksActive, SkillIdle, skillVars
<1> QED
  BY <1>2, <1>3, <1>4, <1>5 DEF CalmInv

\* A handler leaves the active profile, which it records once more, as it is.
LEMMA HandlerKeeps ==
  ASSUME OneThread, Calm, IInv, CalmInv, NEW t \in Threads, HandlerStep(t)
  PROVE  active' = active /\ WebCalm' /\ bus' = bus
<1>1. WebIdle /\ ~SkillIdle
  BY DEF HandlerStep, StopScheduler, RecordActive, ShutdownCurrent, ChooseClass, Instantiate, ProbeSucceeds,
         ProbeFails, InstallDispatcher, LabelProfile, StartScheduler, Fallback, Answer,
         CalmInv, WebCalm, SkillIdle
<1>2. UNCHANGED <<web, lastDone, bus>>
  BY DEF HandlerStep, StopScheduler, RecordActive, ShutdownCurrent, ChooseClass, Instantiate, ProbeSucceeds,
         ProbeFails, InstallDispatcher, LabelProfile, StartScheduler, Fallback, Answer
<1>3. active' = active
  <2>1. CASE RecordActive(t)
    BY <2>1 DEF RecordActive, WriteActive, CalmInv, AboutActive
  <2>2. CASE ~RecordActive(t)
    BY <2>2 DEF HandlerStep, StopScheduler, ShutdownCurrent, ChooseClass, Instantiate, ProbeSucceeds,
           ProbeFails, InstallDispatcher, LabelProfile, StartScheduler, Fallback, Answer
  <2> QED BY <2>1, <2>2
<1> QED
  BY <1>1, <1>2, <1>3 DEF CalmInv, WebCalm, WebIdle

LEMMA HandlerCalm ==
  ASSUME OneThread, Calm, IInv, CalmInv, NEW t \in Threads, HandlerStep(t)
  PROVE  CalmInv'
<1>0. \A u \in Threads : u = t
  BY DEF OneThread
<1>h. active' = active /\ WebCalm' /\ bus' = bus
  BY HandlerKeeps
<1>i. IInv' /\ FactoryAlone /\ ReloadAlone
  BY HandlerHolds, Single
<1>j. (FactoryAlone /\ ReloadAlone)'
  BY <1>i, <1>0 DEF IInv, TwoOverlap, FactoryInv, ReloadInv
<1>11. CASE Fallback(t)
  <2>1. PICK a \in Free :
          /\ adapter' = [adapter EXCEPT ![a] = [of |-> Unconfigured, rest |-> FALSE, open |-> FALSE]]
          /\ dispatcher' = a
    BY <1>11 DEF Fallback
  <2>2. /\ adapter'[dispatcher'] = [of |-> Unconfigured, rest |-> FALSE, open |-> FALSE]
        /\ thread'[t].pc = "idle" /\ thread'[t].job = "none"
        /\ loaded' = Unconfigured /\ (loadedRest' <=> adapter'[dispatcher'].rest)
    BY <1>11, <2>1 DEF Fallback, Free, Finish, IdleThread, IInv, Typed
  <2>3. AboutActive'
    BY <2>2, <1>0, <1>h DEF AboutActive, CalmInv
  <2>4. LabelsTrue'
    BY <2>2 DEF LabelsTrue
  <2>5. seen' \in [Threads -> SUBSET Names]
    BY <1>11 DEF Fallback, Finish, CalmInv, AsksActive
  <2>6. AsksActive'
    BY <2>2, <2>5, <1>0 DEF AsksActive
  <2> QED
    BY <2>3, <2>4, <2>6, <1>h DEF CalmInv
<1> USE <1>0, <1>h, <1>i, <1>j, ActivationAssumption
    DEF IInv, Typed, Handled, FactoryAlone, ReloadAlone, InHand, OnlyCurrentOpen, UpInv, AdapterStates,
        ThreadStates, CalmInv, AboutActive, LabelsTrue, AsksActive, Goto
<1>1. CASE StopScheduler(t)
  BY <1>1 DEF StopScheduler
<1>2. CASE RecordActive(t)
  BY <1>2 DEF RecordActive, WriteActive
<1>3. CASE ShutdownCurrent(t)
  BY <1>3 DEF ShutdownCurrent
<1>4. CASE ChooseClass(t)
  BY <1>4 DEF ChooseClass
<1>5. CASE Instantiate(t)
  <2>1. PICK a \in Free :
          /\ adapter' = [adapter EXCEPT ![a] =
               [of |-> IF thread[t].rest THEN active ELSE Unconfigured, rest |-> thread[t].rest, open |-> FALSE]]
          /\ current' = a
          /\ thread' = [thread EXCEPT ![t].mine = a, ![t].pc = "probe"]
    BY <1>5 DEF Instantiate
  <2>2. a \in Adapters /\ a # dispatcher
    BY DEF Free, Referenced
  <2> QED
    BY <1>5, <2>1, <2>2 DEF Instantiate
<1>6. CASE ProbeSucceeds(t)
  BY <1>6 DEF ProbeSucceeds
<1>7. CASE ProbeFails(t)
  <2>1. PICK s \in {"install", "fallback", "act"} :
          /\ thread' = [thread EXCEPT ![t].runner = NoAdapter, ![t].pc = s]
          /\ s = "act" => thread[t].job = "utterance"
    BY <1>7, ProbeGoes
  <2> QED
    BY <1>7, <2>1 DEF ProbeFails
<1>8. CASE InstallDispatcher(t)
  BY <1>8 DEF InstallDispatcher
<1>9. CASE LabelProfile(t)
  BY <1>9 DEF LabelProfile
<1>10. CASE StartScheduler(t)
  BY <1>10 DEF StartScheduler, Finish, IdleThread
<1>12. CASE Answer(t)
  BY <1>12 DEF Answer, Finish, IdleThread
<1> QED
  BY <1>1, <1>2, <1>3, <1>4, <1>5, <1>6, <1>7, <1>8, <1>9, <1>10, <1>11, <1>12 DEF HandlerStep

\* A handler begins with the active profile, and the skill restarts, while no
\* request is under way.
LEMMA OthersCalm ==
  ASSUME OneThread, Calm, IInv, CalmInv, NEW t \in Threads,
         \/ BeginUtterance(t) \/ Restart(t)
         \/ \E p \in Names : DeliverEvent(t, p)
  PROVE  CalmInv'
<1>0. \A u \in Threads : u = t
  BY DEF OneThread
<1>1. WebIdle /\ UNCHANGED <<web, active, lastDone>>
  BY DEF BeginUtterance, Restart, DeliverEvent, MayStart, Calm
<1>2. WebCalm'
  BY <1>1 DEF CalmInv, WebCalm, WebIdle
<1>i. IInv' /\ FactoryAlone
  BY OthersHold, Single
<1>5. CASE \E p \in Names : DeliverEvent(t, p)
  <2>1. PICK p \in Names : DeliverEvent(t, p)
    BY <1>5
  <2>2. /\ thread'[t].pc = "stop" /\ thread'[t].job = "event" /\ thread'[t].prof = p
        /\ p = active /\ thread[t].pc = "idle"
    <3>1. p = active /\ thread[t].pc = "idle"
      <4>1. bus[p] > 0 /\ thread[t].pc = "idle"
        BY <2>1 DEF DeliverEvent, MayStart
      <4>2. bus[p] # 0
        BY <4>1
      <4> QED BY <4>1, <4>2, <2>1 DEF CalmInv, AboutActive
    <3>2. thread'[t] = [IdleThread EXCEPT !.pc = "stop", !.job = "event", !.prof = p]
      BY <2>1 DEF DeliverEvent, IInv, Typed
    <3> QED BY <3>1, <3>2 DEF IdleThread
  <2>3. bus' \in [Names -> Nat] /\ \A q \in Names : bus'[q] # 0 => q = active
    <3>1. bus[p] \in Nat /\ bus[p] > 0 /\ bus' = [bus EXCEPT ![p] = bus[p] - 1]
      BY <2>1 DEF DeliverEvent, CalmInv, AboutActive
    <3>2. bus[p] - 1 \in Nat
      BY <3>1
    <3> QED
      BY <3>1, <3>2, <2>2 DEF CalmInv, AboutActive
  <2>4. AboutActive'
    BY <2>2, <2>3, <1>0, <1>1 DEF AboutActive
  <2>5. LabelsTrue'
    <3>1. UNCHANGED <<up, loaded, loadedRest, adapter, dispatcher>>
      BY <2>1 DEF DeliverEvent
    <3> QED BY <3>1, <2>2, <1>0 DEF LabelsTrue, CalmInv
  <2>6. AsksActive'
    <3>1. UNCHANGED seen
      BY <2>1 DEF DeliverEvent
    <3> QED BY <3>1, <2>2, <1>0 DEF AsksActive, CalmInv
  <2> QED
    BY <2>4, <2>5, <2>6, <1>2 DEF CalmInv
<1> USE <1>0, <1>1, <1>2, <1>i
    DEF IInv, Typed, UpInv, FactoryAlone, OnlyCurrentOpen, AdapterStates, ThreadStates, CalmInv, AboutActive, LabelsTrue, AsksActive,
        IdleThread
<1>3. CASE BeginUtterance(t)
  BY <1>3 DEF BeginUtterance, MayStart, Mismatch
<1>4. CASE Restart(t)
  <2>1. thread'[t].pc = "create" /\ thread'[t].job = "boot"
    BY <1>4 DEF Restart, Boot
  <2> QED
    BY <1>4, <2>1 DEF Restart
<1> QED BY <1>3, <1>4, <1>5

LEMMA OutageCalm ==
  ASSUME CalmInv, (\E p \in Profiles : Outage(p)) \/ UNCHANGED vars
  PROVE  CalmInv'
BY DEF Outage, vars, skillVars, CalmInv, WebCalm, WebIdle, SkillIdle, BusEmpty, AboutActive, LabelsTrue, AsksActive

LEMMA CalmStep == ASSUME OneThread, Calm, IInv, CalmInv, [Next]_vars PROVE CalmInv'
<1>1. CASE \E r \in Requests : WebStep(r) \/ \E p \in Names : BeginActivate(r, p)
  BY <1>1, WebCalmHolds
<1>2. ASSUME NEW t \in Threads, HandlerStep(t) PROVE CalmInv'
  BY <1>2, HandlerCalm
<1>3. ASSUME NEW t \in Threads,
             BeginUtterance(t) \/ (\E p \in Names : DeliverEvent(t, p)) \/ Restart(t)
      PROVE  CalmInv'
  BY <1>3, OthersCalm
<1>4. CASE (\E p \in Profiles : Outage(p)) \/ UNCHANGED vars
  BY <1>4, OutageCalm
<1> QED
  BY <1>1, <1>2, <1>3, <1>4 DEF Next

(***************************************************************************)
(* At rest the active profile is the one whose activation was last         *)
(* reported: each failed one was rolled back, and no handler that records  *)
(* its profile once more undoes a later one, if requests and handlers do   *)
(* not overlap (web-ui/routers/profiles.py, activate_profile).             *)
(***************************************************************************)
THEOREM LastDoneIsActive == ASSUME OneThread, Calm PROVE Spec => []ActiveIsLastDone
<1>1. CalmInv => ActiveIsLastDone
  BY DEF CalmInv, WebCalm, ActiveIsLastDone, Quiet
<1>2. (IInv /\ CalmInv) /\ [Next]_vars => (IInv /\ CalmInv)'
  BY StepHolds, CalmStep
<1> QED
  BY InitHolds, CalmInit, <1>1, <1>2, PTL DEF Spec

(***************************************************************************)
(* The label the mismatch check compares names the profile of the adapter  *)
(* in use, however a reload ended (skill/__init__.py, _reload_adapter).    *)
(***************************************************************************)
THEOREM LabelHolds == ASSUME OneThread, Calm PROVE Spec => []LabelIsTrue
<1>1. CalmInv => LabelIsTrue
  BY DEF CalmInv, LabelsTrue, LabelIsTrue, SkillIdle
<1>2. (IInv /\ CalmInv) /\ [Next]_vars => (IInv /\ CalmInv)'
  BY StepHolds, CalmStep
<1> QED
  BY InitHolds, CalmInit, <1>1, <1>2, PTL DEF Spec

(***************************************************************************)
(* What a user hears comes from a profile that was active during the       *)
(* utterance, whatever notifications were lost and platforms were down     *)
(* (skill/__init__.py, _safe_dispatch, _check_profile_mismatch).           *)
(***************************************************************************)
THEOREM AnswersActive == ASSUME OneThread, Calm PROVE Spec => AnswersFromActive
<1>1. (IInv /\ CalmInv) /\ [Next]_vars =>
        [\A t \in Threads :
           thread[t].pc = "act" /\ thread'[t].pc = "idle" /\ up' =>
             Reply \in seen[t] \union {Unconfigured, "error"}]_vars
  <2> SUFFICES ASSUME IInv, CalmInv, NEW t \in Threads, thread[t].pc = "act"
               PROVE  Reply \in seen[t] \union {Unconfigured, "error"}
    OBVIOUS
  <2> QED
    BY DEF IInv, UpInv, Typed, AdapterStates, CalmInv, AsksActive, Reply
<1>2. (IInv /\ CalmInv) /\ [Next]_vars => (IInv /\ CalmInv)'
  BY StepHolds, CalmStep
<1> QED
  BY InitHolds, CalmInit, <1>1, <1>2, PTL DEF Spec, AnswersFromActive
=============================================================================
