------------------------ MODULE ActivationRunProofs ------------------------
(***************************************************************************)
(* The theorems of ProfileActivationProofs for the two instances that one  *)
(* run holds: a skill that rests when a profile is activated, and one      *)
(* whose handlers overlap with each other and with two requests.           *)
(***************************************************************************)
EXTENDS ProfileActivationProofs, MCProfileActivation

\* The theorems at the constants of the busy instance.
Apart == INSTANCE ProfileActivationProofs WITH
  Requests <- Requests \union {r2}, Threads <- Threads \union {t2}, Overlap <- TRUE,
  MaxActivations <- 2, MaxOutages <- 1, MaxRestarts <- 0

BothInv == /\ calm => IInv
           /\ ~calm => Apart!IInv

RunInv == BothInv /\ (calm => CalmInv)

\* Both instances are of the same system.
LEMMA SameAssumption == Apart!ActivationAssumption
BY ActivationAssumption DEF Apart!ActivationAssumption

LEMMA SameInit == Busy!Init => Apart!Init
BY DEF Busy!Init, Apart!Init, Busy!Names, Apart!Names, Busy!IdleRequest, Apart!IdleRequest, Busy!Boot, Apart!Boot,
       Busy!IdleThread, Apart!IdleThread

LEMMA SameWebStep ==
  ASSUME NEW r
  PROVE  /\ Busy!WebStep(r) => Apart!WebStep(r)
         /\ \A p : Busy!BeginActivate(r, p) => Apart!BeginActivate(r, p)
<1> USE DEF Busy!WriteActive, Apart!WriteActive, Busy!WebGoto, Apart!WebGoto, Busy!skillVars, Apart!skillVars,
            Busy!IdleRequest, Apart!IdleRequest
<1>1. Busy!SetActive(r) => Apart!SetActive(r)
  BY DEF Busy!SetActive, Apart!SetActive
<1>2. Busy!WebReload(r) => Apart!WebReload(r)
  BY DEF Busy!WebReload, Apart!WebReload
<1>3. Busy!Rollback(r) => Apart!Rollback(r)
  BY DEF Busy!Rollback, Apart!Rollback
<1>4. Busy!Notify(r) => Apart!Notify(r)
  BY DEF Busy!Notify, Apart!Notify
<1>5. ASSUME NEW p, Busy!BeginActivate(r, p) PROVE Apart!BeginActivate(r, p)
  BY <1>5 DEF Busy!BeginActivate, Apart!BeginActivate, Busy!Quiet, Apart!Quiet, Busy!WebIdle, Apart!WebIdle,
     Busy!SkillIdle, Apart!SkillIdle, Busy!BusEmpty, Apart!BusEmpty, Busy!Names, Apart!Names
<1> QED BY <1>1, <1>2, <1>3, <1>4, <1>5 DEF Busy!WebStep, Apart!WebStep

LEMMA SameHandlerStep ==
  ASSUME NEW t
  PROVE  Busy!HandlerStep(t) => Apart!HandlerStep(t)
<1> USE DEF Busy!Goto, Apart!Goto, Busy!Finish, Apart!Finish, Busy!IdleThread, Apart!IdleThread,
            Busy!Free, Apart!Free, Busy!Referenced, Apart!Referenced
<1>1. Busy!StopScheduler(t) => Apart!StopScheduler(t)
  BY DEF Busy!StopScheduler, Apart!StopScheduler
<1>2. Busy!RecordActive(t) => Apart!RecordActive(t)
  BY DEF Busy!RecordActive, Apart!RecordActive, Busy!WriteActive, Apart!WriteActive,
         Busy!RunningStages, Apart!RunningStages
<1>3. Busy!ShutdownCurrent(t) => Apart!ShutdownCurrent(t)
  BY DEF Busy!ShutdownCurrent, Apart!ShutdownCurrent
<1>4. Busy!ChooseClass(t) => Apart!ChooseClass(t)
  BY DEF Busy!ChooseClass, Apart!ChooseClass
<1>5. Busy!Instantiate(t) => Apart!Instantiate(t)
  BY DEF Busy!Instantiate, Apart!Instantiate
<1>6. Busy!ProbeSucceeds(t) => Apart!ProbeSucceeds(t)
  BY DEF Busy!ProbeSucceeds, Apart!ProbeSucceeds
<1>7. Busy!ProbeFails(t) => Apart!ProbeFails(t)
  BY DEF Busy!ProbeFails, Apart!ProbeFails
<1>8. Busy!InstallDispatcher(t) => Apart!InstallDispatcher(t)
  BY DEF Busy!InstallDispatcher, Apart!InstallDispatcher
<1>9. Busy!LabelProfile(t) => Apart!LabelProfile(t)
  BY DEF Busy!LabelProfile, Apart!LabelProfile
<1>10. Busy!StartScheduler(t) => Apart!StartScheduler(t)
  BY DEF Busy!StartScheduler, Apart!StartScheduler
<1>11. Busy!Fallback(t) => Apart!Fallback(t)
  BY DEF Busy!Fallback, Apart!Fallback
<1>12. Busy!Answer(t) => Apart!Answer(t)
  BY DEF Busy!Answer, Apart!Answer
<1> QED
  BY <1>1, <1>2, <1>3, <1>4, <1>5, <1>6, <1>7, <1>8, <1>9, <1>10, <1>11, <1>12
  DEF Busy!HandlerStep, Apart!HandlerStep

LEMMA SameNext == Busy!Next => Apart!Next
<1> USE DEF Busy!IdleThread, Apart!IdleThread, Busy!MayStart, Apart!MayStart, Busy!WebIdle, Apart!WebIdle,
            Busy!Mismatch, Apart!Mismatch, Busy!Names, Apart!Names
<1>1. ASSUME NEW t PROVE Busy!BeginUtterance(t) => Apart!BeginUtterance(t)
  BY DEF Busy!BeginUtterance, Apart!BeginUtterance, Busy!NoteReload, Apart!NoteReload
<1>2. ASSUME NEW t, NEW p PROVE Busy!DeliverEvent(t, p) => Apart!DeliverEvent(t, p)
  BY DEF Busy!DeliverEvent, Apart!DeliverEvent, Busy!NoteReload, Apart!NoteReload
<1>3. ASSUME NEW t PROVE Busy!Restart(t) => Apart!Restart(t)
  BY DEF Busy!Restart, Apart!Restart, Busy!Boot, Apart!Boot
<1>4. ASSUME NEW p PROVE Busy!Outage(p) => Apart!Outage(p)
  BY DEF Busy!Outage, Apart!Outage, Busy!skillVars, Apart!skillVars
<1>5. Busy!Names = Apart!Names
  OBVIOUS
<1> QED BY <1>1, <1>2, <1>3, <1>4, <1>5, SameWebStep, SameHandlerStep DEF Busy!Next, Apart!Next

LEMMA RunInit == BothInit => RunInv
<1>1. Apart!Init => Apart!IInv
  BY SameAssumption, Apart!InitHolds
<1> QED BY <1>1, SameInit, InitHolds, CalmInit DEF BothInit, BothInv, RunInv, calm

LEMMA BothStep == ASSUME BothInv, [BothNext]_allVars PROVE BothInv'
<1>0. calm' = calm
  BY DEF BothNext, allVars, calm
<1>1. CASE calm
  <2>1. IInv /\ [Next]_vars
    BY <1>1 DEF BothInv, BothNext, allVars
  <2> QED BY <2>1, <1>0, <1>1, StepHolds DEF BothInv
<1>2. CASE ~calm
  <2>1. Apart!IInv
    BY <1>2 DEF BothInv
  <2>2. [Apart!Next]_Apart!vars
    BY <1>2, SameNext DEF BothNext, allVars, vars, Apart!vars
  <2>3. Apart!IInv'
    BY <2>1, <2>2, SameAssumption, Apart!StepHolds
  <2> QED BY <2>3, <1>0, <1>2 DEF BothInv
<1> QED BY <1>1, <1>2

LEMMA RunStep == ASSUME OneThread, Calm, RunInv, [BothNext]_allVars PROVE RunInv'
<1>1. BothInv' /\ calm' = calm
  BY BothStep DEF BothNext, allVars, calm, RunInv
<1>2. CASE calm
  <2>1. IInv /\ CalmInv /\ [Next]_vars
    BY <1>2 DEF RunInv, BothInv, BothNext, allVars
  <2> QED BY <1>1, <1>2, <2>1, CalmStep DEF RunInv
<1> QED BY <1>1, <1>2 DEF RunInv

(***************************************************************************)
(* If activations meet a skill at rest that has one handler, the active    *)
(* profile is the one last reported, the label is true and the scheduler   *)
(* never runs over the unconfigured adapter; however many handlers and     *)
(* requests overlap, the last holds until two handlers reload at once      *)
(* (web-ui/routers/profiles.py, activate_profile; skill/__init__.py,       *)
(* _reload_adapter, _force_unconfigured_fallback).                         *)
(***************************************************************************)
THEOREM RestHolds == ASSUME OneThread, Calm PROVE BothSpec => []SkillAtRest
<1>1. RunInv => SkillAtRest
  <2>1. ASSUME IInv, CalmInv PROVE ActiveIsLastDone /\ LabelIsTrue /\ SchedulerHasPlatform
    <3>1. ActiveIsLastDone /\ LabelIsTrue
      BY <2>1 DEF CalmInv, WebCalm, ActiveIsLastDone, Quiet, LabelsTrue, LabelIsTrue, SkillIdle
    <3> QED
      BY <2>1, <3>1, Single DEF ReloadAlone, SchedulerOverPlatform, SchedulerHasPlatform
  <2>2. Apart!IInv => Busy!SchedulerRaceContained
    BY DEF Apart!IInv, Apart!ReloadInv, Apart!ReloadAlone, Apart!SchedulerOverPlatform,
           Busy!SchedulerRaceContained, Busy!SchedulerHasPlatform
  <2> QED BY <2>1, <2>2 DEF RunInv, BothInv, SkillAtRest
<1>2. RunInv /\ [BothNext]_allVars => RunInv'
  BY RunStep
<1> QED
  BY <1>1, <1>2, RunInit, PTL DEF BothSpec

(***************************************************************************)
(* Of either instance, with any number of handlers: no session is left     *)
(* open by an adapter nothing refers to until two handlers are in the      *)
(* factory at once (skill/adapters/factory.py, reload).                    *)
(***************************************************************************)
THEOREM SessionsHeld == BothSpec => []SessionsReferred
<1>1. BothInv => SessionsReferred
  <2>1. IInv => SessionRaceContained
    BY DEF IInv, FactoryInv, FactoryAlone, OnlyCurrentOpen, SessionRaceContained, NoOrphanSession, Referenced
  <2>2. Apart!IInv => Busy!SessionRaceContained
    BY DEF Apart!IInv, Apart!FactoryInv, Apart!FactoryAlone, Apart!OnlyCurrentOpen,
           Busy!SessionRaceContained, Busy!NoOrphanSession, Busy!Referenced
  <2> QED BY <2>1, <2>2 DEF BothInv, SessionsReferred
<1>2. BothInv /\ [BothNext]_allVars => BothInv'
  BY BothStep
<1>3. BothInit => BothInv
  BY RunInit DEF RunInv
<1> QED
  BY <1>1, <1>2, <1>3, PTL DEF BothSpec

(***************************************************************************)
(* What a user hears comes from a profile that was active during the       *)
(* utterance, if activations meet a skill at rest (skill/__init__.py,      *)
(* _safe_dispatch, _check_profile_mismatch).                               *)
(***************************************************************************)
THEOREM CalmAnswersHold == ASSUME OneThread, Calm PROVE BothSpec => CalmAnswers
<1>1. RunInv /\ [BothNext]_allVars =>
        [calm => \A t \in Threads :
           thread[t].pc = "act" /\ thread'[t].pc = "idle" /\ up' =>
             Reply \in seen[t] \union {Unconfigured, "error"}]_allVars
  <2> SUFFICES ASSUME IInv, CalmInv, NEW t \in Threads, thread[t].pc = "act"
               PROVE  Reply \in seen[t] \union {Unconfigured, "error"}
    BY DEF RunInv, BothInv
  <2> QED
    BY DEF IInv, UpInv, Typed, AdapterStates, CalmInv, AsksActive, Reply
<1>2. RunInv /\ [BothNext]_allVars => RunInv'
  BY RunStep
<1> QED
  BY <1>1, <1>2, RunInit, PTL DEF BothSpec, CalmAnswers
=============================================================================
