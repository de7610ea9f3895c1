------------------------- MODULE MCProfileActivation -------------------------
(***************************************************************************)
(* Two instances of ProfileActivation in one run: a calm one, in which the *)
(* skill has one handler and rests when an activation is requested, and a  *)
(* busy one, in which either two requests overlap with each other and with *)
(* a handler, or two handlers with each other and with a request.          *)
(***************************************************************************)
EXTENDS ProfileActivation

CONSTANTS r2, t2   \* the second request and thread of the busy instance

VARIABLE crowd  \* who overlaps: nobody, two requests or two threads

allVars == <<crowd, vars>>

calm == crowd = "nobody"

Busy == INSTANCE ProfileActivation WITH
  Requests <- Requests \union {r2}, Threads <- Threads \union {t2}, Overlap <- TRUE,
  MaxActivations <- 2, MaxOutages <- 1, MaxRestarts <- 0

\* Requests are interchangeable, and so are threads: the second one is used
\* while the first is under way.  Two threads meet a single request.
Crowded ==
  /\ web[r2].pc = "idle" /\ web'[r2].pc # "idle" =>
       crowd = "requests" /\ \A r \in Requests : web[r].pc # "idle"
  /\ thread[t2].pc = "idle" /\ thread'[t2].pc # "idle" =>
       crowd = "threads" /\ \A t \in Threads : thread[t].pc # "idle"
  /\ crowd = "threads" => spent'.activations <= 1

BothInit == \/ crowd = "nobody" /\ Init
            \/ crowd \in {"requests", "threads"} /\ Busy!Init /\ thread[t2].pc = "idle"

BothNext == /\ UNCHANGED crowd
            /\ \/ calm /\ Next
               \/ ~calm /\ Busy!Next /\ Crowded

BothSpec == BothInit /\ [][BothNext]_allVars /\ (calm => Fairness)

-----------------------------------------------------------------------------
(* The properties of the calm instance, and what is left of them in the    *)
(* busy one.                                                               *)

\* Once the administrator stops, the skill ends up serving the active profile.
CalmServing == calm => EventuallyServing

\* What a user hears comes from a profile that was active during the utterance.
CalmAnswers ==
  [][calm => \A t \in Threads :
       thread[t].pc = "act" /\ thread'[t].pc = "idle" /\ up' =>
         Reply \in seen[t] \union {Unconfigured, "error"}]_allVars

\* However a request and the reloads it caused ended, the active profile is the one
\* whose activation was last reported, the label of the mismatch check names the
\* profile of the adapter the skill is left with, and no alert scheduler runs over
\* the unconfigured one; the last also of a busy skill, unless two reloads met.
SkillAtRest ==
  /\ calm => ActiveIsLastDone /\ LabelIsTrue /\ SchedulerHasPlatform
  /\ ~calm => Busy!SchedulerRaceContained

\* No HTTP session is left open by an adapter that nothing refers to, unless two
\* handlers were in the factory's reload at once (factory.py:75, "_lock = None");
\* the one handler of the calm instance has none to meet.
SessionsReferred ==
  /\ calm => SessionRaceContained
  /\ ~calm => Busy!SessionRaceContained
=============================================================================
