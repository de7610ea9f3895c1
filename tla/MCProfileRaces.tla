---------------------------- MODULE MCProfileRaces ----------------------------
(***************************************************************************)
(* Constants of the runs of ProfileRaces, and a run that holds both a lone *)
(* caller and callers that race.                                           *)
(***************************************************************************)
EXTENDS ProfileRaces

CONSTANTS p1, p2

\* Names that are not JSON literals are read back as they were written.
MCReadBackPlain == [p \in Profiles |-> p]

\* p2 stands for a profile named "null", which get_setting decodes to None.
MCReadBackNull == [p \in Profiles |-> IF p = p2 THEN Unconfigured ELSE p]

VARIABLE solo  \* only one of the clients ever calls

allVars == <<hvars, solo>>

Lone == CHOOSE c \in Clients : TRUE

RacesInit == HInit /\ solo \in BOOLEAN
RacesNext ==
  /\ HNext
  /\ UNCHANGED solo
  /\ solo => /\ \A c \in Clients \ {Lone} : pc'[c] = "idle"
             /\ SetActiveUnconfigured(Lone) \/ ~\E c \in Clients : SetActiveUnconfigured(c)

RacesSpec == RacesInit /\ [][RacesNext]_allVars

\* The transactions of a lone client's calls add up to the atomic operations of
\* ProfileRegistry.
LoneImplementsRegistry ==
  /\ solo => Registry!Init
  /\ [][solo => Registry!Next \/ UNCHANGED Registry!vars]_allVars
=============================================================================
