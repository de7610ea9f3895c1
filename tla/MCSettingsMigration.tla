------------------------- MODULE MCSettingsMigration -------------------------
(***************************************************************************)
(* An instance of SettingsMigration in which either one process migrates   *)
(* and may crash twice, while administrators edit, or both do, one of them *)
(* may crash once and nobody edits: `cast` has the processes there are.    *)
(***************************************************************************)
EXTENDS SettingsMigration, TLC

CONSTANTS web, skill

VARIABLE cast

castVars == <<vars, cast>>

CastInit == Init /\ cast \in {{web}, {web, skill}}

CastNext ==
    /\ Next /\ UNCHANGED cast
    /\ \A m \in Migrators \ cast : pc'[m] = pc[m]
    /\ cast = Migrators => spent'.crashes <= 1 /\ spent'.edits = 0

\* A process that starts, or is restarted, goes on.
CastSpec ==
    /\ CastInit /\ [][CastNext]_castVars
    /\ \A m \in Migrators : WF_castVars(m \in cast /\ Migrate(m) /\ UNCHANGED cast)

\* Initialization ends, with every process serving, once crashes stop
\* (settings.py:409-435).
CastServes == <>[](\A m \in cast : pc[m] = "serving")

\* ValuesKept where one process migrates (profiles.py:211-267).
ValuesKeptAlone == [][cast = {web} => \A i \in Items : Available(i) => Available(i)']_castVars
=============================================================================
