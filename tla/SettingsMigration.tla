-------------------------- MODULE SettingsMigration --------------------------
(***************************************************************************)
(* What SettingsService.initialize does to a database left by an older     *)
(* version: _migrate_legacy_config turns the single "platform_config" row  *)
(* into a named, active profile, _migrate_global_settings_to_profile moves *)
(* every unscoped setting under the active profile.  Each access to the    *)
(* table commits by itself, so a process can die between any two of them.  *)
(* The skill and the Web UI both initialize the one database they share.   *)
(*                                                                         *)
(* Simplifications: one family of settings stands for the four prefixes,   *)
(* which the code goes through one after the other; what administrators do *)
(* once a process serves (ProfileStore has the details) is one step each.  *)
(***************************************************************************)
EXTENDS Naturals

CONSTANTS
  Migrators,    \* processes (or services within one) that initialize
  Profiles,     \* names of profiles
  Unconfigured, \* platform type of a legacy row that was never filled in
  Items,        \* settings of the family
  Absent,       \* no such row
  MaxCrashes,   \* bound on crashes
  MaxEdits      \* bound on what administrators do

ASSUME MigrationAssumption ==
  /\ Unconfigured \notin Profiles
  /\ Absent \notin Profiles \union {Unconfigured, "old", "user", "none"}
  /\ MaxCrashes \in Nat /\ MaxEdits \in Nat

VARIABLES
  legacyRow,   \* profile that row "platform_config" stands for, or Absent
  profileRow,  \* profileRow[p]: "old" from the legacy row, "user" if edited
  activeRow,   \* the active profile, or Absent
  global,      \* global[i]: value of the unscoped row of item i
  scoped,      \* scoped[p][i]: value of the row of item i scoped to p
  pc, local,   \* of each migrator
  spent        \* crashes and edits so far

vars == <<legacyRow, profileRow, activeRow, global, scoped, pc, local, spent>>

NoLocals == [legacy |-> Absent, active |-> Absent, todo |-> {},
             item |-> Absent, value |-> Absent]

\* "none" is the text "None", written when a row vanished before it was read.
Values == {"old", "user", "none", Absent}

Stages == {"down", "store", "activate", "drop_legacy", "read_active", "list",
           "item", "read_global", "write_scoped", "drop_global", "serving"}

Locals == [legacy : Profiles \union {Unconfigured, Absent},
           active : Profiles \union {Absent}, todo : SUBSET Items,
           item : Items \union {Absent}, value : {"old", "none", Absent}]

TypeOK ==
  /\ legacyRow \in Profiles \union {Unconfigured, Absent}
  /\ profileRow \in [Profiles -> {"old", "user", Absent}]
  /\ activeRow \in Profiles \union {Absent}
  /\ global \in [Items -> {"old", Absent}]
  /\ scoped \in [Profiles -> [Items -> Values]]
  /\ pc \in [Migrators -> Stages]
  /\ local \in [Migrators -> Locals]
  /\ spent \in [crashes : 0 .. MaxCrashes, edits : 0 .. MaxEdits]

\* An old database has no profiles; one of a newer version has no legacy row,
\* but may have settings scoped to its active profile.
Init ==
  /\ legacyRow \in Profiles \union {Unconfigured, Absent}
  /\ activeRow \in IF legacyRow = Absent THEN Profiles \union {Absent}
                   ELSE {Absent}
  /\ profileRow = [p \in Profiles |-> IF p = activeRow THEN "user" ELSE Absent]
  /\ global \in [Items -> {"old", Absent}]
  /\ \E I \in SUBSET Items :
       scoped = [p \in Profiles |-> [i \in Items |->
                   IF p = activeRow /\ i \in I THEN "user" ELSE Absent]]
  /\ pc = [m \in Migrators |-> "down"]
  /\ local = [m \in Migrators |-> NoLocals]
  /\ spent = [crashes |-> 0, edits |-> 0]

Goto(m, stage) == pc' = [pc EXCEPT ![m] = stage]

-----------------------------------------------------------------------------
(* _migrate_legacy_config                                                  *)

\* A mutant of ReadLegacy: an unconfigured row is migrated like the others.
ReadAnyLegacy(m) ==
  /\ pc[m] = "down"
  /\ local' = [local EXCEPT ![m] = [NoLocals EXCEPT !.legacy = legacyRow]]
  /\ Goto(m, IF legacyRow = Absent THEN "read_active" ELSE "store")
  /\ UNCHANGED <<legacyRow, profileRow, activeRow, global, scoped, spent>>

ReadLegacy(m) ==
  /\ pc[m] = "down"
  /\ local' = [local EXCEPT ![m] = [NoLocals EXCEPT !.legacy = legacyRow]]
  /\ Goto(m, CASE legacyRow = Absent -> "read_active"
               [] legacyRow = Unconfigured -> "drop_legacy"
               [] legacyRow \in Profiles -> "store")
  /\ UNCHANGED <<legacyRow, profileRow, activeRow, global, scoped, spent>>

StoreLegacy(m) ==
  /\ pc[m] = "store"
  /\ profileRow' = [profileRow EXCEPT ![local[m].legacy] = "old"]
  /\ Goto(m, "activate")
  /\ UNCHANGED <<legacyRow, activeRow, global, scoped, local, spent>>

ActivateLegacy(m) ==
  /\ pc[m] = "activate"
  /\ activeRow' = local[m].legacy
  /\ Goto(m, "drop_legacy")
  /\ UNCHANGED <<legacyRow, profileRow, global, scoped, local, spent>>

\* A mutant of DropLegacy: the row is kept.
KeepLegacy(m) ==
  /\ pc[m] = "drop_legacy"
  /\ Goto(m, "read_active")
  /\ UNCHANGED <<legacyRow, profileRow, activeRow, global, scoped, local, spent>>

DropLegacy(m) ==
  /\ pc[m] = "drop_legacy"
  /\ legacyRow' = Absent
  /\ Goto(m, "read_active")
  /\ UNCHANGED <<profileRow, activeRow, global, scoped, local, spent>>

-----------------------------------------------------------------------------
(* _migrate_global_settings_to_profile                                     *)

ReadActive(m) ==
  /\ pc[m] = "read_active"
  /\ local' = [local EXCEPT ![m].active = activeRow]
  /\ Goto(m, IF activeRow = Absent THEN "serving" ELSE "list")
  /\ UNCHANGED <<legacyRow, profileRow, activeRow, global, scoped, spent>>

ListGlobal(m) ==
  /\ pc[m] = "list"
  /\ local' = [local EXCEPT ![m].todo = {i \in Items : global[i] # Absent}]
  /\ Goto(m, "item")
  /\ UNCHANGED <<legacyRow, profileRow, activeRow, global, scoped, spent>>

\* A mutant of CheckScoped: a scoped row that exists is not noticed.
CheckNothing(m, i) ==
  /\ pc[m] = "item"
  /\ i \in local[m].todo
  /\ local' = [local EXCEPT ![m].item = i]
  /\ Goto(m, "read_global")
  /\ UNCHANGED <<legacyRow, profileRow, activeRow, global, scoped, spent>>

\* The next key of the listing; a scoped row that exists wins.
CheckScoped(m, i) ==
  /\ pc[m] = "item"
  /\ i \in local[m].todo
  /\ local' = [local EXCEPT ![m].item = i]
  /\ Goto(m, IF scoped[local[m].active][i] # Absent
             THEN "drop_global" ELSE "read_global")
  /\ UNCHANGED <<legacyRow, profileRow, activeRow, global, scoped, spent>>

\* get_setting returns None for a row that is gone, set_setting stores "None".
ReadGlobal(m) ==
  /\ pc[m] = "read_global"
  /\ local' = [local EXCEPT ![m].value =
                 IF global[local[m].item] = Absent THEN "none" ELSE "old"]
  /\ Goto(m, "write_scoped")
  /\ UNCHANGED <<legacyRow, profileRow, activeRow, global, scoped, spent>>

\* A mutant of WriteScoped and DropGlobal in the wrong order.
DropBeforeWrite(m) ==
  /\ pc[m] = "write_scoped"
  /\ global' = [global EXCEPT ![local[m].item] = Absent]
  /\ Goto(m, "drop_global")
  /\ UNCHANGED <<legacyRow, profileRow, activeRow, scoped, local, spent>>

WriteScoped(m) ==
  /\ pc[m] = "write_scoped"
  /\ scoped' = [scoped EXCEPT ![local[m].active][local[m].item] =
                  local[m].value]
  /\ Goto(m, "drop_global")
  /\ UNCHANGED <<legacyRow, profileRow, activeRow, global, local, spent>>

\* A mutant of DropGlobal: the listing is never used up.
DropGlobalAgain(m) ==
  /\ pc[m] = "drop_global"
  /\ global' = [global EXCEPT ![local[m].item] = Absent]
  /\ Goto(m, "item")
  /\ UNCHANGED <<legacyRow, profileRow, activeRow, scoped, local, spent>>

DropGlobal(m) ==
  /\ pc[m] = "drop_global"
  /\ global' = [global EXCEPT ![local[m].item] = Absent]
  /\ local' = [local EXCEPT ![m].todo = @ \ {local[m].item}]
  /\ Goto(m, "item")
  /\ UNCHANGED <<legacyRow, profileRow, activeRow, scoped, spent>>

Finish(m) ==
  /\ pc[m] = "item"
  /\ local[m].todo = {}
  /\ Goto(m, "serving")
  /\ UNCHANGED <<legacyRow, profileRow, activeRow, global, scoped, local, spent>>

-----------------------------------------------------------------------------
Crash(m) ==
  /\ spent.crashes < MaxCrashes
  /\ pc[m] # "down"
  /\ Goto(m, "down")
  /\ local' = [local EXCEPT ![m] = NoLocals]
  /\ spent' = [spent EXCEPT !.crashes = @ + 1]
  /\ UNCHANGED <<legacyRow, profileRow, activeRow, global, scoped>>

\* An administrator edits the active profile or one of its settings, or
\* switches to another profile, creating it if need be.
Edit ==
  /\ \E m \in Migrators : pc[m] = "serving"
  /\ spent.edits < MaxEdits
  /\ spent' = [spent EXCEPT !.edits = @ + 1]
  /\ \/ /\ activeRow # Absent
        /\ \E i \in Items : scoped' = [scoped EXCEPT ![activeRow][i] = "user"]
        /\ UNCHANGED <<profileRow, activeRow>>
     \/ \E p \in Profiles :
          /\ profileRow' = [profileRow EXCEPT ![p] = "user"]
          /\ activeRow' = p
          /\ UNCHANGED scoped
  /\ UNCHANGED <<legacyRow, global, pc, local>>

Migrate(m) ==
  \/ ReadLegacy(m) \/ StoreLegacy(m) \/ ActivateLegacy(m) \/ DropLegacy(m)
  \/ ReadActive(m) \/ ListGlobal(m) \/ (\E i \in Items : CheckScoped(m, i))
  \/ ReadGlobal(m) \/ WriteScoped(m) \/ DropGlobal(m) \/ Finish(m)

Next == (\E m \in Migrators : Migrate(m) \/ Crash(m)) \/ Edit

Spec == Init /\ [][Next]_vars

-----------------------------------------------------------------------------
Available(i) ==
  global[i] = "old" \/ \E p \in Profiles : scoped[p][i] \in {"old", "user"}

(***************************************************************************)
(* A setting the database has, in either form, stays available in one of   *)
(* them: not even a crash between writing the scoped row and deleting the  *)
(* unscoped one loses it.                                                  *)
(***************************************************************************)
ValuesKept == [][\A i \in Items : Available(i) => Available(i)']_vars

(***************************************************************************)
(* Migrating again never overwrites what an administrator has entered      *)
(* since ("Idempotent - safe to repeat", _migrate_legacy_config).          *)
(***************************************************************************)
EditsKept ==
  [][/\ \A p \in Profiles : profileRow[p] = "user" => profileRow'[p] = "user"
     /\ \A p \in Profiles, i \in Items :
          scoped[p][i] = "user" => scoped'[p][i] = "user"]_vars

(***************************************************************************)
(* A process that serves finds no legacy row, and no unscoped setting if a *)
(* profile was active when it looked: both migrations were complete,       *)
(* however often they were interrupted and whoever else was migrating.     *)
(***************************************************************************)
ServedMigrated ==
  \A m \in Migrators : pc[m] = "serving" =>
    /\ legacyRow = Absent
    /\ local[m].active # Absent => \A i \in Items : global[i] = Absent
=============================================================================
