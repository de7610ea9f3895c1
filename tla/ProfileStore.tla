----------------------------- MODULE ProfileStore -----------------------------
(***************************************************************************)
(* skill/services/profiles.py (ProfileMixin) over the key/value table of   *)
(* skill/services/settings.py.  Every access to the table opens its own    *)
(* session and commits before it returns, so each is one step here, and a  *)
(* call of the mixin is a sequence of such steps, kept in pc and call.     *)
(* Clients are the threads that hold a SettingsService: the Web UI's       *)
(* request threads and the skill's handlers.                               *)
(*                                                                         *)
(* A refused call (a ValidationError raised by an existence check) changes *)
(* nothing and is not a step.                                              *)
(***************************************************************************)
EXTENDS FiniteSets

CONSTANTS
  Profiles,      \* valid custom names (the name pattern excludes no others)
  Configs,       \* platform configurations
  Kinds,         \* families of scoped keys, "<kind>:<profile>:<item>"
  SweptKinds,    \* the families delete_profile removes
  Clients,       \* threads that call the service
  AutoName,      \* name derived from the platform type of a saved config
  Unconfigured,  \* DEFAULT_PROFILE
  Mangled,       \* a name no profile can have, see ReadBack
  ReadBack,      \* what get_setting returns for a stored active name
  Absent,        \* no such row
  NoCall         \* call[c] of an idle client

Names == Profiles \union {Mangled}

Calls ==
  [p : Names, cfg : Configs \union {Absent}, auto : BOOLEAN,
   kind : Kinds \union {Absent}, sweep : SUBSET SweptKinds]

ASSUME StoreAssumption ==
  /\ SweptKinds \subseteq Kinds
  /\ AutoName \in Profiles
  /\ ReadBack \in [Profiles -> Names \union {Unconfigured}]
  /\ Unconfigured \notin Names
  /\ Mangled \notin Profiles
  /\ Absent \notin Configs \union Names \union {Unconfigured}
  /\ NoCall \notin Calls

VARIABLES
  profile,    \* profile[p]: value of row "platform_config:<p>", or Absent
  activeRow,  \* value of row "active_profile", or Absent
  scoped,     \* rows "<kind>:<name>:...", as pairs <<kind, name>>
  pc,         \* pc[c]: the transaction client c commits next
  call        \* call[c]: the locals of c's call in progress

vars == <<profile, activeRow, scoped, pc, call>>

Locals(p, cfg, auto, kind) ==
  [p |-> p, cfg |-> cfg, auto |-> auto, kind |-> kind, sweep |-> {}]

Stages == {"idle", "store", "sweep_list", "sweep", "clear_active",
           "activate_check", "activate_store",
           "save_check", "auto_lookup", "auto_create", "auto_update",
           "scoped_write"}

TypeOK ==
  /\ profile \in [Profiles -> Configs \union {Absent}]
  /\ activeRow \in Profiles \union {Absent}
  /\ scoped \subseteq Kinds \X Names
  /\ pc \in [Clients -> Stages]
  /\ call \in [Clients -> Calls \union {NoCall}]

Exists(n) == n \in Profiles /\ profile[n] # Absent

(***************************************************************************)
(* set_setting stores str(name) and get_setting decodes it as JSON: a name *)
(* that is a JSON literal comes back as another value ("null" and "false"  *)
(* as nothing, "true" and "1e5" as a name no profile has).                 *)
(***************************************************************************)
ActiveName == IF activeRow = Absent THEN Unconfigured ELSE ReadBack[activeRow]

Init ==
  /\ profile = [p \in Profiles |-> Absent]
  /\ activeRow = Absent
  /\ scoped = {}
  /\ pc = [c \in Clients |-> "idle"]
  /\ call = [c \in Clients |-> NoCall]

Goto(c, stage) == pc' = [pc EXCEPT ![c] = stage]

Start(c, stage, locals) ==
  /\ pc[c] = "idle"
  /\ Goto(c, stage)
  /\ call' = [call EXCEPT ![c] = locals]

Return(c) ==
  /\ Goto(c, "idle")
  /\ call' = [call EXCEPT ![c] = NoCall]

RowsUnchanged == UNCHANGED <<profile, activeRow, scoped>>

-----------------------------------------------------------------------------
\* create_profile and update_profile: an existence check, then the upsert.
CreateProfile(c, p, cfg) ==
  /\ ~Exists(p)
  /\ Start(c, "store", Locals(p, cfg, FALSE, Absent))
  /\ RowsUnchanged

UpdateProfile(c, p, cfg) ==
  /\ Exists(p)
  /\ Start(c, "store", Locals(p, cfg, FALSE, Absent))
  /\ RowsUnchanged

\* _upsert_profile; a call that came from _auto_create_from_config goes on
\* to activate the profile.
StoreProfile(c) ==
  /\ pc[c] = "store"
  /\ profile' = [profile EXCEPT ![call[c].p] = call[c].cfg]
  /\ IF call[c].auto
     THEN Goto(c, "activate_check") /\ UNCHANGED call
     ELSE Return(c)
  /\ UNCHANGED <<activeRow, scoped>>

-----------------------------------------------------------------------------
\* A mutant of DeleteRow: the scoped rows are not looked for.
DeleteRowOnly(c, p) ==
  /\ Exists(p)
  /\ Start(c, "sweep", Locals(p, Absent, FALSE, Absent))
  /\ profile' = [profile EXCEPT ![p] = Absent]
  /\ UNCHANGED <<activeRow, scoped>>

\* delete_profile: the row, then the scoped rows, then the active name.
DeleteRow(c, p) ==
  /\ Exists(p)
  /\ Start(c, "sweep_list", Locals(p, Absent, FALSE, Absent))
  /\ profile' = [profile EXCEPT ![p] = Absent]
  /\ UNCHANGED <<activeRow, scoped>>

\* A mutant of ListScoped: the families are taken for those of every name
\* but the deleted one.
ListScopedOthers(c) ==
  /\ pc[c] = "sweep_list"
  /\ call' = [call EXCEPT ![c].sweep =
                {k \in SweptKinds : \A p \in Profiles :
                   <<k, p>> \in scoped => p # call[c].p}]
  /\ Goto(c, "sweep")
  /\ RowsUnchanged

\* _delete_scoped_settings_for_profile lists the keys once, ...
ListScoped(c) ==
  /\ pc[c] = "sweep_list"
  /\ call' = [call EXCEPT ![c].sweep =
                {k \in SweptKinds : <<k, call[c].p>> \in scoped}]
  /\ Goto(c, "sweep")
  /\ RowsUnchanged

\* ... then deletes them one transaction at a time.
DeleteScoped(c, k) ==
  /\ pc[c] = "sweep"
  /\ k \in call[c].sweep
  /\ scoped' = scoped \ {<<k, call[c].p>>}
  /\ call' = [call EXCEPT ![c].sweep = @ \ {k}]
  /\ UNCHANGED <<profile, activeRow, pc>>

\* A mutant of ReadActiveAfterDelete: the active name is left as it is.
ReturnAfterSweep(c) ==
  /\ pc[c] = "sweep"
  /\ call[c].sweep = {}
  /\ Return(c)
  /\ RowsUnchanged

ReadActiveAfterDelete(c) ==
  /\ pc[c] = "sweep"
  /\ call[c].sweep = {}
  /\ IF ActiveName = call[c].p
     THEN Goto(c, "clear_active") /\ UNCHANGED call
     ELSE Return(c)
  /\ RowsUnchanged

ClearActive(c) ==
  /\ pc[c] = "clear_active"
  /\ activeRow' = Absent
  /\ Return(c)
  /\ UNCHANGED <<profile, scoped>>

-----------------------------------------------------------------------------
\* set_active_profile: for the built-in profile one delete, otherwise an
\* existence check and a write.
SetActiveUnconfigured(c) ==
  /\ pc[c] = "idle"
  /\ activeRow' = Absent
  /\ UNCHANGED <<profile, scoped, pc, call>>

\* A mutant of SetActive: the profile need not exist.
SetActiveUnchecked(c, p) ==
  /\ Start(c, "activate_store", Locals(p, Absent, FALSE, Absent))
  /\ RowsUnchanged

SetActive(c, p) ==
  /\ Exists(p)
  /\ Start(c, "activate_store", Locals(p, Absent, FALSE, Absent))
  /\ RowsUnchanged

AutoActivateCheck(c) ==
  /\ pc[c] = "activate_check"
  /\ IF Exists(call[c].p)
     THEN Goto(c, "activate_store") /\ UNCHANGED call
     ELSE Return(c)
  /\ RowsUnchanged

StoreActive(c) ==
  /\ pc[c] = "activate_store"
  /\ activeRow' = call[c].p
  /\ Return(c)
  /\ UNCHANGED <<profile, scoped>>

-----------------------------------------------------------------------------
\* update_platform_config: save to the active profile, or create one.
SaveConfig(c, cfg) ==
  /\ IF ActiveName = Unconfigured
     THEN Start(c, "auto_lookup",
                Locals(AutoName, cfg, TRUE, Absent))
     ELSE Start(c, "save_check", Locals(ActiveName, cfg, FALSE, Absent))
  /\ RowsUnchanged

\* _auto_create_from_config looks the name up to choose between create and
\* update, which check again.
AutoLookup(c) ==
  /\ pc[c] = "auto_lookup"
  /\ Goto(c, IF Exists(call[c].p) THEN "auto_update" ELSE "auto_create")
  /\ UNCHANGED call
  /\ RowsUnchanged

SaveCheck(c) ==
  /\ \/ pc[c] \in {"save_check", "auto_update"} /\ Exists(call[c].p)
     \/ pc[c] = "auto_create" /\ ~Exists(call[c].p)
  /\ Goto(c, "store")
  /\ UNCHANGED call
  /\ RowsUnchanged

SaveRefused(c) ==
  /\ \/ pc[c] \in {"save_check", "auto_update"} /\ ~Exists(call[c].p)
     \/ pc[c] = "auto_create" /\ Exists(call[c].p)
  /\ Return(c)
  /\ RowsUnchanged

-----------------------------------------------------------------------------
\* set_metric_mapping, set_intent_active, set_emission_factor, ...: build the
\* key from the active name, then write it.
BeginScopedWrite(c, k) ==
  /\ ActiveName # Unconfigured
  /\ Start(c, "scoped_write", Locals(ActiveName, Absent, FALSE, k))
  /\ RowsUnchanged

WriteScoped(c) ==
  /\ pc[c] = "scoped_write"
  /\ scoped' = scoped \union {<<call[c].kind, call[c].p>>}
  /\ Return(c)
  /\ UNCHANGED <<profile, activeRow>>

-----------------------------------------------------------------------------
Next ==
  \E c \in Clients :
    \/ \E p \in Profiles, cfg \in Configs :
         CreateProfile(c, p, cfg) \/ UpdateProfile(c, p, cfg)
    \/ \E p \in Profiles : DeleteRow(c, p) \/ SetActive(c, p)
    \/ \E cfg \in Configs : SaveConfig(c, cfg)
    \/ \E k \in Kinds : BeginScopedWrite(c, k) \/ DeleteScoped(c, k)
    \/ StoreProfile(c)
    \/ ListScoped(c)
    \/ ReadActiveAfterDelete(c)
    \/ ClearActive(c)
    \/ SetActiveUnconfigured(c)
    \/ AutoActivateCheck(c)
    \/ StoreActive(c)
    \/ AutoLookup(c)
    \/ SaveCheck(c)
    \/ SaveRefused(c)
    \/ WriteScoped(c)

Spec == Init /\ [][Next]_vars
=============================================================================
