----------------------------- MODULE ProfileRaces -----------------------------
(***************************************************************************)
(* ProfileStore with its properties.  A history variable remembers the     *)
(* names whose deletion overlapped another call on the same name: the      *)
(* transactions of such calls interleave, and the store makes no promise   *)
(* about those names.  What it does promise is that the damage stays there.*)
(***************************************************************************)
EXTENDS ProfileStore

VARIABLE raced  \* history: names deleted while another call used them

hvars == <<vars, raced>>

DeleteStages == {"sweep_list", "sweep", "clear_active"}

Deleting(n) == {c \in Clients : pc[c] \in DeleteStages /\ call[c].p = n}

Using(n) == {c \in Clients : pc[c] # "idle" /\ call[c].p = n}

\* Names with a deletion and some other call in progress.
Overlapping ==
  {n \in Names : \E c \in Deleting(n), d \in Using(n) : c # d}

HInit == Init /\ raced = {}

HNext == Next /\ raced' = raced \union Overlapping'

HSpec == HInit /\ [][HNext]_hvars

AllIdle == \A c \in Clients : pc[c] = "idle"

HTypeOK ==
  /\ TypeOK
  /\ raced \subseteq Names
  /\ \A c \in Clients : (pc[c] = "idle") <=> (call[c] = NoCall)

-----------------------------------------------------------------------------
(***************************************************************************)
(* When no call is in progress the active profile exists ("If the deleted  *)
(* profile was active, falls back to unconfigured", delete_profile).       *)
(***************************************************************************)
ActiveExists ==
  AllIdle => ActiveName = Unconfigured \/ Exists(ActiveName)

(***************************************************************************)
(* ActiveExists for any number of callers: whatever interleaves, the       *)
(* active profile can only be one that does not exist if its own deletion  *)
(* overlapped another call on it.                                          *)
(***************************************************************************)
ActiveRaceContained ==
  AllIdle => \/ ActiveName = Unconfigured
             \/ Exists(ActiveName)
             \/ ActiveName \in raced

(***************************************************************************)
(* When no call is in progress, a setting of a swept family belongs to a   *)
(* profile that exists, unless that profile's deletion was raced: mappings *)
(* and emission factors of a deleted profile do not linger.                *)
(***************************************************************************)
OrphansRaceContained ==
  AllIdle => \A s \in scoped :
               s[1] \in SweptKinds => Exists(s[2]) \/ s[2] \in raced

(***************************************************************************)
(* A profile starts without settings: when the row of a name that was      *)
(* never raced appears, no swept setting of an earlier profile of that     *)
(* name is left for it to inherit.                                         *)
(***************************************************************************)
BornClean ==
  [][\A p \in Profiles \ raced' :
       profile[p] = Absent /\ profile'[p] # Absent =>
         \A k \in SweptKinds : <<k, p>> \notin scoped']_hvars

(***************************************************************************)
(* The same for every family of scoped settings, as the docstring of       *)
(* _delete_scoped_settings_for_profile has it ("Delete all profile-scoped  *)
(* settings for a given profile").                                         *)
(***************************************************************************)
BornEmpty ==
  [][\A p \in Profiles \ raced' :
       profile[p] = Absent /\ profile'[p] # Absent =>
         \A k \in Kinds : <<k, p>> \notin scoped']_hvars

(***************************************************************************)
(* Activating a profile makes it the active one ("Switch the active        *)
(* profile", set_active_profile): once the call of a single client returns *)
(* the active name is the one it gave.                                     *)
(***************************************************************************)
ActivationTakesEffect ==
  [][\A c \in Clients :
       pc[c] = "activate_store" /\ pc'[c] = "idle" =>
         ActiveName' = call[c].p]_hvars

-----------------------------------------------------------------------------
(***************************************************************************)
(* With one client every call is atomic.  A deletion counts as done when   *)
(* the row is gone, saving without an active profile when the new row is   *)
(* written; of the scoped settings the swept families are compared.        *)
(***************************************************************************)
SomeCall(stages) == {c \in Clients : pc[c] \in stages}

AbstractActive ==
  IF \E c \in SomeCall(DeleteStages) : call[c].p = ActiveName
  THEN Unconfigured
  ELSE IF \E c \in Clients : call[c] # NoCall /\ call[c].auto
                             /\ pc[c] \in {"activate_check", "activate_store"}
       THEN AutoName
       ELSE ActiveName

AbstractScoped ==
  {s \in scoped : /\ s[1] \in SweptKinds
                  /\ \A c \in SomeCall(DeleteStages) : s[2] # call[c].p}

Registry == INSTANCE ProfileRegistry
              WITH active <- AbstractActive, scoped <- AbstractScoped,
                   Kinds <- SweptKinds

\* One client's calls are the atomic operations of ProfileRegistry.
ImplementsRegistry == Registry!Spec
=============================================================================
