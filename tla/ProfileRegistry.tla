--------------------------- MODULE ProfileRegistry ---------------------------
(***************************************************************************)
(* What the settings service promises to its callers about named profiles: *)
(* every call of ProfileMixin is one indivisible step.  ProfileStore is    *)
(* the same interface as the code implements it, one database transaction  *)
(* at a time, and is shown to implement this module for one caller.        *)
(***************************************************************************)

CONSTANTS
  Profiles,      \* names an administrator may give to a profile
  Configs,       \* platform configurations (type, URL, key), opaque here
  Kinds,         \* families of profile-scoped settings
  AutoName,      \* the profile that saving a configuration creates by itself
  Unconfigured,  \* the built-in profile, active when nothing else is
  Absent         \* "no such row"

VARIABLES
  profile,  \* profile[p]: the configuration stored for p, or Absent
  active,   \* the active profile
  scoped    \* the scoped settings that exist, as pairs <<kind, profile>>

vars == <<profile, active, scoped>>

Init ==
  /\ profile = [p \in Profiles |-> Absent]
  /\ active = Unconfigured
  /\ scoped = {}

Create(p, cfg) ==
  /\ profile[p] = Absent
  /\ profile' = [profile EXCEPT ![p] = cfg]
  /\ UNCHANGED <<active, scoped>>

Update(p, cfg) ==
  /\ profile[p] # Absent
  /\ profile' = [profile EXCEPT ![p] = cfg]
  /\ UNCHANGED <<active, scoped>>

\* Everything a profile owns disappears with it.
Delete(p) ==
  /\ profile[p] # Absent
  /\ profile' = [profile EXCEPT ![p] = Absent]
  /\ scoped' = {s \in scoped : s[2] # p}
  /\ active' = IF active = p THEN Unconfigured ELSE active

Activate(p) ==
  /\ profile[p] # Absent
  /\ active' = p
  /\ UNCHANGED <<profile, scoped>>

Deactivate ==
  /\ active' = Unconfigured
  /\ UNCHANGED <<profile, scoped>>

\* Saving "the" configuration goes to the active profile; without one, a
\* profile is created (or overwritten) and activated.
SaveConfig(cfg) ==
  LET p == IF active = Unconfigured THEN AutoName ELSE active
  IN  /\ profile' = [profile EXCEPT ![p] = cfg]
      /\ active' = p
      /\ UNCHANGED scoped

WriteScoped(k) ==
  /\ active # Unconfigured
  /\ scoped' = scoped \union {<<k, active>>}
  /\ UNCHANGED <<profile, active>>

Next ==
  \/ \E p \in Profiles, cfg \in Configs : Create(p, cfg) \/ Update(p, cfg)
  \/ \E p \in Profiles : Delete(p) \/ Activate(p)
  \/ Deactivate
  \/ \E cfg \in Configs : SaveConfig(cfg)
  \/ \E k \in Kinds : WriteScoped(k)

Spec == Init /\ [][Next]_vars
=============================================================================
