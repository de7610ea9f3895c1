----------------------------- MODULE TypedSettings ----------------------------
(***************************************************************************)
(* The typed settings above the store of keys (services/settings.py):      *)
(* families of settings that belong to the active profile, global ones     *)
(* with a default to fall back on, and the lists that are read key by key. *)
(*                                                                         *)
(* A row is its value, or None where the key is absent.  What a validation *)
(* refuses, and any write without a profile, changes nothing.  How the     *)
(* rows of a deleted profile are swept is in ProfileStore.                 *)
(***************************************************************************)
EXTENDS Integers, FiniteSets

CONSTANTS
    Profiles, Unconfigured,
    Readers,            \* requests that list a family
    Sources,            \* energy sources; of these
    National,           \* those with a default factor
    Factors,            \* values of factors, whole and positive
    Metrics, Scopes,    \* of objectives: a metric, and an asset or "all"
    Objectives,         \* an objective, as a value
    EnvVoice,           \* url, key and secret of the environment, "" if unset
    Encrypted,          \* HIVEMIND_BROWSER_ENCRYPTION_ENABLED
    VoiceConfigs,       \* what the voice page may save
    Sensitivities,      \* thresholds of alerts and of queries
    MaxWrites           \* bound: how many writes there are

VARIABLES
    active, preferred,  \* the profile, and the energy source its platform prefers
    factor, objective,  \* per profile: the rows of two families
    alert, threshold,   \* the alerts' sensitivity, and the queries' own
    voice,              \* the saved voice rows
    reader,             \* a list under way: whose, of what, what it has; history:
                        \* whether a switch overtook it, the rows there were since
    writes

vars == <<active, preferred, factor, objective, alert, threshold, voice, reader, writes>>

None == 0
Items(family) == IF family = "factor" THEN Sources ELSE Metrics \X Scopes
Resting == [pc |-> "idle", family |-> "factor", of |-> Unconfigured, keys |-> {}, got |-> {}, moved |-> FALSE, held |-> {}]

Init ==
    /\ active \in Profiles \cup {Unconfigured}
    /\ preferred \in Sources \cup {"", "steam"}
    /\ factor = [p \in Profiles |-> [s \in Sources |-> None]]
    /\ objective = [p \in Profiles |-> [x \in Metrics \X Scopes |-> None]]
    /\ alert = None /\ threshold = None
    /\ voice = [url |-> "", key |-> "", crypto |-> ""]
    /\ reader = [r \in Readers |-> Resting]
    /\ writes = 0

Rows(family, p) == IF family = "factor" THEN factor[p] ELSE objective[p]

----------------------------------------------------------------------------
(* What a reader of the settings is given.                                 *)

EmissionFactor(source) ==
    IF active = Unconfigured THEN IF source \in National THEN 1 ELSE None
    ELSE IF source \in Sources THEN factor[active][source] ELSE None

\* A source without a factor of its own has the national default, or none.
EffectiveFactor(source) ==
    IF EmissionFactor(source) # None THEN EmissionFactor(source) ELSE IF source \in National THEN 1 ELSE 0

Listed == {s \in Sources : EmissionFactor(s) # None}

\* A mutant of PrimarySource: the platform's preference is not looked up.
PrimarySourceAsPreferred ==
    IF preferred # "" THEN preferred
    ELSE IF Cardinality(Listed) = 1 THEN CHOOSE s \in Listed : TRUE
    ELSE IF "electricity" \in Listed \/ Listed = {} THEN "electricity" ELSE CHOOSE s \in Listed : TRUE

\* The platform's preference if it has a factor, else the only one, else
\* electricity, else the first.
PrimarySource ==
    IF preferred \in Listed THEN preferred
    ELSE IF Cardinality(Listed) = 1 THEN CHOOSE s \in Listed : TRUE
    ELSE IF "electricity" \in Listed \/ Listed = {} THEN "electricity" ELSE CHOOSE s \in Listed : TRUE

\* The asset's objective, else that of all assets.
KpiObjective(metric, asset) ==
    IF active = Unconfigured THEN None
    ELSE IF asset \in Scopes /\ objective[active][<<metric, asset>>] # None THEN objective[active][<<metric, asset>>]
    ELSE objective[active][<<metric, "all">>]

\* Queries have a sensitivity of their own, else that of the alerts, else 20 (2.0).
AlertThreshold == IF alert = None THEN 20 ELSE alert
QueryThreshold == IF threshold = None THEN AlertThreshold ELSE threshold

Either(saved, env) == IF saved # "" THEN saved ELSE env

\* A saved row that is empty gives way to the environment; the crypto key is the
\* secret, and the legacy secret of the environment where there is none.
VoiceConfig ==
    [url |-> Either(voice.url, EnvVoice.url), key |-> Either(voice.key, EnvVoice.key),
     secret |-> IF Encrypted THEN Either(voice.crypto, EnvVoice.secret) ELSE ""]

----------------------------------------------------------------------------
(* Writes.                                                                 *)

Write == writes < MaxWrites /\ writes' = writes + 1

Noted(family, item, value) ==
    [r \in Readers |-> IF reader[r].family = family /\ reader[r].of = active
                       THEN [reader[r] EXCEPT !.held = @ \cup {<<item, value>>}] ELSE reader[r]]

\* set_emission_factor, delete_emission_factor: None stands for a deletion.
PutFactor(source, value) ==
    /\ active # Unconfigured /\ Write
    /\ factor' = [factor EXCEPT ![active][source] = value]
    /\ reader' = Noted("factor", source, value)
    /\ UNCHANGED <<active, preferred, objective, alert, threshold, voice>>

PutObjective(metric, scope, value) ==
    /\ active # Unconfigured /\ Write
    /\ objective' = [objective EXCEPT ![active][<<metric, scope>>] = value]
    /\ reader' = Noted("objective", <<metric, scope>>, value)
    /\ UNCHANGED <<active, preferred, factor, alert, threshold, voice>>

\* The first save of the alerts' sensitivity is also the queries'.
SaveAlertConfig(z) ==
    /\ Write
    /\ alert' = z
    /\ threshold' = IF threshold = None THEN z ELSE threshold
    /\ UNCHANGED <<active, preferred, factor, objective, voice, reader>>

SetQueryThreshold(z) ==
    /\ Write
    /\ threshold' = z
    /\ UNCHANGED <<active, preferred, factor, objective, alert, voice, reader>>

\* The page does not know the secret: an empty one keeps what is saved.
UpdateVoiceConfig(config) ==
    /\ Write
    /\ voice' = [url |-> config.url, key |-> config.key, crypto |-> Either(config.secret, voice.crypto)]
    /\ UNCHANGED <<active, preferred, factor, objective, alert, threshold, reader>>

Switch(p) ==
    /\ p # active
    /\ active' = p
    /\ reader' = [r \in Readers |-> [reader[r] EXCEPT !.moved = TRUE]]
    /\ UNCHANGED <<preferred, factor, objective, alert, threshold, voice, writes>>

----------------------------------------------------------------------------
(* Lists: all keys first, then row after row in transactions of their own. *)

BeginList(r, family) ==
    /\ reader[r].pc = "idle" /\ active # Unconfigured
    /\ reader' = [reader EXCEPT ![r] =
          [Resting EXCEPT !.pc = "rows", !.family = family, !.of = active,
                          !.keys = {i \in Items(family) : Rows(family, active)[i] # None},
                          !.held = {<<i, Rows(family, active)[i]>> : i \in Items(family)}]]
    /\ UNCHANGED <<active, preferred, factor, objective, alert, threshold, voice, writes>>

\* A mutant of Row: a factor that is gone is listed.
RowAsIs(r, item) ==
    IF reader[r].family = "factor" THEN {<<item, EmissionFactor(item)>>} ELSE {<<item, objective[reader[r].of][item]>>}

\* A factor is read anew for the profile that is active by now, and left out if it
\* is gone; an objective by its key, and listed empty if it is gone.
Row(r, item) ==
    IF reader[r].family = "factor"
    THEN IF EmissionFactor(item) = None THEN {} ELSE {<<item, EmissionFactor(item)>>}
    ELSE {<<item, objective[reader[r].of][item]>>}

ReadRow(r, item) ==
    /\ reader[r].pc = "rows" /\ item \in reader[r].keys
    /\ reader' = [reader EXCEPT ![r].keys = @ \ {item}, ![r].got = @ \cup Row(r, item)]
    /\ UNCHANGED <<active, preferred, factor, objective, alert, threshold, voice, writes>>

EndList(r) ==
    /\ reader[r].pc = "rows" /\ reader[r].keys = {}
    /\ reader' = [reader EXCEPT ![r] = Resting]
    /\ UNCHANGED <<active, preferred, factor, objective, alert, threshold, voice, writes>>

Next ==
    \/ \E s \in Sources : \E value \in Factors \cup {None} : PutFactor(s, value)
    \/ \E m \in Metrics : \E s \in Scopes : \E value \in Objectives \cup {None} : PutObjective(m, s, value)
    \/ \E z \in Sensitivities : SaveAlertConfig(z) \/ SetQueryThreshold(z)
    \/ \E config \in VoiceConfigs : UpdateVoiceConfig(config)
    \/ \E p \in Profiles \cup {Unconfigured} : Switch(p)
    \/ \E r \in Readers :
          \/ \E family \in {"factor", "objective"} : BeginList(r, family)
          \/ \E item \in reader[r].keys : ReadRow(r, item)
          \/ EndList(r)

Spec == Init /\ [][Next]_vars

----------------------------------------------------------------------------

\* Whatever was saved, deleted and switched, CO2 is derived with a factor above
\* zero (settings.py:759-772), an asset with an objective for all assets has one
\* (1226-1243), and a bridge that the environment can open is never locked out by
\* what the voice page saves (1076-1078).
FallbacksServe ==
    /\ EffectiveFactor(PrimarySource) > 0
    /\ active # Unconfigured =>
          \A m \in Metrics : objective[active][<<m, "all">>] # None =>
             \A s \in Scopes \cup {""} : KpiObjective(m, s) # None
    /\ QueryThreshold > 0
    /\ VoiceConfig.url # "" /\ (EnvVoice.key # "" => VoiceConfig.key # "")
    /\ Encrypted /\ (EnvVoice.secret # "" \/ voice.crypto # "") => VoiceConfig.secret # ""

\* A list that no switch overtook has only rows that its profile had while it was
\* read, and none without a value but of a family that is read by its keys and of
\* a row deleted meanwhile (settings.py:733-757, 1245-1260).
ListsAreReal ==
    \A r \in Readers : \A row \in reader[r].got :
        /\ row[2] = None => reader[r].family # "factor"
        /\ (reader[r].family = "objective" \/ ~reader[r].moved) => row \in reader[r].held
=============================================================================
