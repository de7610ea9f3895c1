----------------------------- MODULE StatusCaches -----------------------------
(***************************************************************************)
(* The status page of the Web UI and what it remembers of the platform and *)
(* of PREVENTION (web-ui/routers/status.py), while profiles are edited,    *)
(* activated and reset (routers/config.py, routers/profiles.py).           *)
(*                                                                         *)
(* The requests run on one event loop and give way to each other where     *)
(* they wait for a platform; an editor of profiles in another thread comes *)
(* between those steps.  A failed check is remembered like a good one.     *)
(***************************************************************************)
EXTENDS Naturals, TLC

CONSTANTS
    Profiles, Unconfigured,
    Keys,           \* what a configuration has in the key of the memory: type, URL, authentication
    Details,        \* and what it has not
    Checkers,       \* requests for the status
    Editors,        \* requests that save, activate or reset
    None, Ttl,
    MaxTime, MaxEdits, MaxAsks  \* bounds

VARIABLES
    active, config, \* the active profile and the configuration of each, None of one that does not exist
    source,         \* the configuration of PREVENTION
    live, analytics,            \* what is remembered of the platform and of PREVENTION
    check, edit,    \* per request where it is
    now, used,
    dirty,          \* history: the profiles edited by name, or created, since the last drop
    past            \* history: what the active profile was and how it was configured, at each time

kept == <<active, config, source, live, analytics, check, edit, now, used, dirty>>
vars == <<kept, past>>

Config == [key : Keys, rest : Details]
Idle == [pc |-> "idle"]
Current == IF active = Unconfigured THEN None ELSE [profile |-> active, config |-> config[active]]

Init ==
    /\ config \in [Profiles -> Config \cup {None}]
    /\ active \in {Unconfigured} \cup {p \in Profiles : config[p] # None}
    /\ source \in {CHOOSE c \in Config : TRUE}
    /\ live = [k \in (Profiles \cup {Unconfigured}) \X Keys |-> None] /\ analytics = [k \in Keys |-> None]
    /\ check = [c \in Checkers |-> Idle] /\ edit = [e \in Editors |-> Idle]
    /\ now = 0 /\ used = [edits |-> 0, asks |-> 0] /\ dirty = {}
    /\ past = {<<now, Current>>}

----------------------------------------------------------------------------
(* The status.  `crossed` is history: something changed under the request, *)
(* or under the one whose observation it was given.                        *)

\* A mutant of Kept: what is remembered never expires.
KeptForGood(memory, key) == memory[key] # None

Kept(memory, key) == memory[key] # None /\ memory[key].until > now

Editing == active \in dirty \/ \E e \in Editors : edit[e].pc # "idle"

\* The platform's part: the key has the name that was active when the request
\* came and the configuration of now; the adapter is the one of now.
Connection(r) ==
    LET key == <<r.label, config[active].key>> IN
    IF active = Unconfigured THEN [r EXCEPT !.pc = "done", !.of = None, !.at = now]
    ELSE IF Kept(live, key)
    THEN [r EXCEPT !.pc = "done", !.of = live[key].of, !.at = now, !.crossed = @ \/ live[key].crossed]
    ELSE [r EXCEPT !.pc = "test", !.of = Current, !.key = key, !.at = now]

Ask(c) ==
    LET r == [pc |-> "probe", label |-> active, of |-> None, key |-> None, at |-> now, seen |-> source,
              truth |-> Current, crossed |-> Editing] IN
    /\ check[c].pc \in {"idle", "done"} /\ used.asks < MaxAsks
    /\ used' = [used EXCEPT !.asks = @ + 1]
    /\ check' = [check EXCEPT ![c] = IF Kept(analytics, source.key) THEN Connection(r) ELSE r]
    /\ UNCHANGED <<active, config, source, live, analytics, edit, now, dirty>>

\* The time of an observation is that of its question.
Probed(c) ==
    /\ check[c].pc = "probe"
    /\ analytics' = [analytics EXCEPT ![check[c].seen.key] = [until |-> check[c].at + Ttl]]
    /\ check' = [check EXCEPT ![c] = Connection(@)]
    /\ UNCHANGED <<active, config, source, live, edit, now, used, dirty>>

Tested(c) ==
    /\ check[c].pc = "test"
    /\ live' = [live EXCEPT ![check[c].key] =
                   [until |-> check[c].at + Ttl, of |-> check[c].of, crossed |-> check[c].crossed]]
    /\ check' = [check EXCEPT ![c].pc = "done"]
    /\ UNCHANGED <<active, config, source, analytics, edit, now, used, dirty>>

----------------------------------------------------------------------------
(* The editors.                                                            *)

Crossed == [c \in Checkers |-> IF check[c].pc \in {"probe", "test"} THEN [check[c] EXCEPT !.crossed = TRUE] ELSE check[c]]

Begin(e, next) ==
    /\ edit[e].pc = "idle" /\ used.edits < MaxEdits
    /\ used' = [used EXCEPT !.edits = @ + 1]
    /\ edit' = [edit EXCEPT ![e] = next]
    /\ check' = Crossed
    /\ UNCHANGED <<source, live, analytics, now, dirty>>

\* POST /config/platform; with no profile one is created and activated.
Save(e, p, c) ==
    /\ active \in {p, Unconfigured}
    /\ Begin(e, [pc |-> "reload", kind |-> "save", old |-> active])
    /\ config' = [config EXCEPT ![p] = c]
    /\ active' = p

\* DELETE /config/platform deletes the active profile.
Reset(e) ==
    /\ Begin(e, [pc |-> "reload", kind |-> "reset", old |-> active])
    /\ active' = Unconfigured
    /\ config' = [p \in Profiles |-> IF p = active THEN None ELSE config[p]]

\* POST /config/profiles/{name}/activate; "unconfigured" is always there.
Activate(e, p) ==
    /\ p # Unconfigured => config[p] # None
    /\ Begin(e, [pc |-> "reload", kind |-> "activate", old |-> active])
    /\ active' = p
    /\ UNCHANGED config

\* A mutant of Drop: what is remembered stays.
DropNothing(e) ==
    /\ edit[e].pc = "reload"
    /\ edit' = [edit EXCEPT ![e] = Idle] /\ check' = Crossed /\ dirty' = {}
    /\ UNCHANGED <<active, config, source, live, analytics, now, used>>

\* After the reload the observations of platforms are dropped, not those of PREVENTION.
Drop(e) ==
    /\ edit[e].pc = "reload"
    /\ live' = [k \in DOMAIN live |-> None]
    /\ edit' = [edit EXCEPT ![e] = Idle] /\ check' = Crossed /\ dirty' = {}
    /\ UNCHANGED <<active, config, source, analytics, now, used>>

\* An activation whose reload fails is rolled back, to a profile that is still there, and nothing is dropped.
RollBack(e) ==
    /\ edit[e].pc = "reload" /\ edit[e].kind = "activate"
    /\ active' = IF edit[e].old = Unconfigured \/ config[edit[e].old] # None THEN edit[e].old ELSE active
    /\ edit' = [edit EXCEPT ![e] = Idle] /\ check' = Crossed
    /\ UNCHANGED <<config, source, live, analytics, now, used, dirty>>

\* The reload of a reset may fail, and then the request does: nothing is dropped.
FailReset(e) ==
    /\ edit[e].pc = "reload" /\ edit[e].kind = "reset"
    /\ edit' = [edit EXCEPT ![e] = Idle] /\ check' = Crossed
    /\ UNCHANGED <<active, config, source, live, analytics, now, used, dirty>>

\* PUT /config/profiles/{name} changes a profile, the active one too, and drops nothing.
Update(p, c) ==
    /\ config[p] # None /\ used.edits < MaxEdits
    /\ used' = [used EXCEPT !.edits = @ + 1]
    /\ config' = [config EXCEPT ![p] = c]
    /\ check' = IF p = active THEN Crossed ELSE check
    /\ dirty' = dirty \cup {p}
    /\ UNCHANGED <<active, source, live, analytics, edit, now>>

\* POST /config/profiles.
Create(p, c) ==
    /\ config[p] = None /\ used.edits < MaxEdits
    /\ used' = [used EXCEPT !.edits = @ + 1]
    /\ config' = [config EXCEPT ![p] = c]
    /\ dirty' = dirty \cup {p}
    /\ UNCHANGED <<active, source, live, analytics, check, edit, now>>

\* DELETE /config/profiles/{name} drops nothing and reloads nothing either.
Delete(p) ==
    /\ config[p] # None /\ used.edits < MaxEdits
    /\ used' = [used EXCEPT !.edits = @ + 1]
    /\ config' = [config EXCEPT ![p] = None]
    /\ active' = IF active = p THEN Unconfigured ELSE active
    /\ check' = IF p = active THEN Crossed ELSE check
    /\ UNCHANGED <<source, live, analytics, edit, now, dirty>>

\* POST /config/prevention.
UpdatePrevention(c) ==
    /\ used.edits < MaxEdits
    /\ used' = [used EXCEPT !.edits = @ + 1]
    /\ source' = c
    /\ UNCHANGED <<active, config, live, analytics, check, edit, now, dirty>>

Tick ==
    /\ now < MaxTime
    /\ now' = now + 1
    /\ UNCHANGED <<active, config, source, live, analytics, check, edit, used, dirty>>

Step ==
    \/ \E c \in Checkers : Ask(c) \/ Probed(c) \/ Tested(c)
    \/ \E e \in Editors :
          \/ Reset(e) \/ Drop(e) \/ RollBack(e) \/ FailReset(e)
          \/ \E p \in Profiles \cup {Unconfigured} : Activate(e, p)
          \/ \E p \in Profiles, c \in Config : Save(e, p, c)
    \/ \E p \in Profiles : Delete(p) \/ \E c \in Config : Update(p, c) \/ Create(p, c)
    \/ \E c \in Config : UpdatePrevention(c)
    \/ Tick

Next == Step /\ past' = past \cup {<<now, Current>>'}

Spec == Init /\ [][Next]_vars

----------------------------------------------------------------------------

(***************************************************************************)
(* Whatever overtakes a request, and whatever was edited without a drop:   *)
(* the platform a status tells of was the active one, so configured, when  *)
(* the request looked, or less than the life of an observation before      *)
(* (status.py:27, _LIVE_STATUS_TTL_SECONDS).  A platform that was replaced *)
(* during a slow test, or edited by its name, is not shown for longer.     *)
(***************************************************************************)
StatusIsRecent ==
    \A c \in Checkers : check[c].pc = "done" =>
        \E seen \in past :
            /\ seen[2] = check[c].of
            /\ seen[1] = check[c].at \/ (seen[1] < check[c].at /\ check[c].at < seen[1] + Ttl)

(***************************************************************************)
(* A status that nothing changed under tells of the platform of the active *)
(* profile as it is configured: what was remembered of an earlier          *)
(* configuration with the same key, of a profile of the same name or of an *)
(* activation that was rolled back is not told, unless it was observed     *)
(* across a change, or the profile was edited by its name, or created, and *)
(* nothing dropped since; StatusIsRecent bounds what is told then          *)
(* (status.py:37, "Drop cached status observations after a                 *)
(* profile/configuration change").                                         *)
(***************************************************************************)
StatusIsCurrent ==
    \A c \in Checkers : (check[c].pc = "done" /\ ~check[c].crossed) => check[c].of = check[c].truth
=============================================================================
