----------------------------- MODULE AssetRegistry ----------------------------
(***************************************************************************)
(* The assets of a profile and what each is linked to, as the routes of    *)
(* web-ui/routers/assets.py edit them: the whole map of a profile is read, *)
(* changed and written back, and the active profile is looked up anew by   *)
(* the reading and by the writing.  The summary of the wizard is a reading *)
(* request that writes: it heals what a discovery of some seconds brings.  *)
(*                                                                         *)
(* An entry is what its mapping tells: the metrics linked to a resource,   *)
(* the native binding of the energy metric, its mode and where it comes    *)
(* from ("" is neither set).  A payload that is refused changes nothing.   *)
(***************************************************************************)
EXTENDS Integers

CONSTANTS
    Requests,
    Profiles, Unconfigured,
    Assets,         \* identifiers of assets
    Meters,         \* those a platform discovers, with the identifier of a meter
    Metrics,        \* canonical metrics
    Saves,          \* payloads of the editor
    Imports,        \* mappings of the generator, as sets <<metric, asset>>
    Compat,         \* AVAROS_ENABLE_PLATFORM_COMPAT_LAYER
    MaxRequests     \* bound: how many requests come

VARIABLES
    active,         \* the name of the active profile
    stored,         \* per profile the saved mappings
    req,            \* per request: where it is and what it has read
    asked,          \* how many requests came
    given,          \* history: the links a profile was given, in the order of the writes
    raced           \* history: the profiles written by, or instead of which wrote, a request overtaken

vars == <<active, stored, req, asked, given, raced>>

Gone == [there |-> FALSE, links |-> {}, native |-> "none", mode |-> "", source |-> ""]
Idle == [pc |-> "idle", kind |-> "", of |-> Unconfigured, seen |-> [a \in Assets |-> Gone], payload |-> {}, found |-> {}, old |-> FALSE]

Modes == {"full_kpi", "energy_only"}
Origins == {"manual", "generator", "live_discovery"}

Init ==
    /\ active \in Profiles \cup {Unconfigured}
    /\ stored = [p \in Profiles |-> [a \in Assets |-> Gone]]
    /\ req = [r \in Requests |-> Idle]
    /\ asked = 0
    /\ given = [p \in Profiles |-> [a \in Assets |-> {}]]
    /\ raced = {}

----------------------------------------------------------------------------
(* What a request makes of the mappings it has read.                       *)

\* A mutant of Merge: what the editor does not send is taken for empty.
MergeDropping(mappings, payload) ==
    [a \in Assets |->
        IF a \notin DOMAIN payload THEN Gone
        ELSE LET new == payload[a] IN
             [there |-> TRUE, links |-> new.links, native |-> mappings[a].native,
              mode |-> mappings[a].mode, source |-> mappings[a].source]]

\* The editor's rows replace all, but keep the fields that they do not `set`.
Merge(mappings, payload) ==
    [a \in Assets |->
        IF a \notin DOMAIN payload THEN Gone
        ELSE LET new == payload[a] old == mappings[a] IN
             [there |-> TRUE,
              links |-> IF "links" \in new.set THEN new.links ELSE old.links,
              native |-> IF "native" \in new.set THEN new.native ELSE old.native,
              mode |-> IF "mode" \in new.set THEN new.mode ELSE old.mode,
              source |-> IF "source" \in new.set THEN new.source ELSE old.source]]

\* Inverted, the generator's mapping gives each asset its metrics.
LinksOf(mapping, a) == {m \in Metrics : <<m, a>> \in mapping}

MergeGenerator(mappings, mapping) ==
    [a \in Assets |->
        LET old == mappings[a] IN
        IF LinksOf(mapping, a) = {} THEN old
        ELSE [there |-> TRUE, links |-> old.links \cup LinksOf(mapping, a), native |-> old.native,
              source |-> IF old.source \in Origins THEN old.source ELSE "generator",
              mode |-> IF old.mode \in Modes THEN old.mode ELSE "full_kpi"]]

\* The energy binding a meter should have: one of its own strategy only gets what
\* it lacks, one of another is left alone.
Healed(entry) ==
    [entry EXCEPT !.native = IF @ = "odd" THEN @ ELSE "full", !.mode = "energy_only", !.source = "live_discovery"]

Promote(mappings, found) ==
    [a \in Assets |-> IF a \in found \cap Meters /\ mappings[a].there /\ mappings[a].links = {}
                      THEN Healed(mappings[a]) ELSE mappings[a]]

\* What request r would write; a summary writes only what it healed.
Outcome(r) ==
    CASE req[r].kind = "save" -> Merge(req[r].seen, req[r].payload)
      [] req[r].kind = "import" -> MergeGenerator(req[r].seen, req[r].payload)
      [] req[r].kind = "summary" -> IF Compat THEN Promote(req[r].seen, req[r].found) ELSE req[r].seen

Writes(r) == req[r].kind = "summary" => Outcome(r) # req[r].seen

----------------------------------------------------------------------------

MappingsOf(p) == IF p = Unconfigured THEN [a \in Assets |-> Gone] ELSE stored[p]

\* A request comes and reads the mappings of the profile that is active.
Begin(r, kind, payload) ==
    /\ req[r].pc = "idle" /\ asked < MaxRequests
    /\ asked' = asked + 1
    /\ req' = [req EXCEPT ![r] = [Idle EXCEPT !.pc = IF kind = "summary" THEN "discover" ELSE "write", !.kind = kind,
                                              !.of = active, !.seen = MappingsOf(active), !.payload = payload]]
    /\ UNCHANGED <<active, stored, given, raced>>

\* The platform is asked for its assets, and finds none, fails or times out.
Discover(r, found) ==
    /\ req[r].pc = "discover"
    /\ req' = [req EXCEPT ![r].pc = "write", ![r].found = found]
    /\ UNCHANGED <<active, stored, asked, given, raced>>

\* What the request means for the links of the profile that it is about.
Meant(r) ==
    [a \in Assets |->
        CASE req[r].kind = "summary" -> given[req[r].of][a]
          [] req[r].kind = "import" -> given[req[r].of][a] \cup LinksOf(req[r].payload, a)
          [] req[r].kind = "save" ->
                IF a \notin DOMAIN req[r].payload THEN {}
                ELSE IF "links" \in req[r].payload[a].set THEN req[r].payload[a].links ELSE given[req[r].of][a]]

\* Request s has read the mappings of p; request r would write over what others wrote
\* since it read, or to another profile than it has read.
Reads(s, p) == req[s].pc # "idle" /\ req[s].of = p
Overtaken(r) == req[r].old \/ req[r].of # active

\* The mappings are written to the profile that is active by now; without one the
\* request is refused.
Write(r) ==
    /\ req[r].pc = "write"
    /\ IF Writes(r) /\ active # Unconfigured
       THEN /\ stored' = [stored EXCEPT ![active] = Outcome(r)]
            /\ req' = [s \in Requests |-> IF s = r THEN Idle ELSE [req[s] EXCEPT !.old = @ \/ Reads(s, active)]]
            /\ raced' = raced \cup (IF Overtaken(r) THEN {req[r].of, active} ELSE {})
            /\ given' = IF req[r].of = Unconfigured THEN given ELSE [given EXCEPT ![req[r].of] = Meant(r)]
       ELSE /\ req' = [req EXCEPT ![r] = Idle]
            /\ UNCHANGED <<stored, given, raced>>
    /\ UNCHANGED <<active, asked>>

\* Another profile is activated, by another route.
Switch(p) ==
    /\ p # active
    /\ active' = p
    /\ UNCHANGED <<stored, req, asked, given, raced>>

Next ==
    \/ \E r \in Requests :
          \/ \E payload \in Saves : Begin(r, "save", payload)
          \/ \E payload \in Imports : Begin(r, "import", payload)
          \/ Begin(r, "summary", {})
          \/ \E found \in SUBSET Meters : Discover(r, found)
          \/ Write(r)
    \/ \E p \in Profiles \cup {Unconfigured} : Switch(p)

Spec == Init /\ [][Next]_vars

----------------------------------------------------------------------------

(***************************************************************************)
(* A profile keeps exactly the links it was given, whatever editors that   *)
(* know nothing of links, imports and summaries write in between           *)
(* (assets.py:645-650), in any order of the requests and through any       *)
(* switches.  It loses one only to a request that had read its mappings    *)
(* before another wrote them, or that had read those of another profile:   *)
(* that is what _persist_asset_mappings leaves unlocked.                   *)
(***************************************************************************)
LinksAsGiven == \A p \in Profiles \ raced : \A a \in Assets : stored[p][a].links = given[p][a]

\* A request changes the profile whose mappings it has read and no other
\* (assets.py:71); of a step.
Scoped ==
    \A r \in Requests : \A p \in Profiles :
        (req[r].pc = "write" /\ req'[r].pc = "idle" /\ stored'[p] # stored[p]) => req[r].of = p
=============================================================================
