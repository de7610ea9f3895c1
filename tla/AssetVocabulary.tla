---------------------------- MODULE AssetVocabulary ----------------------------
(***************************************************************************)
(* The assets the voice skill knows: its registry, read from the adapter   *)
(* and the settings when it is needed (_asset_resolution.py), and the      *)
(* entity files the intent parser is trained with, written when the Web UI *)
(* announces other assets (skill/__init__.py, services/settings.py,        *)
(* services/entity_generator.py).  Handlers run in threads, and none of    *)
(* this is locked.                                                         *)
(*                                                                         *)
(* Of a list of assets the model keeps which platform and which rows of    *)
(* which profile it was made of, or that loading that part failed.         *)
(***************************************************************************)
EXTENDS Naturals

CONSTANTS
    Profiles,
    Workers,        \* threads of the skill
    None,
    MaxEdits        \* bound: switches, edits of assets and of platforms

VARIABLES
    active,         \* the active profile
    platform, rows, \* per profile the edition of its platform and of its asset mappings
    announced,      \* events on their way: an activation, or "avaros.entities.updated" of a profile
    adapter,        \* what the dispatcher's adapter was made of
    registry, label,    \* _asset_registry_cache and _asset_registry_profile
    entities,       \* what the entity files were made of
    thread,         \* per thread where it is
    edits,
    raced           \* history: a reset overtook a reader, readers for two profiles or two
                    \* writers overlapped, an event was lost or the entity files were not written

vars == <<active, platform, rows, announced, adapter, registry, label, entities, thread, edits, raced>>
web == <<active, platform, rows, edits>>
kept == <<adapter, registry, label, entities>>

Idle == [pc |-> "idle"]
Platform(p) == [profile |-> p, edition |-> platform[p]]
Assets(p) == [profile |-> p, edition |-> rows[p]]
Unread(p) == [profile |-> p, edition |-> None]

Init ==
    /\ active \in Profiles
    /\ platform = [p \in Profiles |-> 0] /\ rows = [p \in Profiles |-> 0]
    /\ announced = {} /\ adapter = Platform(active)
    /\ registry = None /\ label = None /\ entities = Assets(active)
    /\ thread = [t \in Workers |-> Idle] /\ edits = 0 /\ raced = FALSE

Reading(t) == thread[t].pc \in {"adapter", "rows", "store", "mark"}
Goto(t, next) == thread' = [thread EXCEPT ![t] = next]
At(t, pc) == thread[t].pc = pc

----------------------------------------------------------------------------
(* The Web UI; what it announces may be lost.                              *)

Announce(kind, p) == announced' = announced \cup {[kind |-> kind, profile |-> p, id |-> edits]} /\ UNCHANGED raced
Lose == raced' = TRUE /\ UNCHANGED announced

Change(kind, p) == edits < MaxEdits /\ edits' = edits + 1 /\ (Announce(kind, p) \/ Lose) /\ UNCHANGED <<kept, thread>>

Activate(p) ==
    /\ Change("activated", p)
    /\ active' = p
    /\ UNCHANGED <<platform, rows>>

SavePlatform ==
    /\ Change("activated", active)
    /\ platform' = [platform EXCEPT ![active] = @ + 1]
    /\ UNCHANGED <<active, rows>>

\* set_asset_mappings; the entity files of this process are not the skill's.
SaveAssets(p) ==
    /\ Change("assets", p)
    /\ rows' = [rows EXCEPT ![p] = @ + 1]
    /\ UNCHANGED <<active, platform>>

----------------------------------------------------------------------------
(* get_asset_registry: status questions and lists of assets read anew.     *)

Ask(t, anew) ==
    /\ At(t, "idle")
    /\ Goto(t, [pc |-> IF anew THEN "adapter" ELSE "label", profile |-> active])
    /\ UNCHANGED <<web, announced, kept, raced>>

\* The label is read first, then the list, and only then they are compared.
ReadLabel(t) ==
    /\ At(t, "label")
    /\ Goto(t, [pc |-> "list", profile |-> thread[t].profile, label |-> label])
    /\ UNCHANGED <<web, announced, kept, raced>>

ReadList(t) ==
    /\ At(t, "list")
    /\ Goto(t, IF registry # None /\ thread[t].label = thread[t].profile THEN Idle
               ELSE [pc |-> "adapter", profile |-> thread[t].profile])
    /\ UNCHANGED <<web, announced, kept, raced>>

\* A part that cannot be loaded is an empty list, and is kept like any other.
FromAdapter(t) ==
    /\ At(t, "adapter")
    /\ \E part \in {adapter, None} : Goto(t, [pc |-> "rows", profile |-> thread[t].profile, platform |-> part])
    /\ UNCHANGED <<web, announced, kept, raced>>

FromSettings(t) ==
    /\ At(t, "rows")
    /\ \E part \in {Assets(thread[t].profile), Unread(thread[t].profile)} :
          Goto(t, [pc |-> "store", profile |-> thread[t].profile,
                   found |-> [platform |-> thread[t].platform, rows |-> part]])
    /\ UNCHANGED <<web, announced, kept, raced>>

Store(t) ==
    /\ At(t, "store")
    /\ registry' = thread[t].found
    /\ raced' = (raced \/ \E u \in Workers : Reading(u) /\ thread[u].profile # thread[t].profile)
    /\ Goto(t, [pc |-> "mark", profile |-> thread[t].profile])
    /\ UNCHANGED <<web, announced, adapter, label, entities>>

Mark(t) ==
    /\ At(t, "mark")
    /\ label' = thread[t].profile
    /\ Goto(t, Idle)
    /\ UNCHANGED <<web, announced, adapter, registry, entities, raced>>

----------------------------------------------------------------------------
(* The handlers of the events.                                             *)


\* A mutant of Reload: the registry is kept.
ReloadKeeping(t) ==
    /\ At(t, "idle")
    /\ \/ \E e \in announced : e.kind = "activated" /\ announced' = announced \ {e}
       \/ adapter.profile # active /\ UNCHANGED announced
    /\ adapter' = Platform(active)
    /\ UNCHANGED <<web, registry, label, entities, thread, raced>>

\* _reload_adapter of the handler, or of the mismatch check of an utterance.
Reload(t) ==
    /\ At(t, "idle")
    /\ \/ \E e \in announced : e.kind = "activated" /\ announced' = announced \ {e}
       \/ adapter.profile # active /\ UNCHANGED announced
    /\ adapter' = Platform(active)
    /\ Goto(t, [pc |-> "forget", kind |-> "reload", profile |-> active])
    /\ UNCHANGED <<web, registry, label, entities, raced>>

AssetsUpdated(t) ==
    /\ At(t, "idle")
    /\ \E e \in announced :
          /\ e.kind = "assets" /\ announced' = announced \ {e}
          /\ Goto(t, [pc |-> "forget", kind |-> "assets", profile |-> e.profile])
    /\ UNCHANGED <<web, kept, raced>>

Forget(t) ==
    /\ At(t, "forget")
    /\ registry' = None
    /\ raced' = (raced \/ \E u \in Workers : Reading(u))
    /\ Goto(t, [thread[t] EXCEPT !.pc = "unmark"])
    /\ UNCHANGED <<web, announced, adapter, label, entities>>

Unmark(t) ==
    /\ At(t, "unmark")
    /\ label' = None
    /\ Goto(t, IF thread[t].kind = "assets" THEN [thread[t] EXCEPT !.pc = "generate"] ELSE Idle)
    /\ UNCHANGED <<web, announced, adapter, registry, entities, raced>>

\* The mappings of the profile of the event, whatever profile is active now.
Generate(t) ==
    /\ At(t, "generate")
    /\ Goto(t, [pc |-> "write", found |-> Assets(thread[t].profile)])
    /\ UNCHANGED <<web, announced, kept, raced>>

Write(t) ==
    /\ At(t, "write")
    /\ entities' = thread[t].found
    /\ raced' = (raced \/ \E u \in Workers \ {t} : At(u, "write"))
    /\ Goto(t, Idle)
    /\ UNCHANGED <<web, announced, adapter, registry, label>>

\* Reading the mappings or writing the files fails, and the handler goes on.
FailWrite(t) ==
    /\ thread[t].pc \in {"generate", "write"}
    /\ raced' = TRUE
    /\ Goto(t, Idle)
    /\ UNCHANGED <<web, announced, kept>>

Next ==
    \/ SavePlatform \/ \E p \in Profiles : Activate(p) \/ SaveAssets(p)
    \/ \E t \in Workers :
          \/ Ask(t, TRUE) \/ Ask(t, FALSE)
          \/ ReadLabel(t) \/ ReadList(t) \/ FromAdapter(t) \/ FromSettings(t) \/ Store(t) \/ Mark(t)
          \/ Reload(t) \/ AssetsUpdated(t) \/ Forget(t) \/ Unmark(t) \/ Generate(t) \/ Write(t) \/ FailWrite(t)

Spec == Init /\ [][Next]_vars

----------------------------------------------------------------------------

(***************************************************************************)
(* "Return cached assets for active profile" (_asset_resolution.py:33):    *)
(* when all that was announced is done with, the registry the skill keeps  *)
(* for the active profile has the assets of its platform and of its        *)
(* mappings as they are now, less a part whose load failed, which stays    *)
(* missing until the registry is reset but is never another platform's or  *)
(* profile's; and the entity files have those of the profile they were     *)
(* written for.  Excepted is what `raced` records: a reset that overtook a *)
(* reader puts the old list back for good.                                 *)
(***************************************************************************)
NamesAreCurrent ==
    (~raced /\ announced = {} /\ \A t \in Workers : thread[t] = Idle) =>
        /\ entities = Assets(entities.profile)
        /\ (adapter.profile = active /\ label = active /\ registry # None) =>
              registry \in [platform : {Platform(active), None}, rows : {Assets(active), Unread(active)}]
=============================================================================
