------------------------------ MODULE ServicesProofs -----------------------------
(***************************************************************************)
(* Theorems about the services around the skill, for all values of the     *)
(* constants of MCServices.  Each component has an inductive invariant,    *)
(* preserved by its own steps; ServicesSteps and ServicesStarts carry it   *)
(* over to a behaviour of the composition, in which the component of the   *)
(* focus takes its steps and the others take none.                         *)
(***************************************************************************)
EXTENDS MCServices, DataInduction, TLAPS, FiniteSetTheorems

\* A step of the composition is one of the module of the focus.
LEMMA ServicesSteps ==
  ASSUME [ServicesNext]_allVars
  PROVE  /\ focus' = focus
         /\ focus = "token" => [Next]_vars
         /\ focus = "prevention" => [Reports!Next]_(Reports!vars)
         /\ focus = "assets" => [Assets!Next]_(Assets!vars)
         /\ focus = "settings" => [Settings!Next]_(Settings!vars)
         /\ focus = "wake" => [Wake!Next]_(Wake!vars)
         /\ focus = "dialogue" => [Dialogue!Next]_(Dialogue!vars)
         /\ focus = "kpis" => [Kpis!Next]_(Kpis!vars)
         /\ focus = "production" => [Production!Next]_(Production!vars)
         /\ focus = "progress" => [Site!Next]_(Site!vars)
         /\ focus = "bus" => [Bus!Next]_(Bus!busVars)
<1>1. CASE ServicesNext
  BY <1>1 DEF ServicesNext
<1>2. CASE UNCHANGED allVars
  BY <1>2 DEF allVars, vars, question, assets, settings, wake, dialogue, rows, production, bus,
     Reports!vars, Assets!vars, Settings!vars, Wake!vars, Dialogue!vars, Kpis!vars, Production!vars, Site!vars, Bus!busVars
<1> QED BY <1>1, <1>2

\* And so is how it begins.
LEMMA ServicesStarts ==
  ASSUME ServicesInit
  PROVE  /\ focus = "token" => Init
         /\ focus = "prevention" => Reports!Init
         /\ focus = "assets" => Assets!Init
         /\ focus = "settings" => Settings!Init
         /\ focus = "wake" => Wake!Init
         /\ focus = "dialogue" => Dialogue!Init
         /\ focus = "kpis" => Kpis!Init
         /\ focus = "production" => Production!Init
         /\ focus = "progress" => Site!Init
         /\ focus = "bus" => Bus!Init
BY DEF ServicesInit

----------------------------------------------------------------------------
(* AssetRegistry: every profile keeps exactly the links it was given.      *)

EntryFields == {"there", "links", "native", "mode", "source"}
RequestFields == {"pc", "kind", "of", "seen", "payload", "found", "old"}

\* Mappings have an entry for each asset.
Shaped(mappings) == DOMAIN mappings = Resources /\ \A a \in Resources : DOMAIN mappings[a] = EntryFields

AssetsTyped ==
    /\ active \in Profiles \cup {Unconfigured}
    /\ DOMAIN stored = Profiles /\ \A p \in Profiles : Shaped(stored[p])
    /\ DOMAIN given = Profiles
    /\ raced \subseteq Profiles \cup {Unconfigured}
    /\ DOMAIN req = Editors
    /\ \A r \in Editors :
          /\ DOMAIN req[r] = RequestFields
          /\ req[r].old \in BOOLEAN /\ req[r].of \in Profiles \cup {Unconfigured}
          /\ Shaped(req[r].seen)
          /\ req[r].pc # "idle" => req[r].kind \in {"save", "import", "summary"}

\* A request over whose profile nobody wrote since has read what is stored for it.
UpToDate ==
    \A r \in Editors : req[r].pc # "idle" /\ ~req[r].old => req[r].seen = Assets!MappingsOf(req[r].of)

AssetsInv == AssetsTyped /\ UpToDate /\ Assets!LinksAsGiven

LEMMA IdleRequest ==
    /\ DOMAIN Assets!Idle = RequestFields /\ Assets!Idle.pc = "idle" /\ Assets!Idle.old = FALSE
    /\ Assets!Idle.of = Unconfigured /\ Shaped(Assets!Idle.seen)
    /\ Shaped([a \in Resources |-> Assets!Gone]) /\ Assets!Gone.links = {}
BY DEF Assets!Idle, Assets!Gone, RequestFields, EntryFields, Shaped

LEMMA AssetsInitHolds == Assets!Init => AssetsInv
<1> SUFFICES ASSUME Assets!Init PROVE AssetsInv
  OBVIOUS
<1>1. \A r \in Editors : req[r] = Assets!Idle
  BY DEF Assets!Init
<1>2. AssetsTyped
  BY <1>1, IdleRequest DEF Assets!Init, AssetsTyped
<1>3. UpToDate
  BY <1>1, IdleRequest DEF UpToDate
<1>4. Assets!LinksAsGiven
  BY IdleRequest DEF Assets!Init, Assets!LinksAsGiven
<1> QED
  BY <1>2, <1>3, <1>4 DEF AssetsInv

\* What a request writes has an entry for each asset, with the links that it means.
LEMMA OutcomeMeant ==
  ASSUME Unconfigured \notin Profiles, AssetsInv, NEW r \in Editors, req[r].pc = "write"
  PROVE  /\ Shaped(Assets!Outcome(r))
         /\ req[r].of \in Profiles \ raced /\ ~req[r].old =>
               \A a \in Resources : Assets!Outcome(r)[a].links = Assets!Meant(r)[a]
<1> DEFINE seen == req[r].seen
<1>1. Shaped(seen)
  BY DEF AssetsInv, AssetsTyped
<1>2. ASSUME req[r].of \in Profiles \ raced, ~req[r].old
      PROVE  \A a \in Resources : seen[a].links = given[req[r].of][a]
  BY <1>2 DEF AssetsInv, UpToDate, Assets!LinksAsGiven, Assets!MappingsOf
<1>3. CASE req[r].kind = "save"
  <2>1. Assets!Outcome(r) = Assets!Merge(seen, req[r].payload)
    BY <1>3 DEF Assets!Outcome
  <2>2. Shaped(Assets!Merge(seen, req[r].payload))
    BY DEF Assets!Merge, Assets!Gone, Shaped, EntryFields
  <2>3. \A a \in Resources :
          /\ Assets!Meant(r)[a] = IF a \notin DOMAIN req[r].payload THEN {}
                           ELSE IF "links" \in req[r].payload[a].set THEN req[r].payload[a].links ELSE given[req[r].of][a]
          /\ Assets!Merge(seen, req[r].payload)[a].links =
               IF a \notin DOMAIN req[r].payload THEN {}
               ELSE IF "links" \in req[r].payload[a].set THEN req[r].payload[a].links ELSE seen[a].links
    BY <1>3 DEF Assets!Meant, Assets!Merge, Assets!Gone
  <2> QED
    BY <1>2, <2>1, <2>2, <2>3
<1>4. CASE req[r].kind = "import"
  <2>1. Assets!Outcome(r) = Assets!MergeGenerator(seen, req[r].payload)
    BY <1>4 DEF Assets!Outcome
  <2>2. Shaped(Assets!MergeGenerator(seen, req[r].payload))
    BY <1>1 DEF Assets!MergeGenerator, Shaped, EntryFields
  <2>3. \A a \in Resources :
          /\ Assets!Meant(r)[a] = given[req[r].of][a] \cup Assets!LinksOf(req[r].payload, a)
          /\ Assets!MergeGenerator(seen, req[r].payload)[a].links = seen[a].links \cup Assets!LinksOf(req[r].payload, a)
    BY <1>4 DEF Assets!Meant, Assets!MergeGenerator
  <2> QED
    BY <1>2, <2>1, <2>2, <2>3
<1>5. CASE req[r].kind = "summary"
  <2>1. Assets!Outcome(r) = Assets!Promote(seen, req[r].found) \/ Assets!Outcome(r) = seen
    BY <1>5 DEF Assets!Outcome
  <2>2. \A a \in Resources : DOMAIN Assets!Healed(seen[a]) = EntryFields /\ Assets!Healed(seen[a]).links = seen[a].links
    BY <1>1 DEF Assets!Healed, Shaped, EntryFields
  <2>3. /\ Shaped(Assets!Promote(seen, req[r].found))
        /\ \A a \in Resources : Assets!Promote(seen, req[r].found)[a].links = seen[a].links
    BY <1>1, <2>2 DEF Assets!Promote, Shaped
  <2>4. \A a \in Resources : Assets!Meant(r)[a] = given[req[r].of][a]
    BY <1>5 DEF Assets!Meant
  <2> QED
    BY <1>1, <1>2, <2>1, <2>3, <2>4
<1> QED
  BY <1>3, <1>4, <1>5 DEF AssetsInv, AssetsTyped

\* A request comes, or the platform answers it.
LEMMA AssetReadHolds ==
  ASSUME AssetsInv, NEW r \in Editors,
         \/ \E payload \in Saves : Assets!Begin(r, "save", payload)
         \/ \E payload \in Imports : Assets!Begin(r, "import", payload)
         \/ Assets!Begin(r, "summary", {})
         \/ \E found \in SUBSET Meters : Assets!Discover(r, found)
  PROVE  AssetsInv'
<1>1. UNCHANGED <<active, stored, given, raced>>
  BY DEF Assets!Begin, Assets!Discover
<1>2. ASSUME NEW kind \in {"save", "import", "summary"}, NEW payload, Assets!Begin(r, kind, payload)
      PROVE  AssetsInv'
  <2> DEFINE new == [Assets!Idle EXCEPT !.pc = IF kind = "summary" THEN "discover" ELSE "write", !.kind = kind,
                                 !.of = active, !.seen = Assets!MappingsOf(active), !.payload = payload]
  <2>1. req' = [req EXCEPT ![r] = new]
    BY <1>2 DEF Assets!Begin
  <2>2. Shaped(Assets!MappingsOf(active))
    BY IdleRequest DEF Assets!MappingsOf, AssetsInv, AssetsTyped
  <2>3. /\ DOMAIN new = RequestFields /\ new.kind = kind /\ new.of = active
        /\ new.seen = Assets!MappingsOf(active) /\ new.old = FALSE
    BY IdleRequest DEF RequestFields
  <2>4. AssetsTyped'
    BY <1>1, <2>1, <2>2, <2>3 DEF AssetsInv, AssetsTyped
  <2>5. UpToDate'
    BY <1>1, <2>1, <2>3 DEF AssetsInv, AssetsTyped, UpToDate, Assets!MappingsOf
  <2> QED BY <1>1, <2>4, <2>5 DEF AssetsInv, Assets!LinksAsGiven
<1>3. ASSUME NEW found \in SUBSET Meters, Assets!Discover(r, found)
      PROVE  AssetsInv'
  <2>1. req' = [req EXCEPT ![r].pc = "write", ![r].found = found] /\ req[r].pc = "discover"
    BY <1>3 DEF Assets!Discover
  <2>2. AssetsTyped'
    BY <1>1, <2>1 DEF AssetsInv, AssetsTyped, RequestFields
  <2>3. UpToDate'
    BY <1>1, <2>1 DEF AssetsInv, AssetsTyped, UpToDate, Assets!MappingsOf, RequestFields
  <2> QED BY <1>1, <2>2, <2>3 DEF AssetsInv, Assets!LinksAsGiven
<1> QED BY <1>2, <1>3

\* A request writes the mappings it means, or has nothing to write.
LEMMA AssetWriteHolds ==
  ASSUME Unconfigured \notin Profiles, AssetsInv, NEW r \in Editors, Assets!Write(r)
  PROVE  AssetsInv'
<1>0. req[r].pc = "write" /\ active' = active
  BY DEF Assets!Write
<1>1. CASE Assets!Writes(r) /\ active # Unconfigured
  <2>1. /\ stored' = [stored EXCEPT ![active] = Assets!Outcome(r)]
        /\ req' = [s \in Editors |-> IF s = r THEN Assets!Idle ELSE [req[s] EXCEPT !.old = @ \/ Assets!Reads(s, active)]]
        /\ raced' = raced \cup (IF Assets!Overtaken(r) THEN {req[r].of, active} ELSE {})
        /\ given' = IF req[r].of = Unconfigured THEN given ELSE [given EXCEPT ![req[r].of] = Assets!Meant(r)]
    BY <1>1 DEF Assets!Write
  <2>2. active \in Profiles
    BY <1>1 DEF AssetsInv, AssetsTyped
  <2>3. \A s \in Editors : s # r =>
          /\ DOMAIN req'[s] = RequestFields /\ req'[s].old = (req[s].old \/ Assets!Reads(s, active))
          /\ req'[s].pc = req[s].pc /\ req'[s].seen = req[s].seen /\ req'[s].kind = req[s].kind /\ req'[s].of = req[s].of
    BY <2>1 DEF AssetsInv, AssetsTyped, RequestFields
  <2>4. req'[r] = Assets!Idle
    BY <2>1
  <2>5. AssetsTyped'
    <3>1. \A s \in Editors :
            /\ DOMAIN req'[s] = RequestFields /\ req'[s].old \in BOOLEAN /\ Shaped(req'[s].seen)
            /\ req'[s].of \in Profiles \cup {Unconfigured}
            /\ req'[s].pc # "idle" => req'[s].kind \in {"save", "import", "summary"}
      BY <2>3, <2>4, IdleRequest DEF AssetsInv, AssetsTyped, Assets!Reads
    <3>2. DOMAIN stored' = Profiles /\ \A p \in Profiles : Shaped(stored'[p])
      BY <2>1, <1>0, OutcomeMeant DEF AssetsInv, AssetsTyped
    <3> QED BY <1>0, <2>1, <3>1, <3>2 DEF AssetsInv, AssetsTyped
  <2>6. UpToDate'
    <3> SUFFICES ASSUME NEW s \in Editors, req'[s].pc # "idle", ~req'[s].old
                 PROVE  req'[s].seen = Assets!MappingsOf(req[s].of)'
      BY DEF UpToDate
    <3>1. s # r /\ ~req[s].old /\ req[s].of # active
      BY <2>3, <2>4, IdleRequest DEF Assets!Reads
    <3>2. req[s].seen = Assets!MappingsOf(req[s].of)
      BY <2>3, <3>1 DEF AssetsInv, UpToDate
    <3>3. req[s].of \in Profiles => stored'[req[s].of] = stored[req[s].of]
      BY <2>1, <3>1 DEF AssetsInv, AssetsTyped
    <3> QED BY <2>3, <3>1, <3>2, <3>3 DEF Assets!MappingsOf, AssetsInv, AssetsTyped
  <2>7. Assets!LinksAsGiven'
    <3>1. ASSUME NEW p \in Profiles \ raced', NEW a \in Resources PROVE stored'[p][a].links = given'[p][a]
      <4>1. p \in Profiles \ raced
        BY <2>1
      <4>2. CASE p = active
        <5>1. req[r].of = active /\ ~req[r].old
          BY <2>1, <4>2 DEF Assets!Overtaken
        <5>2. stored'[p] = Assets!Outcome(r) /\ given'[p] = Assets!Meant(r)
          BY <2>1, <2>2, <4>1, <4>2, <5>1 DEF AssetsInv, AssetsTyped
        <5>3. Assets!Outcome(r)[a].links = Assets!Meant(r)[a]
          BY <1>0, <4>1, <4>2, <5>1, OutcomeMeant
        <5> QED BY <5>2, <5>3
      <4>3. CASE p # active
        <5>1. req[r].of # p
          BY <2>1, <4>3 DEF Assets!Overtaken
        <5> QED BY <2>1, <4>1, <4>3, <5>1 DEF AssetsInv, AssetsTyped, Assets!LinksAsGiven
      <4> QED BY <4>2, <4>3
    <3> QED BY <3>1 DEF Assets!LinksAsGiven
  <2> QED BY <2>5, <2>6, <2>7 DEF AssetsInv
<1>2. CASE ~(Assets!Writes(r) /\ active # Unconfigured)
  <2>1. req' = [req EXCEPT ![r] = Assets!Idle] /\ UNCHANGED <<stored, given, raced>>
    BY <1>2 DEF Assets!Write
  <2>2. AssetsTyped'
    BY <1>0, <2>1, IdleRequest DEF AssetsInv, AssetsTyped
  <2>3. UpToDate'
    BY <1>0, <2>1, IdleRequest DEF AssetsInv, AssetsTyped, UpToDate, Assets!MappingsOf
  <2> QED BY <2>1, <2>2, <2>3 DEF AssetsInv, Assets!LinksAsGiven
<1> QED BY <1>1, <1>2

\* A switch of profiles leaves the requests under way with the profile they have read.
LEMMA AssetSwitchHolds ==
  ASSUME AssetsInv, NEW p \in Profiles \cup {Unconfigured}, Assets!Switch(p)
  PROVE  AssetsInv'
BY DEF Assets!Switch, AssetsInv, AssetsTyped, UpToDate, Assets!LinksAsGiven, Assets!MappingsOf

LEMMA AssetsStutterHolds == ASSUME AssetsInv, UNCHANGED Assets!vars PROVE AssetsInv'
BY DEF AssetsInv, AssetsTyped, UpToDate, Assets!LinksAsGiven, Assets!MappingsOf, Assets!vars

(***************************************************************************)
(* Whatever editors that know nothing of links, generators and summaries   *)
(* write, a profile keeps exactly the links it was given; it loses one     *)
(* only to a request that wrote over what another had written since it     *)
(* read, or to another profile than it had read (web-ui/routers/assets.py, *)
(* _persist_asset_mappings and its callers).                               *)
(***************************************************************************)
THEOREM LinksKept == ASSUME Unconfigured \notin Profiles PROVE ServicesSpec => []LinksAsGiven
<1> DEFINE Inv == focus = "assets" => AssetsInv
<1>1. ServicesInit => Inv
  BY ServicesStarts, AssetsInitHolds
<1>2. Inv /\ [ServicesNext]_allVars => Inv'
  <2>1. AssetsInv /\ [Assets!Next]_(Assets!vars) => AssetsInv'
    BY AssetReadHolds, AssetWriteHolds, AssetSwitchHolds, AssetsStutterHolds DEF Assets!Next
  <2> QED BY <2>1, ServicesSteps
<1>3. Inv => LinksAsGiven
  BY DEF AssetsInv, LinksAsGiven
<1> QED BY <1>1, <1>2, <1>3, PTL DEF ServicesSpec

----------------------------------------------------------------------------
(* PreventionToken: no query is sent with a token that has ended.          *)

QueryStates == [pc : {"idle", "fetch", "send", "sent"}, began : Nat, ends : Nat \cup {None}]

TokenTypeOK ==
    /\ now \in Nat
    /\ token \in [ends : Nat \cup {None}, believed : Nat]
    /\ query \in [Queries -> QueryStates]

LongLived == \A life \in Lifetimes : life >= Least

\* What the client believes of its token is not more than the issuer granted, and
\* a token that is sent had the margin left when it was taken.
Backed ==
    /\ \A q \in Queries : query[q].began <= now
    /\ LongLived =>
        /\ token.ends # None => token.believed <= token.ends
        /\ \A q \in Queries : query[q].pc \in {"send", "sent"} =>
              query[q].ends # None /\ query[q].began + Margin <= query[q].ends

TokenInv == TokenTypeOK /\ Backed

LEMMA TokenInitHolds == Init => TokenInv
  BY TokenAssumption DEF Init, TokenInv, TokenTypeOK, Backed, QueryStates, Waiting, None

\* Taking the cached token leaves the margin; going to fetch one claims nothing.
LEMMA TokenResolveHolds ==
  ASSUME TokenInv, NEW q \in Queries, Resolve(q)
  PROVE  TokenInv'
<1>1. TokenTypeOK'
  BY TokenAssumption DEF TokenInv, TokenTypeOK, Resolve, Fresh, QueryStates, None
<1>2. Backed'
  <2>1. CASE Fresh
    BY <2>1, <1>1, TokenAssumption DEF TokenInv, TokenTypeOK, Backed, Resolve, Fresh, QueryStates, None, LongLived
  <2>2. CASE ~Fresh
    BY <2>2, <1>1, TokenAssumption DEF TokenInv, TokenTypeOK, Backed, Resolve, QueryStates, None, LongLived
  <2> QED BY <2>1, <2>2
<1> QED BY <1>1, <1>2 DEF TokenInv

\* The issuer's answer came within the timeout, so that a token of the least
\* lifetime outlives the margin.
LEMMA TokenStoreHolds ==
  ASSUME TokenInv, NEW q \in Queries, Store(q)
  PROVE  TokenInv'
<1>1. PICK life \in Lifetimes, granted \in query[q].began..now :
        /\ token' = [ends |-> granted + life, believed |-> query[q].began + (IF life < Least THEN Least ELSE life)]
        /\ query' = [query EXCEPT ![q] = [pc |-> "send", began |-> now, ends |-> granted + life]]
  BY DEF Store
<1>2. /\ query[q] \in QueryStates /\ query[q].pc = "fetch" /\ now <= query[q].began + Timeout
      /\ now' = now /\ query[q].began <= now
  BY DEF TokenInv, TokenTypeOK, Backed, Store
<1>3. life \in Nat /\ granted \in Nat /\ query[q].began \in Nat /\ now \in Nat
  BY <1>1, <1>2, TokenAssumption DEF QueryStates, TokenInv, TokenTypeOK
<1>4. TokenTypeOK'
  <2>1. now' \in Nat BY <1>2, <1>3
  <2>2. token' \in [ends : Nat \cup {None}, believed : Nat]
    BY <1>1, <1>3, TokenAssumption
  <2>3. [pc |-> "send", began |-> now, ends |-> granted + life] \in QueryStates
    BY <1>3 DEF QueryStates
  <2>4. query' \in [Queries -> QueryStates]
    BY <1>1, <2>3 DEF TokenInv, TokenTypeOK
  <2> QED BY <2>1, <2>2, <2>4 DEF TokenTypeOK
<1>5. ASSUME LongLived PROVE granted + life >= now + Margin /\ token'.believed <= token'.ends
  <2>1. life >= Least BY <1>1, <1>5 DEF LongLived
  <2>2. granted >= query[q].began BY <1>1, <1>2, <1>3
  <2> QED BY <2>1, <2>2, <1>1, <1>2, <1>3, TokenAssumption
<1>6. Backed'
  <2>1. \A r \in Queries : query'[r].began <= now'
    BY <1>1, <1>2, <1>3 DEF TokenInv, TokenTypeOK, Backed, QueryStates
  <2>2. ASSUME LongLived, NEW r \in Queries, query'[r].pc \in {"send", "sent"}
        PROVE  query'[r].ends # None /\ query'[r].began + Margin <= query'[r].ends
    <3>1. CASE r = q
      BY <3>1, <2>2, <1>1, <1>2, <1>3, <1>5, TokenAssumption DEF TokenInv, TokenTypeOK, QueryStates, None
    <3>2. CASE r # q
      BY <3>2, <2>2, <1>1 DEF TokenInv, TokenTypeOK, Backed, QueryStates
    <3> QED BY <3>1, <3>2
  <2> QED BY <2>1, <2>2, <1>5 DEF Backed, LongLived
<1> QED BY <1>4, <1>6 DEF TokenInv

\* The other steps neither take nor make a token.
LEMMA TokenNextHolds ==
  ASSUME TokenInv, [Next]_vars
  PROVE  TokenInv'
<1>1. CASE Tick
  BY <1>1, TokenAssumption DEF Tick, TokenInv, TokenTypeOK, Backed, QueryStates, LongLived
<1>2. ASSUME NEW q \in Queries, Refuse(q) \/ Done(q) PROVE TokenInv'
  <2>1. UNCHANGED <<now, token>> /\ query' = [query EXCEPT ![q] = Waiting]
    BY <1>2 DEF Refuse, Done
  <2>2. Waiting \in QueryStates /\ Waiting.pc = "idle" /\ Waiting.began = 0
    BY DEF Waiting, QueryStates, None
  <2>3. TokenTypeOK'
    BY <2>1, <2>2 DEF TokenInv, TokenTypeOK
  <2>4. Backed'
    <3>1. \A r \in Queries : query'[r] = IF r = q THEN Waiting ELSE query[r]
      BY <2>1 DEF TokenInv, TokenTypeOK
    <3> QED BY <3>1, <2>1, <2>2 DEF TokenInv, TokenTypeOK, Backed, LongLived
  <2> QED BY <2>3, <2>4 DEF TokenInv
<1>3. ASSUME NEW q \in Queries, Deliver(q) PROVE TokenInv'
  BY <1>3, TokenAssumption DEF Deliver, TokenInv, TokenTypeOK, Backed, QueryStates, LongLived
<1>4. CASE UNCHANGED vars
  BY <1>4 DEF vars, TokenInv, TokenTypeOK, Backed, LongLived
<1> QED BY <1>1, <1>2, <1>3, <1>4, TokenResolveHolds, TokenStoreHolds DEF Next

\* A query of the client never reaches the provider with a dead token
\* (prevention_http.py:478-529), whatever number of them fetches one at once.
THEOREM TokenIsAlive == ServicesSpec => []TokenAlive
<1> DEFINE Inv == IF focus = "token" THEN TokenInv ELSE query = [q \in Queries |-> Waiting]
<1>1. ServicesInit => Inv
  <2>1. ServicesInit /\ focus # "token" => query = [q \in Queries |-> Waiting]
    BY DEF ServicesInit, NoToken
  <2> QED BY <2>1, ServicesStarts, TokenInitHolds
<1>2. Inv /\ [ServicesNext]_allVars => Inv'
  <2>1. focus # "token" /\ [ServicesNext]_allVars => UNCHANGED query
    BY DEF ServicesNext, allVars, vars
  <2> QED BY <2>1, ServicesSteps, TokenNextHolds
<1>3. Inv => TokenAlive
  <2>1. TokenInv => TokenAlive
    BY TokenAssumption DEF TokenInv, TokenTypeOK, Backed, TokenAlive, QueryStates, LongLived, None
  <2> QED BY <2>1 DEF TokenAlive, Waiting
<1> QED BY <1>1, <1>2, <1>3, PTL DEF ServicesSpec

----------------------------------------------------------------------------
(* TypedSettings: lists of rows that were there, and defaults that serve.  *)

\* A factor is a positive number and so is a sensitivity, electricity has a default,
\* and so has the address of the bridge.
SettingsAssumption ==
    /\ Unconfigured \notin Profiles
    /\ Factors \subseteq Nat \ {0} /\ Sensitivities \subseteq Nat \ {0}
    /\ "electricity" \in National /\ EnvVoice.url # ""

ObjectiveKeys == ObjectiveMetrics \X Scopes
AllKeys == EnergySources \cup ObjectiveKeys
FactorRows == [EnergySources -> Factors \cup {0}]
ObjectiveRows == [ObjectiveKeys -> Objectives \cup {0}]
ReaderFields == {"pc", "family", "of", "keys", "got", "moved", "held"}
ReaderTyped(r) ==
    /\ DOMAIN r = ReaderFields
    /\ r.pc \in {"idle", "rows"} /\ r.family \in {"factor", "objective"} /\ r.moved \in BOOLEAN

SettingsTyped ==
    /\ active \in Profiles \cup {Unconfigured}
    /\ factor \in [Profiles -> FactorRows] /\ objective \in [Profiles -> ObjectiveRows]
    /\ alert \in Sensitivities \cup {0} /\ threshold \in Sensitivities \cup {0}
    /\ DOMAIN reader = Readers /\ \A r \in Readers : ReaderTyped(reader[r])

RowIn(fs, os, family, p, i) == IF family = "factor" THEN fs[p][i] ELSE os[p][i]

\* A list under way has recorded the rows that its profile has now, and is of the
\* active profile until a switch.
Recorded(r) ==
    IF r.pc = "idle" THEN r.of = Unconfigured /\ r.got = {}
    ELSE /\ r.of \in Profiles /\ r.keys \subseteq Settings!Items(r.family)
         /\ \A i \in Settings!Items(r.family) : <<i, RowIn(factor, objective, r.family, r.of, i)>> \in r.held
         /\ ~r.moved => r.of = active

\* What a list has so far.
Listing(r) ==
    \A row \in r.got :
        /\ row[2] = 0 => r.family # "factor"
        /\ (r.family = "objective" \/ ~r.moved) => row \in r.held

SettingsInv == SettingsTyped /\ \A r \in Readers : Recorded(reader[r]) /\ Listing(reader[r])

LEMMA RestingReader ==
    /\ ReaderTyped(Settings!Resting)
    /\ Settings!Resting.pc = "idle" /\ Settings!Resting.of = Unconfigured /\ Settings!Resting.got = {}
BY DEF Settings!Resting, ReaderTyped, ReaderFields

LEMMA SettingsInitHolds == Settings!Init => SettingsInv
<1> SUFFICES ASSUME Settings!Init PROVE SettingsInv
  OBVIOUS
<1>1. \A r \in Readers : reader[r] = Settings!Resting
  BY DEF Settings!Init
<1>2. SettingsTyped
  BY RestingReader DEF Settings!Init, SettingsTyped, FactorRows, ObjectiveRows, ObjectiveKeys, Settings!None
<1> QED BY <1>1, <1>2, RestingReader DEF SettingsInv, Recorded, Listing

\* A row that is written is recorded by the lists of its family and profile.
LEMMA RowRecorded ==
  ASSUME SettingsInv, NEW family, NEW item, NEW value,
         active \in Profiles, active' = active, SettingsTyped',
         reader' = Settings!Noted(family, item, value),
         \A f \in {"factor", "objective"}, p \in Profiles : \A i \in Settings!Items(f) :
            RowIn(factor', objective', f, p, i) =
               IF f = family /\ p = active /\ i = item THEN value ELSE RowIn(factor, objective, f, p, i)
  PROVE  SettingsInv'
<1> SUFFICES ASSUME NEW r \in Readers PROVE (Recorded(reader[r]) /\ Listing(reader[r]))'
  BY DEF SettingsInv
<1> DEFINE old == reader[r] new == reader'[r]
<1>1. /\ new.pc = old.pc /\ new.family = old.family /\ new.of = old.of /\ new.keys = old.keys
      /\ new.got = old.got /\ new.moved = old.moved
      /\ new.held = IF old.family = family /\ old.of = active THEN old.held \cup {<<item, value>>} ELSE old.held
  BY DEF Settings!Noted, SettingsInv, SettingsTyped, ReaderTyped, ReaderFields
<1>2. Recorded(old) /\ Listing(old) /\ ReaderTyped(old)
  BY DEF SettingsInv, SettingsTyped
<1>3. Listing(new)
  BY <1>1, <1>2 DEF Listing
<1>4. ASSUME old.pc # "idle", NEW i \in Settings!Items(old.family)
      PROVE  <<i, RowIn(factor', objective', old.family, old.of, i)>> \in new.held
  <2>1. old.of \in Profiles /\ <<i, RowIn(factor, objective, old.family, old.of, i)>> \in old.held /\ old.family \in {"factor", "objective"}
    BY <1>2, <1>4 DEF Recorded, ReaderTyped
  <2> QED BY <2>1, <1>1, <1>4
<1>5. Recorded(reader[r])'
  BY <1>1, <1>2, <1>4 DEF Recorded, Settings!Items
<1> QED BY <1>3, <1>5

LEMMA FactorHolds ==
  ASSUME SettingsInv, NEW s \in EnergySources, NEW value \in Factors \cup {Settings!None}, Settings!PutFactor(s, value)
  PROVE  SettingsInv'
<1>1. /\ active \in Profiles /\ UNCHANGED <<active, alert, threshold, objective>>
      /\ reader' = Settings!Noted("factor", s, value) /\ factor' = [factor EXCEPT ![active][s] = value]
  BY DEF Settings!PutFactor, SettingsInv, SettingsTyped
<1>2. SettingsTyped'
  <2>1. factor' \in [Profiles -> FactorRows]
    BY <1>1 DEF SettingsInv, SettingsTyped, FactorRows, Settings!None
  <2>2. DOMAIN reader' = Readers /\ \A r \in Readers : ReaderTyped(reader'[r])
    BY <1>1 DEF Settings!Noted, SettingsInv, SettingsTyped, ReaderTyped, ReaderFields
  <2> QED BY <1>1, <2>1, <2>2 DEF SettingsInv, SettingsTyped
<1>3. \A f \in {"factor", "objective"}, p \in Profiles : \A i \in Settings!Items(f) :
         RowIn(factor', objective', f, p, i) =
            IF f = "factor" /\ p = active /\ i = s THEN value ELSE RowIn(factor, objective, f, p, i)
  BY <1>1 DEF RowIn, SettingsInv, SettingsTyped, FactorRows, Settings!Items
<1>4. active \in Profiles /\ active' = active /\ reader' = Settings!Noted("factor", s, value)
  BY <1>1
<1> HIDE <1>1
<1> QED BY <1>4, <1>2, <1>3, RowRecorded

LEMMA ObjectiveHolds ==
  ASSUME SettingsInv, NEW m \in ObjectiveMetrics, NEW s \in Scopes, NEW value \in Objectives \cup {Settings!None},
         Settings!PutObjective(m, s, value)
  PROVE  SettingsInv'
<1> DEFINE item == <<m, s>>
<1>1. /\ active \in Profiles /\ UNCHANGED <<active, alert, threshold, factor>> /\ item \in ObjectiveKeys
      /\ reader' = Settings!Noted("objective", item, value) /\ objective' = [objective EXCEPT ![active][item] = value]
  BY DEF Settings!PutObjective, SettingsInv, SettingsTyped, ObjectiveKeys
<1> HIDE DEF item
<1>2. SettingsTyped'
  <2>1. objective' \in [Profiles -> ObjectiveRows]
    BY <1>1 DEF SettingsInv, SettingsTyped, ObjectiveRows, Settings!None
  <2>2. DOMAIN reader' = Readers /\ \A r \in Readers : ReaderTyped(reader'[r])
    BY <1>1 DEF Settings!Noted, SettingsInv, SettingsTyped, ReaderTyped, ReaderFields
  <2> QED BY <1>1, <2>1, <2>2 DEF SettingsInv, SettingsTyped
<1>3. \A f \in {"factor", "objective"}, p \in Profiles : \A i \in Settings!Items(f) :
         RowIn(factor', objective', f, p, i) =
            IF f = "objective" /\ p = active /\ i = item THEN value ELSE RowIn(factor, objective, f, p, i)
  <2>1. Settings!Items("objective") = ObjectiveKeys
    BY DEF Settings!Items, ObjectiveKeys
  <2> QED BY <2>1, <1>1 DEF RowIn, SettingsInv, SettingsTyped, ObjectiveRows
<1>4. active \in Profiles /\ active' = active /\ reader' = Settings!Noted("objective", item, value)
  BY <1>1
<1> HIDE <1>1
<1> QED BY <1>4, <1>2, <1>3, RowRecorded

\* The other writes leave the lists alone; a switch overtakes them all.
LEMMA OtherSettingsHold ==
  ASSUME SettingsInv,
         \/ \E z \in Sensitivities : Settings!SaveAlertConfig(z) \/ Settings!SetQueryThreshold(z)
         \/ \E config \in VoiceConfigs : Settings!UpdateVoiceConfig(config)
         \/ \E p \in Profiles \cup {Unconfigured} : Settings!Switch(p)
         \/ UNCHANGED Settings!vars
  PROVE  SettingsInv'
<1>1. /\ UNCHANGED <<factor, objective>> /\ active' \in Profiles \cup {Unconfigured}
      /\ alert' \in Sensitivities \cup {0} /\ threshold' \in Sensitivities \cup {0}
  BY DEF Settings!SaveAlertConfig, Settings!SetQueryThreshold, Settings!UpdateVoiceConfig, Settings!Switch, Settings!vars,
     SettingsInv, SettingsTyped, Settings!None
<1>2. \/ UNCHANGED <<active, reader>>
      \/ reader' = [q \in Readers |-> [reader[q] EXCEPT !.moved = TRUE]]
  BY DEF Settings!SaveAlertConfig, Settings!SetQueryThreshold, Settings!UpdateVoiceConfig, Settings!Switch, Settings!vars
<1>3. SettingsTyped'
  <2>1. DOMAIN reader' = Readers /\ \A r \in Readers : ReaderTyped(reader'[r])
    <3>1. CASE UNCHANGED <<active, reader>>
      BY <3>1 DEF SettingsInv, SettingsTyped
    <3>2. CASE reader' = [q \in Readers |-> [reader[q] EXCEPT !.moved = TRUE]]
      BY <3>2 DEF SettingsInv, SettingsTyped, ReaderTyped, ReaderFields
    <3> QED BY <1>2, <3>1, <3>2
  <2> QED BY <1>1, <2>1 DEF SettingsInv, SettingsTyped
<1>4. ASSUME NEW r \in Readers PROVE (Recorded(reader[r]) /\ Listing(reader[r]))'
  <2>1. Recorded(reader[r]) /\ Listing(reader[r]) /\ ReaderTyped(reader[r])
    BY DEF SettingsInv, SettingsTyped
  <2>2. CASE UNCHANGED <<active, reader>>
    BY <2>1, <2>2, <1>1 DEF Recorded, Listing
  <2>3. CASE reader' = [q \in Readers |-> [reader[q] EXCEPT !.moved = TRUE]]
    BY <2>1, <2>3, <1>1 DEF Recorded, Listing, ReaderTyped, ReaderFields
  <2> QED BY <1>2, <2>2, <2>3
<1> QED BY <1>3, <1>4 DEF SettingsInv

\* A list begins, reads a row, or ends.
LEMMA ListHolds ==
  ASSUME SettingsAssumption, SettingsInv, NEW r \in Readers,
         \/ \E family \in {"factor", "objective"} : Settings!BeginList(r, family)
         \/ \E item \in reader[r].keys : Settings!ReadRow(r, item)
         \/ Settings!EndList(r)
  PROVE  SettingsInv'
<1>1. UNCHANGED <<active, factor, objective, alert, threshold>>
  BY DEF Settings!BeginList, Settings!ReadRow, Settings!EndList
<1>0. Recorded(reader[r]) /\ Listing(reader[r]) /\ ReaderTyped(reader[r]) /\ DOMAIN reader = Readers
  BY DEF SettingsInv, SettingsTyped
<1>2. \E new : reader' = [reader EXCEPT ![r] = new] /\ ReaderTyped(new) /\ Recorded(new) /\ Listing(new)
  <2>1. ASSUME NEW family \in {"factor", "objective"}, Settings!BeginList(r, family) PROVE <1>2!:
    <3> DEFINE new == [Settings!Resting EXCEPT !.pc = "rows", !.family = family, !.of = active,
                          !.keys = {i \in Settings!Items(family) : Settings!Rows(family, active)[i] # Settings!None},
                          !.held = {<<i, Settings!Rows(family, active)[i]>> : i \in Settings!Items(family)}]
    <3>1. reader' = [reader EXCEPT ![r] = new] /\ active \in Profiles
      BY <2>1 DEF Settings!BeginList, SettingsInv, SettingsTyped
    <3>2. ReaderTyped(new) /\ new.pc = "rows" /\ new.family = family /\ new.of = active /\ new.moved = FALSE /\ new.got = {}
          /\ new.keys \subseteq Settings!Items(family)
          /\ new.held = {<<i, Settings!Rows(family, active)[i]>> : i \in Settings!Items(family)}
      BY DEF ReaderTyped, ReaderFields, Settings!Resting
    <3>3. Recorded(new) /\ Listing(new)
      BY <3>1, <3>2 DEF Recorded, Listing, Settings!Rows, RowIn
    <3> QED BY <3>1, <3>2, <3>3
  <2>2. ASSUME NEW item \in reader[r].keys, Settings!ReadRow(r, item) PROVE <1>2!:
    <3> DEFINE old == reader[r]
               new == [old EXCEPT !.keys = @ \ {item}, !.got = @ \cup Settings!Row(r, item)]
    <3>1. reader' = [reader EXCEPT ![r] = new] /\ old.pc = "rows"
      BY <2>2 DEF Settings!ReadRow
    <3>2. ReaderTyped(new) /\ new.pc = old.pc /\ new.family = old.family /\ new.of = old.of /\ new.moved = old.moved
          /\ new.keys = old.keys \ {item} /\ new.got = old.got \cup Settings!Row(r, item) /\ new.held = old.held
      BY <1>0 DEF ReaderTyped, ReaderFields
    <3>3. /\ item \in Settings!Items(old.family) /\ old.of \in Profiles
          /\ <<item, RowIn(factor, objective, old.family, old.of, item)>> \in old.held
      BY <1>0, <3>1 DEF Recorded
    <3>4. \A row \in Settings!Row(r, item) :
             /\ row[2] = 0 => old.family # "factor"
             /\ (old.family = "objective" \/ ~old.moved) => row \in old.held
      <4>1. CASE old.family = "factor"
        <5>1. ~old.moved => Settings!EmissionFactor(item) = factor[old.of][item]
          BY <1>0, <3>1, <3>3, <4>1 DEF Recorded, Settings!EmissionFactor, Settings!Items, SettingsAssumption
        <5> QED BY <4>1, <5>1, <3>3 DEF Settings!Row, Settings!None, RowIn
      <4>2. CASE old.family # "factor"
        BY <4>2, <3>3, <1>0 DEF Settings!Row, RowIn, ReaderTyped
      <4> QED BY <4>1, <4>2
    <3>5. Recorded(new)
      BY <1>0, <3>1, <3>2 DEF Recorded
    <3>6. Listing(new)
      BY <1>0, <3>2, <3>4 DEF Listing
    <3> QED BY <3>1, <3>2, <3>5, <3>6
  <2>3. ASSUME Settings!EndList(r) PROVE <1>2!:
    BY <2>3, RestingReader DEF Settings!EndList, Recorded, Listing
  <2> QED BY <2>1, <2>2, <2>3
<1>3. PICK new : reader' = [reader EXCEPT ![r] = new] /\ ReaderTyped(new) /\ Recorded(new) /\ Listing(new)
  BY <1>2
<1>4. SettingsTyped'
  BY <1>1, <1>3 DEF SettingsInv, SettingsTyped
<1>5. ASSUME NEW q \in Readers PROVE (Recorded(reader[q]) /\ Listing(reader[q]))'
  <2>1. CASE q = r
    BY <2>1, <1>0, <1>1, <1>3 DEF Recorded, Listing
  <2>2. CASE q # r
    BY <2>2, <1>0, <1>1, <1>3 DEF SettingsInv, Recorded, Listing
  <2> QED BY <2>1, <2>2
<1> QED BY <1>4, <1>5 DEF SettingsInv

LEMMA SettingsStepHolds ==
  ASSUME SettingsAssumption, SettingsInv, [Settings!Next]_(Settings!vars)
  PROVE  SettingsInv'
BY FactorHolds, ObjectiveHolds, OtherSettingsHold, ListHolds DEF Settings!Next

\* A list that no switch overtook has only rows that its profile had while it was
\* read, and none without a value but an objective deleted meanwhile
\* (settings.py:733-757, 1245-1260), whatever else is written.
THEOREM ListsHold == ASSUME SettingsAssumption PROVE ServicesSpec => []ListsAreReal
<1> DEFINE Inv == focus = "settings" => SettingsInv
<1>1. ServicesInit => Inv
  BY ServicesStarts, SettingsInitHolds
<1>2. Inv /\ [ServicesNext]_allVars => Inv'
  BY ServicesSteps, SettingsStepHolds
<1>3. Inv => ListsAreReal
  BY DEF SettingsInv, Listing, ListsAreReal, Settings!ListsAreReal, Settings!None
<1> QED BY <1>1, <1>2, <1>3, PTL DEF ServicesSpec

LEMMA PositiveSettings ==
  ASSUME SettingsAssumption
  PROVE  (\A v \in Factors : v \in Nat /\ v > 0) /\ \A z \in Sensitivities : z \in Nat /\ z > 0
<1>1. Factors \subseteq Nat \ {0} /\ Sensitivities \subseteq Nat \ {0}
  BY DEF SettingsAssumption
<1> QED BY <1>1

\* The source that CO2 is derived with has a factor above zero: the listed ones
\* have one, and electricity, which stands in for a list that is empty, a default.
LEMMA PrimaryHasFactor ==
  ASSUME SettingsAssumption, SettingsInv
  PROVE  Settings!EffectiveFactor(Settings!PrimarySource) > 0
<1>1. \A s : Settings!EmissionFactor(s) \in Factors \cup {0, 1}
  BY DEF Settings!EmissionFactor, SettingsInv, SettingsTyped, FactorRows, Settings!None
<1>2. \A s : Settings!EffectiveFactor(s) \in Nat /\ (Settings!EmissionFactor(s) # 0 \/ s \in National => Settings!EffectiveFactor(s) > 0)
  BY <1>1, PositiveSettings DEF Settings!EffectiveFactor, Settings!None
<1>3. \A s \in Settings!Listed : Settings!EmissionFactor(s) # 0
  BY DEF Settings!Listed, Settings!None
<1>4. Settings!PrimarySource \in Settings!Listed \/ Settings!PrimarySource = "electricity"
  <2>1. CASE Settings!Listed = {}
    <3>1. Cardinality(Settings!Listed) # 1
      BY <2>1, FS_EmptySet
    <3> QED BY <2>1, <3>1 DEF Settings!PrimarySource
  <2>2. CASE Settings!Listed # {}
    BY <2>2 DEF Settings!PrimarySource
  <2> QED BY <2>1, <2>2
<1> QED BY <1>2, <1>3, <1>4 DEF SettingsAssumption

\* Whatever was saved, deleted and switched, CO2 is derived with a factor above
\* zero (settings.py:759-772), an asset with an objective for all assets has one
\* (1226-1243), and a bridge that the environment can open is never locked out by
\* what the voice page saves (1076-1078).
THEOREM FallbacksHold == ASSUME SettingsAssumption PROVE ServicesSpec => []FallbacksServe
<1> DEFINE Inv == focus = "settings" => SettingsInv
<1>1. ServicesInit => Inv
  BY ServicesStarts, SettingsInitHolds
<1>2. Inv /\ [ServicesNext]_allVars => Inv'
  BY ServicesSteps, SettingsStepHolds
<1>3. Inv => FallbacksServe
  <2> SUFFICES ASSUME SettingsInv PROVE Settings!FallbacksServe
    BY DEF FallbacksServe
  <2>1. active # Unconfigured =>
          \A m \in ObjectiveMetrics : objective[active][<<m, "all">>] # 0 =>
             \A s \in Scopes \cup {""} : Settings!KpiObjective(m, s) # 0
    BY DEF Settings!KpiObjective, Settings!None
  <2>2. Settings!QueryThreshold > 0
    BY PositiveSettings DEF Settings!QueryThreshold, Settings!AlertThreshold, Settings!None, SettingsInv, SettingsTyped
  <2>3. /\ Settings!VoiceConfig.url # "" /\ (EnvVoice.key # "" => Settings!VoiceConfig.key # "")
        /\ Encrypted /\ (EnvVoice.secret # "" \/ voice.crypto # "") => Settings!VoiceConfig.secret # ""
    BY DEF Settings!VoiceConfig, Settings!Either, SettingsAssumption
  <2> QED BY <2>1, <2>2, <2>3, PrimaryHasFactor DEF Settings!FallbacksServe, Settings!None
<1> QED BY <1>1, <1>2, <1>3, PTL DEF ServicesSpec

----------------------------------------------------------------------------
(* BusConnection: the page and the widget come back.                       *)

BusAssumption ==
    /\ BusClients \subseteq {"page", "widget"}
    /\ Urls \in Nat \ {0} /\ MaxAttempts \in Nat /\ MaxSockets \in Nat \ {0}

LinkFields == {"state", "ws", "sock", "armed", "owned", "attempts"}
SocketFields == {"st", "url", "advanced", "greeted"}
Slots == 1..(MaxSockets + 1)

\* A link between two handlers: no socket that has given way to another is left.
LinkTyped(c) ==
    /\ DOMAIN c = LinkFields
    /\ c.armed \in {0, 1} /\ (c.owned <=> c.armed = 1)
    /\ c.attempts \in 0..MaxAttempts
    /\ DOMAIN c.sock \subseteq Slots
    /\ \A s \in DOMAIN c.sock :
          DOMAIN c.sock[s] = SocketFields /\ c.sock[s].st \in {"opening", "open"} /\ ~c.sock[s].advanced /\ c.sock[s].url \in Nat

\* The page keeps its current socket alone, and none when it is at rest.
PageLink(c) ==
    /\ c.state \in {"disconnected", "connecting", "connected", "error"}
    /\ DOMAIN c.sock = IF c.state \in {"connecting", "connected"} THEN {c.ws} ELSE {}
    /\ c.state = "connecting" => c.sock[c.ws].st = "opening"
    /\ c.state = "connected" => c.sock[c.ws].st = "open" /\ c.sock[c.ws].greeted
    /\ c.state = "error" => c.attempts = MaxAttempts

PageInv ==
    /\ LinkTyped(link) /\ PageLink(link) /\ wanted \in BOOLEAN
    /\ link.state # "disconnected" => wanted
    /\ link.armed = IF link.state = "disconnected" /\ wanted THEN 1 ELSE 0

\* The widget may keep more sockets than the one it works on.
WidgetLink(c) ==
    /\ Cardinality(DOMAIN c.sock) <= MaxSockets
    /\ c.state = "disconnected" => c.ws = 0
    /\ c.state = "connecting" => \E s \in DOMAIN c.sock : c.sock[s].st = "opening"

WidgetInv ==
    /\ LinkTyped(link) /\ WidgetLink(link)
    /\ link.state = "disconnected" /\ wanted => link.armed = 1

BusInv ==
    /\ client \in {"page", "widget"}
    /\ client = "page" /\ ~overlapped => PageInv
    /\ client = "widget" => WidgetInv

LEMMA BusInitHolds == ASSUME BusAssumption, Bus!Init PROVE BusInv
<1>1. DOMAIN link.sock = {} /\ Cardinality({}) = 0
  BY FS_EmptySet DEF Bus!Init
<1>2. LinkTyped(link) /\ PageLink(link) /\ WidgetLink(link)
  BY <1>1 DEF BusAssumption, Bus!Init, LinkTyped, LinkFields, PageLink, WidgetLink
<1> QED BY <1>2 DEF BusAssumption, Bus!Init, BusInv, PageInv, WidgetInv

\* A slot is free if there are no more sockets than the bound.
LEMMA FreeSlot ==
  ASSUME BusAssumption, NEW S \in SUBSET Slots, Cardinality(S) <= MaxSockets
  PROVE  \E i \in Slots : i \notin S
<1>1. MaxSockets \in Nat /\ Cardinality(Slots) = MaxSockets + 1
  BY FS_Interval DEF Slots, BusAssumption
<1>2. S = Slots => FALSE
  BY <1>1
<1> QED BY <1>2

\* What tryConnect makes of a link with a free slot.
LEMMA Dialled ==
  ASSUME BusAssumption, NEW c, NEW url \in 1..Urls, DOMAIN c = LinkFields,
         \E i \in Slots : i \notin DOMAIN c.sock
  PROVE  LET d == Bus!TryConnect(c, url) IN
         /\ DOMAIN d = LinkFields
         /\ d.ws \in Slots \ DOMAIN c.sock /\ DOMAIN d.sock = DOMAIN c.sock \cup {d.ws}
         /\ d.sock[d.ws] = [st |-> "opening", url |-> url, advanced |-> FALSE, greeted |-> FALSE]
         /\ \A s \in DOMAIN c.sock : d.sock[s] = c.sock[s]
         /\ d.state = c.state /\ d.armed = c.armed /\ d.owned = c.owned /\ d.attempts = c.attempts
<1> DEFINE s == CHOOSE i \in Slots : i \notin DOMAIN c.sock
           new == [st |-> "opening", url |-> url, advanced |-> FALSE, greeted |-> FALSE]
<1>1. s \in Slots \ DOMAIN c.sock
  OBVIOUS
<1>2. Bus!TryConnect(c, url) =
         [c EXCEPT !.ws = s, !.sock = [i \in DOMAIN c.sock \cup {s} |-> IF i = s THEN new ELSE c.sock[i]]]
  BY DEF Bus!TryConnect, Bus!Opened, Slots, BusAssumption
<1> HIDE DEF s
<1> QED BY <1>1, <1>2 DEF LinkFields

LEMMA OpenPage ==
  ASSUME BusAssumption, PageInv
  PROVE  /\ Bus!Open(link) <=> link.state = "connected"
         /\ Bus!Opening(link) = IF link.state = "connecting" THEN {link.ws} ELSE {}
BY DEF PageInv, PageLink, LinkTyped, Bus!Open, Bus!Opening

LEMMA PageDials ==
  ASSUME BusAssumption, client = "page", NEW c, LinkTyped(c), PageLink(c), c.state \in {"disconnected", "error"}, c.armed = 0
  PROVE  LET d == Bus!Dial(c) IN LinkTyped(d) /\ PageLink(d) /\ d.state = "connecting" /\ d.armed = 0
<1> DEFINE e == [c EXCEPT !.state = "connecting"]
           d == Bus!TryConnect(e, 1)
<1>1. Bus!Dial(c) = d
  BY DEF Bus!Dial, Bus!Open, PageLink
<1>2. DOMAIN e = LinkFields /\ e.state = "connecting" /\ DOMAIN e.sock = {} /\ e.armed = 0 /\ e.owned = c.owned /\ e.attempts = c.attempts
  BY DEF LinkTyped, LinkFields, PageLink
<1>3. 1 \in 1..Urls /\ \E i \in Slots : i \notin {}
  BY DEF BusAssumption, Slots
<1> HIDE DEF e
<1>4. /\ DOMAIN d = LinkFields
      /\ d.ws \in Slots /\ DOMAIN d.sock = {d.ws} /\ d.sock[d.ws] = [st |-> "opening", url |-> 1, advanced |-> FALSE, greeted |-> FALSE]
      /\ d.state = "connecting" /\ d.armed = 0 /\ d.owned = c.owned /\ d.attempts = c.attempts
  BY <1>2, <1>3, Dialled
<1> HIDE DEF d
<1> QED BY <1>1, <1>4 DEF LinkTyped, PageLink, SocketFields

LEMMA PageConnects == ASSUME BusAssumption, client = "page", PageInv, ~overlapped', Bus!Connect PROVE PageInv'
<1>1. link.state \in {"disconnected", "error"} /\ link.armed = 0
  BY OpenPage DEF Bus!Connect, PageInv, PageLink, LinkTyped
<1>2. link' = Bus!Dial(link) /\ wanted' = TRUE
  BY DEF Bus!Connect, Bus!Become
<1>3. LinkTyped(Bus!Dial(link)) /\ PageLink(Bus!Dial(link)) /\ Bus!Dial(link).state = "connecting" /\ Bus!Dial(link).armed = 0
  BY <1>1, PageDials DEF PageInv
<1> HIDE <1>1
<1> QED BY <1>2, <1>3 DEF PageInv, LinkTyped, PageLink

LEMMA PageTimer == ASSUME BusAssumption, client = "page", PageInv, ~overlapped', Bus!TimerFires PROVE PageInv'
<1>1. PICK known \in BOOLEAN :
         /\ IF known THEN link.owned ELSE link.armed > (IF link.owned THEN 1 ELSE 0)
         /\ LET left == [link EXCEPT !.armed = @ - 1, !.owned = @ /\ ~known] IN Bus!Become(Bus!Dial(left))
  BY DEF Bus!TimerFires
<1>2. known /\ link.armed = 1 /\ link.state = "disconnected" /\ wanted
  BY <1>1 DEF PageInv, LinkTyped
<1> DEFINE left == [link EXCEPT !.armed = @ - 1, !.owned = @ /\ ~known]
<1>3. LinkTyped(left) /\ PageLink(left) /\ left.state = "disconnected" /\ left.armed = 0
  <2>1. /\ DOMAIN left = LinkFields /\ left.state = "disconnected" /\ left.sock = link.sock /\ left.ws = link.ws
        /\ left.attempts = link.attempts /\ left.armed = 0 /\ ~left.owned
    <3>1. DOMAIN link = LinkFields
      BY DEF PageInv, LinkTyped
    <3>2. known
      BY <1>2
    <3>3. ~left.owned
      BY <3>1, <3>2 DEF LinkFields
    <3> QED BY <1>2, <3>1, <3>3 DEF LinkFields
  <2> HIDE DEF left
  <2> QED BY <1>2, <2>1 DEF PageInv, LinkTyped, PageLink
<1>4. link' = Bus!Dial(left) /\ wanted' = wanted
  BY <1>1 DEF Bus!TimerFires, Bus!Become
<1> HIDE DEF left
<1>5. LinkTyped(Bus!Dial(left)) /\ PageLink(Bus!Dial(left)) /\ Bus!Dial(left).state = "connecting" /\ Bus!Dial(left).armed = 0
  BY <1>3, PageDials
<1> QED BY <1>2, <1>4, <1>5 DEF PageInv, LinkTyped, PageLink

LEMMA PageOpensSocket ==
  ASSUME BusAssumption, client = "page", PageInv, NEW s \in DOMAIN link.sock, Bus!SocketOpens(s) PROVE PageInv'
<1>1. link.state = "connecting" /\ s = link.ws /\ DOMAIN link.sock = {s}
  BY OpenPage DEF Bus!SocketOpens, PageInv, PageLink
<1> DEFINE opened == [link EXCEPT !.sock[s].st = "open", !.attempts = 0, !.state = "connected"]
           new == [opened EXCEPT !.sock[s].greeted = TRUE]
<1>2. /\ DOMAIN opened = LinkFields /\ DOMAIN opened.sock = {s} /\ opened.sock[s] = [link.sock[s] EXCEPT !.st = "open"]
      /\ opened.ws = s /\ opened.state = "connected" /\ opened.armed = link.armed /\ opened.owned = link.owned /\ opened.attempts = 0
  BY <1>1 DEF PageInv, LinkTyped, LinkFields
<1>3. link' = new /\ wanted' = wanted
  <2>1. link' = Bus!OnOpen(link, s) /\ wanted' = wanted
    BY DEF Bus!SocketOpens, Bus!Become
  <2>2. Bus!Open(opened)
    BY <1>1, <1>2 DEF Bus!Open, PageInv, LinkTyped, SocketFields
  <2>3. Bus!OnOpen(link, s) = [opened EXCEPT !.sock[opened.ws].greeted = TRUE]
    BY <2>2 DEF Bus!OnOpen
  <2> QED BY <2>1, <2>3, <1>2
<1>4. /\ DOMAIN new = LinkFields /\ DOMAIN new.sock = {s}
      /\ new.sock[s] = [opened.sock[s] EXCEPT !.greeted = TRUE]
      /\ new.ws = s /\ new.state = "connected" /\ new.armed = link.armed /\ new.owned = link.owned /\ new.attempts = 0
  BY <1>2 DEF LinkFields
<1> HIDE DEF opened, new
<1>5. DOMAIN link.sock[s] = SocketFields /\ ~link.sock[s].advanced /\ link.sock[s].url \in Nat
  BY DEF PageInv, LinkTyped
<1>6. /\ DOMAIN opened.sock[s] = SocketFields /\ opened.sock[s].st = "open" /\ ~opened.sock[s].advanced
      /\ opened.sock[s].url \in Nat
  BY <1>2, <1>5 DEF SocketFields
<1>7. /\ DOMAIN new.sock[s] = SocketFields /\ new.sock[s].st = "open" /\ ~new.sock[s].advanced
      /\ new.sock[s].url \in Nat /\ new.sock[s].greeted
  BY <1>4, <1>6 DEF SocketFields
<1>8. LinkTyped(new) /\ PageLink(new)
  <2>1. s \in Slots /\ link.armed = 0 /\ ~link.owned
    BY <1>1 DEF PageInv, LinkTyped
  <2>2. new.armed = 0 /\ ~new.owned /\ new.attempts \in 0..MaxAttempts
    BY <2>1, <1>4 DEF BusAssumption
  <2>3. LinkTyped(new)
    <3>1. DOMAIN new.sock \subseteq Slots
      BY <2>1, <1>4
    <3>2. \A i \in DOMAIN new.sock :
             DOMAIN new.sock[i] = SocketFields /\ new.sock[i].st \in {"opening", "open"} /\ ~new.sock[i].advanced /\ new.sock[i].url \in Nat
      BY <1>4, <1>7
    <3>3. new.owned <=> new.armed = 1
      BY <2>2
    <3> HIDE <2>1, <1>7
    <3> QED BY <2>2, <3>1, <3>2, <3>3, <1>4 DEF LinkTyped
  <2>4. PageLink(new)
    BY <1>4, <1>7 DEF PageLink
  <2> QED BY <2>3, <2>4
<1> QED BY <1>1, <1>3, <1>4, <1>8 DEF PageInv

\* Nothing is left of a page whose socket is forgotten, but a timer, or an error
\* after the last attempt.
LEMMA PageRests ==
  ASSUME BusAssumption, client = "page", NEW c, NEW s, DOMAIN c = LinkFields, DOMAIN c.sock = {s},
         c.armed = 0, ~c.owned, c.attempts \in 0..MaxAttempts
  PROVE  LET d == Bus!Forget(Bus!ScheduleReconnect([c EXCEPT !.state = "disconnected"]), s) IN
         LinkTyped(d) /\ PageLink(d) /\ d.state \in {"disconnected", "error"} /\ d.armed = (IF d.state = "disconnected" THEN 1 ELSE 0)
BY DEF Bus!Forget, Bus!Restrict, Bus!ScheduleReconnect, LinkTyped, PageLink, LinkFields, BusAssumption

LEMMA PageCloses ==
  ASSUME BusAssumption, client = "page", PageInv, NEW s \in DOMAIN link.sock, NEW refused \in BOOLEAN, Bus!SocketCloses(s, refused)
  PROVE  PageInv'
<1>1. link.state = "connected" /\ wanted /\ DOMAIN link.sock = {s} /\ link.armed = 0 /\ ~link.owned
  BY DEF Bus!SocketCloses, PageInv, PageLink, LinkTyped
<1>2. /\ link' = Bus!Forget(Bus!ScheduleReconnect([link EXCEPT !.state = "disconnected"]), s) /\ wanted' = wanted
  BY <1>1 DEF Bus!SocketCloses, Bus!Become, Bus!OnClose
<1>3. DOMAIN link = LinkFields /\ link.attempts \in 0..MaxAttempts
  BY DEF PageInv, LinkTyped
<1> QED BY <1>1, <1>2, <1>3, PageRests DEF PageInv

LEMMA PageFails ==
  ASSUME BusAssumption, client = "page", PageInv, NEW s \in DOMAIN link.sock, Bus!SocketFails(s) PROVE PageInv'
<1>1. link.state = "connecting" /\ s = link.ws /\ DOMAIN link.sock = {s} /\ wanted /\ link.armed = 0 /\ ~link.owned
      /\ DOMAIN link = LinkFields /\ s \in Slots /\ link.attempts \in 0..MaxAttempts /\ ~link.sock[s].advanced
      /\ DOMAIN link.sock[s] = SocketFields /\ link.sock[s].url \in Nat
  BY OpenPage DEF Bus!SocketFails, PageInv, PageLink, LinkTyped
<1> DEFINE next == link.sock[s].url + 1
           left == [link EXCEPT !.sock[s].advanced = TRUE, !.ws = 0]
           gone == Bus!TryConnect(left, next)
<1>2. link' = Bus!Forget(Bus!OnClose(gone, s, FALSE), s) /\ wanted' = wanted
  BY <1>1 DEF Bus!SocketFails, Bus!Become, Bus!Advance
<1>3. DOMAIN left = LinkFields /\ DOMAIN left.sock = {s} /\ left.sock[s].advanced = TRUE
      /\ left.state = "connecting" /\ left.armed = 0 /\ ~left.owned /\ left.attempts = link.attempts
  BY <1>1 DEF LinkFields, SocketFields
<1> HIDE DEF left
<1>4. CASE next <= Urls
  <2>1. next \in 1..Urls /\ \E i \in Slots : i \notin DOMAIN left.sock
    BY <1>1, <1>3, <1>4 DEF BusAssumption, Slots
  <2>2. /\ DOMAIN gone = LinkFields /\ gone.ws \in Slots \ {s} /\ DOMAIN gone.sock = {s, gone.ws}
        /\ gone.sock[gone.ws] = [st |-> "opening", url |-> next, advanced |-> FALSE, greeted |-> FALSE]
        /\ gone.sock[s].advanced = TRUE /\ gone.state = "connecting"
        /\ gone.armed = 0 /\ ~gone.owned /\ gone.attempts = link.attempts
    BY <1>3, <2>1, Dialled
  <2> HIDE DEF gone
  <2>3. link' = Bus!Forget(gone, s)
    BY <1>2, <2>2 DEF Bus!OnClose, Bus!Advance
  <2>4. DOMAIN link' = LinkFields /\ DOMAIN link'.sock = {gone.ws} /\ link'.sock[gone.ws] = gone.sock[gone.ws] /\ link'.ws = gone.ws
        /\ link'.state = "connecting" /\ link'.armed = 0 /\ ~link'.owned /\ link'.attempts = link.attempts
    BY <2>2, <2>3 DEF Bus!Forget, Bus!Restrict, LinkFields
  <2>5. LinkTyped(link') /\ PageLink(link')
    BY <1>1, <2>1, <2>2, <2>4 DEF LinkTyped, PageLink, SocketFields
  <2> QED BY <1>1, <1>2, <2>4, <2>5 DEF PageInv
<1>5. CASE next > Urls
  <2> DEFINE c == [left EXCEPT !.state = "error"]
  <2>1. gone = c
    BY <1>5 DEF Bus!TryConnect, Bus!Exhausted
  <2>2. link' = Bus!Forget(Bus!ScheduleReconnect([c EXCEPT !.state = "disconnected"]), s)
    BY <1>2, <1>3, <2>1 DEF Bus!OnClose, LinkFields
  <2>3. DOMAIN c = LinkFields /\ DOMAIN c.sock = {s} /\ c.armed = 0 /\ ~c.owned /\ c.attempts \in 0..MaxAttempts
    BY <1>1, <1>3 DEF LinkFields
  <2> HIDE DEF c
  <2>4. LinkTyped(link') /\ PageLink(link') /\ link'.state \in {"disconnected", "error"}
        /\ link'.armed = (IF link'.state = "disconnected" THEN 1 ELSE 0)
    BY <2>2, <2>3, PageRests
  <2> QED BY <1>1, <1>2, <2>4 DEF PageInv
<1> QED BY <1>1, <1>4, <1>5 DEF BusAssumption

LEMMA PageDisconnects == ASSUME BusAssumption, client = "page", PageInv, Bus!Disconnect PROVE PageInv'
<1>1. /\ DOMAIN link.sock \subseteq {link.ws} /\ DOMAIN link = LinkFields
      /\ link.armed \in {0, 1} /\ (link.owned <=> link.armed = 1)
  BY DEF PageInv, PageLink, LinkTyped
<1> DEFINE c == Bus!CancelReconnect(link)
<1>2. DOMAIN c = LinkFields /\ c.sock = link.sock /\ c.armed = 0 /\ ~c.owned
  BY <1>1 DEF Bus!CancelReconnect, LinkFields
<1>3. link' = [Bus!Forget(c, link.ws) EXCEPT !.attempts = 0, !.ws = 0, !.state = "disconnected"] /\ wanted' = FALSE
  BY DEF Bus!Disconnect, Bus!Become
<1> HIDE DEF c
<1>4. DOMAIN link' = LinkFields /\ DOMAIN link'.sock = {} /\ link'.armed = 0 /\ ~link'.owned /\ link'.attempts = 0 /\ link'.state = "disconnected"
  BY <1>1, <1>2, <1>3 DEF LinkFields, Bus!Forget, Bus!Restrict
<1>5. LinkTyped(link') /\ PageLink(link')
  BY <1>4 DEF LinkTyped, PageLink, BusAssumption
<1> QED BY <1>3, <1>4, <1>5 DEF PageInv

LEMMA WidgetSchedules ==
  ASSUME client = "widget", NEW c, DOMAIN c = LinkFields, c.armed \in {0, 1}, c.owned <=> c.armed = 1
  PROVE  LET d == Bus!ScheduleReconnect(c) IN
         /\ DOMAIN d = LinkFields /\ d.state = "disconnected" /\ d.armed = 1 /\ d.owned
         /\ d.sock = c.sock /\ d.ws = c.ws /\ d.attempts = c.attempts
BY DEF Bus!ScheduleReconnect, LinkFields

\* The sets of BusConnection are counted as those of this module.
LEMMA SameCountOfBus == \A S : Bus!Cardinality(S) = Cardinality(S)
BY DEF Cardinality, Bus!Cardinality

LEMMA FewSockets ==
  ASSUME BusAssumption, NEW c, LinkTyped(c)
  PROVE  DOMAIN c.sock \subseteq Slots /\ IsFiniteSet(DOMAIN c.sock) /\ Cardinality(DOMAIN c.sock) \in Nat
<1>1. DOMAIN c.sock \subseteq Slots
  BY DEF LinkTyped
<1>2. IsFiniteSet(Slots)
  BY FS_Interval DEF Slots, BusAssumption
<1>3. IsFiniteSet(DOMAIN c.sock)
  BY <1>1, <1>2, FS_Subset
<1> QED BY <1>1, <1>3, FS_CardinalityType

LEMMA WidgetDials ==
  ASSUME BusAssumption, client = "widget", NEW c, LinkTyped(c), WidgetLink(c), Cardinality(DOMAIN c.sock) < MaxSockets
  PROVE  LET d == Bus!Dial(c) IN LinkTyped(d) /\ WidgetLink(d) /\ d.state # "disconnected"
<1>1. CASE c.ws \in DOMAIN c.sock
  <2>1. Bus!Dial(c) = c /\ 0 \notin DOMAIN c.sock
    BY <1>1 DEF Bus!Dial, LinkTyped, Slots
  <2> QED BY <1>1, <2>1 DEF WidgetLink
<1>2. CASE c.ws \notin DOMAIN c.sock
  <2> DEFINE e == [Bus!CancelReconnect(c) EXCEPT !.state = "connecting"]
             d == Bus!TryConnect(e, 1)
  <2>1. Bus!Dial(c) = d
    BY <1>2 DEF Bus!Dial
  <2>2. DOMAIN e = LinkFields /\ e.sock = c.sock /\ e.state = "connecting" /\ e.armed = 0 /\ ~e.owned /\ e.attempts = c.attempts
    BY DEF LinkTyped, LinkFields, Bus!CancelReconnect
  <2>3. DOMAIN c.sock \subseteq Slots /\ IsFiniteSet(DOMAIN c.sock) /\ Cardinality(DOMAIN c.sock) \in Nat
    BY FewSockets
  <2>4. 1 \in 1..Urls /\ \E i \in Slots : i \notin DOMAIN c.sock
    BY <2>3, FreeSlot DEF BusAssumption
  <2> HIDE DEF e
  <2>5. /\ DOMAIN d = LinkFields /\ d.ws \in Slots \ DOMAIN c.sock /\ DOMAIN d.sock = DOMAIN c.sock \cup {d.ws}
        /\ d.sock[d.ws] = [st |-> "opening", url |-> 1, advanced |-> FALSE, greeted |-> FALSE]
        /\ \A s \in DOMAIN c.sock : d.sock[s] = c.sock[s]
        /\ d.state = "connecting" /\ d.armed = 0 /\ ~d.owned /\ d.attempts = c.attempts
    BY <2>2, <2>4, Dialled
  <2> HIDE DEF d
  <2>6. LinkTyped(d)
    <3>1. /\ DOMAIN d.sock[d.ws] = SocketFields /\ d.sock[d.ws].st = "opening" /\ ~d.sock[d.ws].advanced
          /\ d.sock[d.ws].url \in Nat
      BY <2>5 DEF SocketFields
    <3>2. \A s \in DOMAIN d.sock :
             DOMAIN d.sock[s] = SocketFields /\ d.sock[s].st \in {"opening", "open"} /\ ~d.sock[s].advanced /\ d.sock[s].url \in Nat
      BY <3>1, <2>5 DEF LinkTyped
    <3>3. DOMAIN d.sock \subseteq Slots /\ d.attempts \in 0..MaxAttempts
      BY <2>3, <2>5 DEF LinkTyped
    <3> QED BY <3>2, <3>3, <2>5 DEF LinkTyped
  <2>7. WidgetLink(d)
    <3>1. Cardinality(DOMAIN d.sock) = Cardinality(DOMAIN c.sock) + 1
      BY <2>3, <2>5, FS_AddElement
    <3> QED BY <3>1, <2>3, <2>5 DEF WidgetLink, BusAssumption
  <2> QED BY <2>1, <2>5, <2>6, <2>7
<1> QED BY <1>1, <1>2

LEMMA WidgetConnects ==
  ASSUME BusAssumption, client = "widget", WidgetInv, Bus!Connect \/ Bus!SendUtterance
  PROVE  WidgetInv'
<1>1. CASE link' = Bus!Dial(link) /\ Bus!Room(link)
  <2>1. LinkTyped(link) /\ WidgetLink(link) /\ Cardinality(DOMAIN link.sock) < MaxSockets
    BY <1>1, SameCountOfBus DEF WidgetInv, Bus!Room
  <2>2. LinkTyped(Bus!Dial(link)) /\ WidgetLink(Bus!Dial(link)) /\ Bus!Dial(link).state # "disconnected"
    BY <2>1, WidgetDials
  <2> QED BY <1>1, <2>2 DEF WidgetInv
<1>2. CASE Bus!Open(link) /\ link' = link
  <2>1. link.state # "disconnected"
    BY <1>2 DEF WidgetInv, WidgetLink, LinkTyped, Bus!Open, Slots
  <2> QED BY <1>2, <2>1 DEF WidgetInv
<1> QED BY <1>1, <1>2 DEF Bus!Connect, Bus!SendUtterance, Bus!Become, WidgetInv

LEMMA WidgetTimer == ASSUME BusAssumption, client = "widget", WidgetInv, Bus!TimerFires PROVE WidgetInv'
<1>1. PICK known \in BOOLEAN :
         /\ Bus!Room(link)
         /\ IF known THEN link.owned ELSE link.armed > (IF link.owned THEN 1 ELSE 0)
         /\ LET left == [link EXCEPT !.armed = @ - 1, !.owned = @ /\ ~known] IN Bus!Become(Bus!Dial(left))
  BY DEF Bus!TimerFires
<1> DEFINE left == [link EXCEPT !.armed = @ - 1, !.owned = @ /\ ~known]
<1>2. known /\ link.armed = 1 /\ DOMAIN link = LinkFields
  BY <1>1 DEF WidgetInv, LinkTyped
<1>3. DOMAIN left = LinkFields /\ ~left.owned /\ left.armed = 0 /\ left.sock = link.sock /\ left.state = link.state
      /\ left.ws = link.ws /\ left.attempts = link.attempts
  <2>1. known /\ DOMAIN link = LinkFields
    BY <1>2
  <2>2. ~left.owned
    BY <2>1 DEF LinkFields
  <2> QED BY <1>2, <2>2 DEF LinkFields
<1>4. link' = Bus!Dial(left)
  BY <1>1 DEF Bus!Become
<1> HIDE DEF left
<1>5. Cardinality(DOMAIN left.sock) < MaxSockets
  <2>1. Cardinality(DOMAIN link.sock) < MaxSockets
    BY <1>1, SameCountOfBus DEF Bus!Room
  <2>2. left.sock = link.sock
    BY <1>3
  <2> QED BY <2>1, <2>2
<1>6. WidgetLink(left)
  BY <1>3 DEF WidgetInv, WidgetLink
<1>7. LinkTyped(left)
  <2>1. link.attempts \in 0..MaxAttempts /\ DOMAIN link.sock \subseteq Slots
        /\ \A s \in DOMAIN link.sock : DOMAIN link.sock[s] = SocketFields /\ link.sock[s].st \in {"opening", "open"}
                                      /\ ~link.sock[s].advanced /\ link.sock[s].url \in Nat
    BY DEF WidgetInv, LinkTyped
  <2>2. left.owned <=> left.armed = 1
    BY <1>3
  <2> QED BY <2>1, <2>2, <1>3 DEF LinkTyped
<1> QED BY <1>4, <1>5, <1>6, <1>7, WidgetDials DEF WidgetInv

LEMMA WidgetOpens ==
  ASSUME BusAssumption, client = "widget", WidgetInv, NEW s \in DOMAIN link.sock, Bus!SocketOpens(s) PROVE WidgetInv'
<1> DEFINE opened == [link EXCEPT !.sock[s].st = "open", !.attempts = 0, !.state = "connected"]
<1>0. DOMAIN link = LinkFields /\ DOMAIN link.sock[s] = SocketFields /\ ~link.sock[s].advanced /\ link.sock[s].url \in Nat
  BY DEF WidgetInv, LinkTyped
<1>1. /\ DOMAIN opened = LinkFields /\ DOMAIN opened.sock = DOMAIN link.sock
      /\ \A i \in DOMAIN link.sock : opened.sock[i] = IF i = s THEN [link.sock[s] EXCEPT !.st = "open"] ELSE link.sock[i]
      /\ opened.ws = link.ws /\ opened.state = "connected" /\ opened.armed = link.armed /\ opened.owned = link.owned /\ opened.attempts = 0
  BY <1>0 DEF LinkFields
<1>2. \A i \in DOMAIN opened.sock :
         DOMAIN opened.sock[i] = SocketFields /\ opened.sock[i].st \in {"opening", "open"} /\ ~opened.sock[i].advanced /\ opened.sock[i].url \in Nat
  BY <1>0, <1>1 DEF WidgetInv, LinkTyped, SocketFields
<1>3. \E new : /\ link' = new
               /\ DOMAIN new = LinkFields /\ DOMAIN new.sock = DOMAIN link.sock
               /\ new.ws = link.ws /\ new.state = "connected" /\ new.armed = link.armed /\ new.owned = link.owned /\ new.attempts = 0
               /\ \A i \in DOMAIN new.sock :
                     DOMAIN new.sock[i] = SocketFields /\ new.sock[i].st \in {"opening", "open"} /\ ~new.sock[i].advanced /\ new.sock[i].url \in Nat
  <2> DEFINE new == [opened EXCEPT !.sock[opened.ws].greeted = TRUE]
  <2>1. link' = IF Bus!Open(opened) THEN new ELSE opened
    BY DEF Bus!SocketOpens, Bus!Become, Bus!OnOpen
  <2> HIDE DEF opened
  <2>2. CASE Bus!Open(opened)
    <3>1. opened.ws \in DOMAIN opened.sock
      BY <2>2 DEF Bus!Open
    <3>2. DOMAIN new = LinkFields /\ DOMAIN new.sock = DOMAIN opened.sock /\ new.ws = opened.ws /\ new.state = opened.state
          /\ new.armed = opened.armed /\ new.owned = opened.owned /\ new.attempts = opened.attempts
          /\ \A i \in DOMAIN opened.sock : new.sock[i] = IF i = opened.ws THEN [opened.sock[i] EXCEPT !.greeted = TRUE] ELSE opened.sock[i]
      BY <1>1, <3>1 DEF LinkFields
    <3>3. \A i \in DOMAIN new.sock :
             DOMAIN new.sock[i] = SocketFields /\ new.sock[i].st \in {"opening", "open"} /\ ~new.sock[i].advanced /\ new.sock[i].url \in Nat
      BY <1>2, <3>2 DEF SocketFields
    <3> HIDE DEF new
    <3> QED BY <2>1, <2>2, <1>1, <3>2, <3>3
  <2>3. CASE ~Bus!Open(opened)
    BY <2>1, <2>3, <1>1, <1>2
  <2> QED BY <2>2, <2>3
<1>4. PICK new : /\ link' = new
               /\ DOMAIN new = LinkFields /\ DOMAIN new.sock = DOMAIN link.sock
               /\ new.ws = link.ws /\ new.state = "connected" /\ new.armed = link.armed /\ new.owned = link.owned /\ new.attempts = 0
               /\ \A i \in DOMAIN new.sock :
                     DOMAIN new.sock[i] = SocketFields /\ new.sock[i].st \in {"opening", "open"} /\ ~new.sock[i].advanced /\ new.sock[i].url \in Nat
  BY <1>3
<1>5. new.attempts \in 0..MaxAttempts /\ (new.owned <=> new.armed = 1) /\ new.armed \in {0, 1} /\ DOMAIN new.sock \subseteq Slots
  BY <1>4 DEF BusAssumption, WidgetInv, LinkTyped
<1>6. LinkTyped(new) /\ WidgetLink(new)
  BY <1>4, <1>5 DEF LinkTyped, WidgetInv, WidgetLink
<1> QED BY <1>4, <1>6 DEF WidgetInv

\* A link that is about to forget socket s.
Parting(c, s) ==
    /\ DOMAIN c = LinkFields
    /\ c.armed \in {0, 1} /\ (c.owned <=> c.armed = 1)
    /\ c.attempts \in 0..MaxAttempts
    /\ DOMAIN c.sock \subseteq Slots
    /\ \A i \in DOMAIN c.sock \ {s} :
          DOMAIN c.sock[i] = SocketFields /\ c.sock[i].st \in {"opening", "open"} /\ ~c.sock[i].advanced /\ c.sock[i].url \in Nat
    /\ Cardinality(DOMAIN c.sock \ {s}) <= MaxSockets

OpeningBut(c, s) == \E i \in DOMAIN c.sock \ {s} : c.sock[i].st = "opening"

LEMMA FewerSockets ==
  ASSUME BusAssumption, LinkTyped(link), WidgetLink(link), NEW s \in DOMAIN link.sock
  PROVE  DOMAIN link.sock \subseteq Slots /\ Cardinality(DOMAIN link.sock \ {s}) <= MaxSockets
<1>1. DOMAIN link.sock \subseteq Slots /\ IsFiniteSet(DOMAIN link.sock) /\ Cardinality(DOMAIN link.sock) \in Nat
      /\ Cardinality(DOMAIN link.sock) <= MaxSockets /\ MaxSockets \in Nat
  BY FewSockets DEF WidgetLink, BusAssumption
<1>2. Cardinality(DOMAIN link.sock \ {s}) = Cardinality(DOMAIN link.sock) - 1
  BY <1>1, FS_RemoveElement
<1> QED BY <1>1, <1>2

\* Once its handlers have run, a socket that closes or fails is forgotten.
LEMMA WidgetForgets ==
  ASSUME BusAssumption, NEW c, NEW s \in Slots,
         Parting(c, s),
         c.state = "disconnected" => c.ws = 0,
         c.state = "connecting" => OpeningBut(c, s)
  PROVE  LET d == Bus!Forget(c, s) IN LinkTyped(d) /\ WidgetLink(d) /\ d.state = c.state /\ d.armed = c.armed
<1> DEFINE d == Bus!Forget(c, s)
<1>1. /\ DOMAIN d = LinkFields /\ DOMAIN d.sock = DOMAIN c.sock \ {s} /\ \A i \in DOMAIN d.sock : d.sock[i] = c.sock[i]
      /\ d.state = c.state /\ d.ws = c.ws /\ d.armed = c.armed /\ d.owned = c.owned /\ d.attempts = c.attempts
  BY DEF Bus!Forget, Bus!Restrict, LinkFields, Parting
<1> HIDE DEF d
<1>2. LinkTyped(d)
  BY <1>1 DEF LinkTyped, Parting
<1>3. WidgetLink(d)
  BY <1>1 DEF WidgetLink, Parting, OpeningBut
<1>4. d.state = c.state /\ d.armed = c.armed
  BY <1>1
<1> QED BY <1>2, <1>3, <1>4 DEF d

\* The widget goes on to the next address, or waits for its timer.
LEMMA WidgetAdvances ==
  ASSUME BusAssumption, client = "widget", LinkTyped(link), WidgetLink(link),
         NEW c, NEW s \in DOMAIN link.sock, c = link \/ c = [link EXCEPT !.ws = 0], c.state = "connecting"
  PROVE  LET d == Bus!Advance(c, s) IN
         /\ Parting(d, s) /\ s \in DOMAIN d.sock /\ d.sock[s].advanced
         /\ \/ d.state = "connecting" /\ OpeningBut(d, s)
            \/ d.state = "disconnected" /\ d.ws = 0 /\ d.armed = 1
<1> DEFINE next == link.sock[s].url + 1
           left == [c EXCEPT !.sock[s].advanced = TRUE, !.ws = 0]
           d == Bus!TryConnect(left, next)
<1>1. /\ DOMAIN link = LinkFields /\ link.armed \in {0, 1} /\ (link.owned <=> link.armed = 1) /\ link.attempts \in 0..MaxAttempts
      /\ \A i \in DOMAIN link.sock :
            DOMAIN link.sock[i] = SocketFields /\ link.sock[i].st \in {"opening", "open"} /\ ~link.sock[i].advanced /\ link.sock[i].url \in Nat
  BY DEF LinkTyped
<1>2. DOMAIN c = LinkFields /\ c.sock = link.sock /\ c.armed = link.armed /\ c.owned = link.owned /\ c.attempts = link.attempts
  BY <1>1 DEF LinkFields
<1>3. Bus!Advance(c, s) = d
  BY <1>1, <1>2 DEF Bus!Advance
<1>4. /\ DOMAIN left = LinkFields /\ DOMAIN left.sock = DOMAIN link.sock /\ left.sock[s].advanced /\ left.ws = 0
      /\ \A i \in DOMAIN link.sock \ {s} : left.sock[i] = link.sock[i]
      /\ left.state = "connecting" /\ left.armed = link.armed /\ left.owned = link.owned /\ left.attempts = link.attempts
  BY <1>1, <1>2 DEF LinkFields, SocketFields
<1>5. DOMAIN link.sock \subseteq Slots /\ IsFiniteSet(DOMAIN link.sock) /\ Cardinality(DOMAIN link.sock) \in Nat
      /\ Cardinality(DOMAIN link.sock) <= MaxSockets /\ MaxSockets \in Nat
  BY FewSockets DEF WidgetLink, BusAssumption
<1>6. Cardinality(DOMAIN link.sock \ {s}) = Cardinality(DOMAIN link.sock) - 1
  BY <1>5, FS_RemoveElement
<1> HIDE DEF left
<1>7. CASE next <= Urls
  <2>1. next \in 1..Urls /\ \E i \in Slots : i \notin DOMAIN left.sock
    BY <1>1, <1>4, <1>5, <1>7, FreeSlot DEF BusAssumption
  <2>2. /\ DOMAIN d = LinkFields /\ d.ws \in Slots \ DOMAIN link.sock /\ DOMAIN d.sock = DOMAIN link.sock \cup {d.ws}
        /\ d.sock[d.ws] = [st |-> "opening", url |-> next, advanced |-> FALSE, greeted |-> FALSE]
        /\ \A i \in DOMAIN link.sock : d.sock[i] = left.sock[i]
        /\ d.state = "connecting" /\ d.armed = link.armed /\ d.owned = link.owned /\ d.attempts = link.attempts
    BY <1>4, <2>1, Dialled
  <2> HIDE DEF d
  <2>3. DOMAIN d.sock \ {s} = (DOMAIN link.sock \ {s}) \cup {d.ws} /\ d.ws \notin DOMAIN link.sock \ {s}
    BY <2>2
  <2>4. Cardinality(DOMAIN d.sock \ {s}) <= MaxSockets
    <3>1. IsFiniteSet(DOMAIN link.sock \ {s})
      BY <1>5, FS_RemoveElement
    <3>2. Cardinality((DOMAIN link.sock \ {s}) \cup {d.ws}) = Cardinality(DOMAIN link.sock \ {s}) + 1
      BY <3>1, <2>3, FS_AddElement
    <3>3. Cardinality(DOMAIN d.sock \ {s}) = Cardinality(DOMAIN link.sock \ {s}) + 1
      BY <3>2, <2>3
    <3>4. Cardinality(DOMAIN d.sock \ {s}) = Cardinality(DOMAIN link.sock)
      BY <3>3, <1>5, <1>6
    <3> QED BY <3>4, <1>5
  <2>5. DOMAIN d.sock[d.ws] = SocketFields /\ d.sock[d.ws].st = "opening" /\ ~d.sock[d.ws].advanced /\ d.sock[d.ws].url \in Nat
    BY <2>1, <2>2 DEF SocketFields
  <2>6. \A i \in DOMAIN d.sock \ {s} :
           DOMAIN d.sock[i] = SocketFields /\ d.sock[i].st \in {"opening", "open"} /\ ~d.sock[i].advanced /\ d.sock[i].url \in Nat
    BY <1>1, <1>4, <2>2, <2>3, <2>5
  <2>7. s \in DOMAIN d.sock /\ d.sock[s].advanced /\ DOMAIN d.sock \subseteq Slots
    BY <1>4, <1>5, <2>2
  <2>8. OpeningBut(d, s)
    BY <2>3, <2>5 DEF OpeningBut
  <2>9. Parting(d, s)
    BY <1>1, <2>2, <2>4, <2>6, <2>7 DEF Parting
  <2> QED BY <1>3, <2>2, <2>7, <2>8, <2>9
<1>8. CASE next > Urls
  <2> DEFINE rest == [left EXCEPT !.ws = 0]
  <2>1. d = Bus!ScheduleReconnect(rest)
    BY <1>8 DEF Bus!TryConnect, Bus!Exhausted
  <2>2. DOMAIN rest = LinkFields /\ rest.sock = left.sock /\ rest.ws = 0 /\ rest.armed = link.armed /\ rest.owned = link.owned
        /\ rest.attempts = link.attempts
    BY <1>4 DEF LinkFields
  <2> HIDE DEF rest, d
  <2>3. /\ DOMAIN d = LinkFields /\ d.state = "disconnected" /\ d.armed = 1 /\ d.owned
        /\ d.sock = left.sock /\ d.ws = 0 /\ d.attempts = link.attempts
    BY <1>1, <2>1, <2>2, WidgetSchedules
  <2>4. Parting(d, s)
    <3>1. DOMAIN d.sock = DOMAIN link.sock /\ \A i \in DOMAIN link.sock \ {s} : d.sock[i] = link.sock[i]
      BY <1>4, <2>3
    <3>2. Cardinality(DOMAIN d.sock \ {s}) <= MaxSockets
      BY <3>1, <1>5, <1>6
    <3> QED BY <1>1, <1>5, <2>3, <3>1, <3>2 DEF Parting
  <2> QED BY <1>3, <1>4, <2>3, <2>4
<1> QED BY <1>1, <1>7, <1>8 DEF BusAssumption

LEMMA WidgetFails ==
  ASSUME BusAssumption, client = "widget", WidgetInv, NEW s \in DOMAIN link.sock, Bus!SocketFails(s) PROVE WidgetInv'
<1> DEFINE a == Bus!Advance(link, s)
           b == Bus!OnClose(a, s, FALSE)
<1>1. LinkTyped(link) /\ WidgetLink(link) /\ link' = Bus!Forget(b, s) /\ s \in Slots /\ DOMAIN link = LinkFields
  BY DEF WidgetInv, LinkTyped, Bus!SocketFails, Bus!Become
<1>2. /\ Parting(b, s)
      /\ b.state = "disconnected" => b.ws = 0 /\ b.armed = 1
      /\ b.state = "connecting" => OpeningBut(b, s)
  <2>1. CASE link.state = "connecting"
    <3>1. /\ Parting(a, s) /\ s \in DOMAIN a.sock /\ a.sock[s].advanced
          /\ \/ a.state = "connecting" /\ OpeningBut(a, s)
             \/ a.state = "disconnected" /\ a.ws = 0 /\ a.armed = 1
      BY <1>1, <2>1, WidgetAdvances
    <3> DEFINE left == [a EXCEPT !.ws = 0]
    <3> HIDE DEF a
    <3>2. /\ DOMAIN left = LinkFields /\ left.sock = a.sock /\ left.ws = 0 /\ left.state = a.state /\ left.armed = a.armed
          /\ left.owned = a.owned /\ left.attempts = a.attempts
      BY <3>1 DEF LinkFields, Parting
    <3>3. CASE a.state = "connecting"
      <4>1. b = left
        BY <3>1, <3>2, <3>3 DEF Bus!OnClose, Bus!Advance
      <4> QED BY <3>1, <3>2, <3>3, <4>1 DEF Parting, OpeningBut
    <3>4. CASE a.state = "disconnected"
      <4> DEFINE rest == [left EXCEPT !.state = "disconnected"]
      <4>1. b = Bus!ScheduleReconnect(rest)
        BY <3>4 DEF Bus!OnClose
      <4>2. /\ DOMAIN rest = LinkFields /\ rest.sock = a.sock /\ rest.ws = 0 /\ rest.armed = a.armed
            /\ rest.owned = a.owned /\ rest.attempts = a.attempts
        BY <3>2 DEF LinkFields
      <4> HIDE DEF rest, left, b
      <4>3. /\ DOMAIN b = LinkFields /\ b.state = "disconnected" /\ b.armed = 1 /\ b.owned
            /\ b.sock = a.sock /\ b.ws = 0 /\ b.attempts = a.attempts
        BY <3>1, <4>1, <4>2, WidgetSchedules DEF Parting
      <4> QED BY <3>1, <4>3 DEF Parting
    <3> QED BY <3>1, <3>3, <3>4
  <2>2. CASE link.state # "connecting"
    <3> DEFINE rest == [[link EXCEPT !.ws = 0] EXCEPT !.state = "disconnected"]
    <3>1. b = Bus!ScheduleReconnect(rest)
      <4>1. a = link
        BY <2>2 DEF Bus!Advance
      <4> QED BY <2>2, <4>1 DEF Bus!OnClose
    <3>2. /\ DOMAIN rest = LinkFields /\ rest.sock = link.sock /\ rest.ws = 0 /\ rest.armed = link.armed
          /\ rest.owned = link.owned /\ rest.attempts = link.attempts
      BY <1>1 DEF LinkFields
    <3> HIDE DEF rest, b
    <3>3. /\ link.armed \in {0, 1} /\ (link.owned <=> link.armed = 1) /\ link.attempts \in 0..MaxAttempts
          /\ \A i \in DOMAIN link.sock :
                DOMAIN link.sock[i] = SocketFields /\ link.sock[i].st \in {"opening", "open"} /\ ~link.sock[i].advanced /\ link.sock[i].url \in Nat
      BY <1>1 DEF LinkTyped
    <3>4. /\ DOMAIN b = LinkFields /\ b.state = "disconnected" /\ b.armed = 1 /\ b.owned
          /\ b.sock = link.sock /\ b.ws = 0 /\ b.attempts = link.attempts
      BY <3>1, <3>2, <3>3, WidgetSchedules
    <3>5. Cardinality(DOMAIN link.sock \ {s}) <= MaxSockets /\ DOMAIN link.sock \subseteq Slots
      BY <1>1, FewerSockets
    <3> QED BY <3>3, <3>4, <3>5 DEF Parting
  <2> QED BY <2>1, <2>2
<1> HIDE DEF a, b
<1>3. LinkTyped(link') /\ WidgetLink(link') /\ link'.state = b.state /\ link'.armed = b.armed
  BY <1>1, <1>2, WidgetForgets
<1> QED BY <1>2, <1>3 DEF WidgetInv

LEMMA WidgetCloses ==
  ASSUME BusAssumption, client = "widget", WidgetInv, NEW s \in DOMAIN link.sock, NEW refused \in BOOLEAN, Bus!SocketCloses(s, refused)
  PROVE  WidgetInv'
<1> DEFINE left == [link EXCEPT !.ws = 0]
           b == Bus!OnClose(link, s, refused)
<1>1. LinkTyped(link) /\ WidgetLink(link) /\ link' = Bus!Forget(b, s) /\ s \in Slots /\ DOMAIN link = LinkFields
  BY DEF WidgetInv, LinkTyped, Bus!SocketCloses, Bus!Become
<1>2. /\ DOMAIN left = LinkFields /\ left.sock = link.sock /\ left.ws = 0 /\ left.state = link.state /\ left.armed = link.armed
      /\ left.owned = link.owned /\ left.attempts = link.attempts
  BY <1>1 DEF LinkFields
<1>3. /\ link.armed \in {0, 1} /\ (link.owned <=> link.armed = 1) /\ link.attempts \in 0..MaxAttempts
      /\ \A i \in DOMAIN link.sock :
            DOMAIN link.sock[i] = SocketFields /\ link.sock[i].st \in {"opening", "open"} /\ ~link.sock[i].advanced /\ link.sock[i].url \in Nat
      /\ Cardinality(DOMAIN link.sock \ {s}) <= MaxSockets /\ DOMAIN link.sock \subseteq Slots
  BY <1>1, FewerSockets DEF LinkTyped
<1>4. /\ Parting(b, s)
      /\ b.state = "disconnected" => b.ws = 0 /\ b.armed = 1
      /\ b.state = "connecting" => OpeningBut(b, s)
  <2>1. CASE link.state = "connecting"
    <3>1. b = Bus!Advance(left, s) /\ left.state = "connecting"
      BY <2>1, <1>2 DEF Bus!OnClose
    <3>3. left = [link EXCEPT !.ws = 0]
      OBVIOUS
    <3> HIDE DEF left, b
    <3>2. /\ Parting(b, s) /\ s \in DOMAIN b.sock /\ b.sock[s].advanced
          /\ \/ b.state = "connecting" /\ OpeningBut(b, s)
             \/ b.state = "disconnected" /\ b.ws = 0 /\ b.armed = 1
      <4>1. link \in {link} /\ LinkTyped(link) /\ WidgetLink(link) /\ left.state = "connecting" /\ b = Bus!Advance(left, s)
        BY <1>1, <3>1
      <4> HIDE <1>1, <3>1
      <4> QED BY ONLY <4>1, <3>3, WidgetAdvances, BusAssumption, client = "widget", s \in DOMAIN link.sock
    <3> QED BY <3>2
  <2>2. CASE link.state # "connecting" /\ refused
    <3>1. b = [left EXCEPT !.state = "error"]
      BY <2>2 DEF Bus!OnClose
    <3>2. /\ DOMAIN b = LinkFields /\ b.sock = link.sock /\ b.state = "error" /\ b.armed = link.armed
          /\ b.owned = link.owned /\ b.attempts = link.attempts
      BY <3>1, <1>2 DEF LinkFields
    <3> HIDE DEF b, left
    <3> QED BY <3>2, <1>3 DEF Parting
  <2>3. CASE link.state # "connecting" /\ ~refused
    <3> DEFINE rest == [left EXCEPT !.state = "disconnected"]
    <3>1. b = Bus!ScheduleReconnect(rest)
      BY <2>3 DEF Bus!OnClose
    <3>2. /\ DOMAIN rest = LinkFields /\ rest.sock = link.sock /\ rest.ws = 0 /\ rest.armed = link.armed
          /\ rest.owned = link.owned /\ rest.attempts = link.attempts
      BY <1>2 DEF LinkFields
    <3> HIDE DEF rest, b, left
    <3>3. /\ DOMAIN b = LinkFields /\ b.state = "disconnected" /\ b.armed = 1 /\ b.owned
          /\ b.sock = link.sock /\ b.ws = 0 /\ b.attempts = link.attempts
      BY <1>3, <3>1, <3>2, WidgetSchedules
    <3> QED BY <1>3, <3>3 DEF Parting
  <2> QED BY <2>1, <2>2, <2>3
<1> HIDE DEF left, b
<1>5. LinkTyped(link') /\ WidgetLink(link') /\ link'.state = b.state /\ link'.armed = b.armed
  BY <1>1, <1>4, WidgetForgets
<1> QED BY <1>4, <1>5 DEF WidgetInv

LEMMA BusStepHolds == ASSUME BusAssumption, BusInv, [Bus!Next]_(Bus!busVars) PROVE BusInv'
<1>1. client' = client /\ (overlapped => overlapped')
  <2>1. CASE Bus!Connect
    BY <2>1 DEF Bus!Connect, Bus!Become
  <2>2. CASE Bus!TimerFires
    <3>1. PICK known \in BOOLEAN :
             LET left == [link EXCEPT !.armed = @ - 1, !.owned = @ /\ ~known] IN
             /\ Bus!Become(Bus!Dial(left))
             /\ overlapped' = (overlapped \/ (client = "page" /\ ~Bus!Open(left) /\ (Bus!Opening(left) # {} \/ left.armed > 0)))
      BY <2>2 DEF Bus!TimerFires
    <3> DEFINE left == [link EXCEPT !.armed = @ - 1, !.owned = @ /\ ~known]
    <3>2. Bus!Become(Bus!Dial(left)) /\ (overlapped => overlapped')
      BY <3>1, Zenon
    <3> QED BY <3>2, Zenon DEF Bus!Become
  <2>3. CASE Bus!Disconnect
    BY <2>3 DEF Bus!Disconnect, Bus!Become
  <2>4. ASSUME NEW s \in DOMAIN link.sock, Bus!SocketOpens(s) \/ Bus!SocketFails(s) \/ \E refused \in BOOLEAN : Bus!SocketCloses(s, refused)
        PROVE  client' = client /\ (overlapped => overlapped')
    <3>1. UNCHANGED <<client, overlapped>>
      BY <2>4, Zenon DEF Bus!SocketOpens, Bus!SocketFails, Bus!SocketCloses, Bus!Become
    <3> QED BY <3>1
  <2>5. CASE Bus!SendUtterance \/ Bus!UtteranceEnds \/ UNCHANGED Bus!busVars
    BY <2>5 DEF Bus!SendUtterance, Bus!UtteranceEnds, Bus!busVars
  <2> QED BY <2>1, <2>2, <2>3, <2>4, <2>5 DEF Bus!Next
<1>2. ASSUME client = "page", ~overlapped' PROVE PageInv'
  <2>1. PageInv
    BY <1>1, <1>2 DEF BusInv
  <2>2. CASE Bus!UtteranceEnds \/ UNCHANGED Bus!busVars
    BY <2>1, <2>2 DEF Bus!UtteranceEnds, Bus!busVars, PageInv
  <2>3. ~Bus!SendUtterance
    BY <1>2 DEF Bus!SendUtterance
  <2> QED BY <1>2, <2>1, <2>2, <2>3, PageConnects, PageTimer, PageDisconnects, PageOpensSocket, PageFails, PageCloses DEF Bus!Next
<1>3. ASSUME client = "widget" PROVE WidgetInv'
  <2>1. WidgetInv
    BY <1>3 DEF BusInv
  <2>2. CASE Bus!UtteranceEnds \/ UNCHANGED Bus!busVars
    BY <2>1, <2>2 DEF Bus!UtteranceEnds, Bus!busVars, WidgetInv
  <2>3. ~Bus!Disconnect
    BY <1>3 DEF Bus!Disconnect
  <2> QED BY <1>3, <2>1, <2>2, <2>3, WidgetConnects, WidgetTimer, WidgetOpens, WidgetFails, WidgetCloses DEF Bus!Next
<1> QED BY <1>1, <1>2, <1>3 DEF BusInv

\* Whatever opens, fails, closes and fires, a page that never dialled twice at once
\* says connected exactly when its one socket is open and greeted and comes back by
\* exactly one timer (hivemind.ts:196-345), and a widget comes back by a timer or a
\* socket unless it was refused (ConnectionManager.ts:189-330).
THEOREM ConnectionsHold == ASSUME BusAssumption PROVE ServicesSpec => []ConnectionHolds
<1> DEFINE Inv == focus = "bus" => BusInv
<1>1. ServicesInit => Inv
  BY ServicesStarts, BusInitHolds
<1>2. Inv /\ [ServicesNext]_allVars => Inv'
  BY ServicesSteps, BusStepHolds
<1>3. Inv => ConnectionHolds
  <2> SUFFICES ASSUME BusInv PROVE Bus!PageHolds /\ Bus!WidgetComesBack
    BY DEF ConnectionHolds, Bus!ConnectionHolds
  <2>1. Bus!PageHolds
    BY OpenPage DEF BusInv, PageInv, PageLink, LinkTyped, Bus!PageHolds
  <2>2. Bus!WidgetComesBack
    BY DEF BusInv, WidgetInv, WidgetLink, LinkTyped, Bus!WidgetComesBack, Bus!Opening
  <2> QED BY <2>1, <2>2
<1> QED BY <1>1, <1>2, <1>3, PTL DEF ServicesSpec

----------------------------------------------------------------------------
(* KpiCollection: a point of the trend is recorded once.                   *)

KpisAssumption == MinPoints \in Nat \ {0} /\ LastMonth \in Nat \ {0} /\ MaxPlatform \in Nat

CallFields == {"pc", "todo", "try", "seen", "at"}
Began == [month : 1..LastMonth, plat : 0..MaxPlatform]

KpisTyped ==
    /\ DOMAIN task = {"boot", "loop"} /\ \A t \in {"boot", "loop"} : DOMAIN task[t] = CallFields /\ task[t].at \in Began
    /\ snaps \in [Kpis!Metrics -> [Kpis!Rows -> Nat]]
    /\ clock \in [month : 1..LastMonth, plat : 0..MaxPlatform, honours : BOOLEAN]

\* The stored points of the trend at one time are one row, counted once.
IsPoint(m, r) == r \in Kpis!Stored(m) /\ r.src = "trend"
PointsAreOne ==
    \A m \in Kpis!Metrics : \A r \in Kpis!Rows :
        IsPoint(m, r) => /\ snaps[m][r] = 1
                         /\ \A q \in Kpis!Rows : IsPoint(m, q) /\ q.at = r.at => q = r

\* While the trend is awaited, the times of the stored points of its period are known.
PointsAreSeen ==
    LET b == task["boot"] IN
    b.pc = "filling" /\ Kpis!First(b.todo) \in Kpis!Metrics =>
        \A r \in Kpis!Rows : IsPoint(Kpis!First(b.todo), r) /\ Kpis!InWindow(r, b.at) => r.at \in b.seen

KpisInv == KpisTyped /\ (clock.honours => PointsAreOne /\ PointsAreSeen)

\* Sums over no row, and over one.
LEMMA TotalOfNone == ASSUME NEW m PROVE Kpis!Total(m, {}) = 0
<1> DEFINE Body(f) == [s \in SUBSET {} |-> IF s = {} THEN 0
                        ELSE LET x == CHOOSE x \in s : TRUE IN snaps[m][x] + f[s \ {x}]]
           sum == CHOOSE f : f = Body(f)
<1>1. [s \in SUBSET {} |-> 0] = Body([s \in SUBSET {} |-> 0])
  OBVIOUS
<1>2. sum = Body(sum)
  BY <1>1
<1>3. sum[{}] = 0
  BY <1>2
<1>4. Kpis!Total(m, {}) = sum[{}]
  BY DEF Kpis!Total, Kpis!MapThenSumSet, Kpis!MapThenFoldSet
<1> QED BY <1>3, <1>4

LEMMA TotalOfOne == ASSUME NEW m, NEW r, snaps[m][r] \in Nat PROVE Kpis!Total(m, {r}) = snaps[m][r]
<1> DEFINE Body(f) == [s \in SUBSET {r} |-> IF s = {} THEN 0
                        ELSE LET x == CHOOSE x \in s : TRUE IN snaps[m][x] + f[s \ {x}]]
           sum == CHOOSE f : f = Body(f)
           one == [s \in SUBSET {r} |-> IF s = {} THEN 0 ELSE snaps[m][r]]
<1>1. one = Body(one)
  <2>1. ASSUME NEW s \in SUBSET {r} PROVE one[s] = Body(one)[s]
    <3>1. CASE s = {}
      BY <3>1
    <3>2. CASE s = {r}
      <4>1. (CHOOSE x \in {r} : TRUE) = r /\ {r} \ {r} = {} /\ one[{}] = 0 /\ one[{r}] = snaps[m][r]
        OBVIOUS
      <4>2. Body(one)[{r}] = snaps[m][r] + one[{r} \ {r}]
        BY <4>1
      <4> QED BY <3>2, <4>1, <4>2
    <3> QED BY <3>1, <3>2
  <2> QED BY <2>1
<1>2. sum = Body(sum)
  BY <1>1
<1> HIDE DEF sum
<1>3. sum[{}] = 0
  BY <1>2
<1>4. sum[{r}] = snaps[m][r]
  <2>1. (CHOOSE x \in {r} : TRUE) = r /\ {r} \ {r} = {} /\ {r} # {} /\ {r} \in SUBSET {r}
    OBVIOUS
  <2>2. Body(sum)[{r}] = snaps[m][r] + sum[{}]
    BY <2>1
  <2> QED BY <1>2, <1>3, <2>2
<1>5. Kpis!Total(m, {r}) = sum[{r}]
  BY DEF Kpis!Total, Kpis!MapThenSumSet, Kpis!MapThenFoldSet, sum
<1> QED BY <1>4, <1>5

LEMMA KpisInitHolds == ASSUME KpisAssumption, Kpis!Init PROVE KpisInv
<1>1. KpisTyped
  BY DEF KpisAssumption, Kpis!Init, KpisTyped, Kpis!Idle, CallFields, Began
<1>2. PointsAreOne
  BY DEF Kpis!Init, PointsAreOne, IsPoint, Kpis!Stored
<1>3. PointsAreSeen
  BY DEF Kpis!Init, PointsAreSeen, Kpis!Idle
<1> QED BY <1>1, <1>2, <1>3 DEF KpisInv

\* The rows and the months stay, and "boot" does not come to await a trend.
LEMMA KpisTasksHold ==
  ASSUME KpisAssumption, KpisInv, UNCHANGED <<snaps, clock>>,
         KpisTyped', task'["boot"].pc # "filling" \/ task'["boot"] = task["boot"]
  PROVE  KpisInv'
BY DEF KpisInv, PointsAreOne, PointsAreSeen, IsPoint, Kpis!Stored

\* What `t` waits at after a step; no attempt begins with a call under way.
LEMMA GotoTyped ==
  ASSUME KpisAssumption, KpisTyped, NEW t \in {"boot", "loop"}, NEW stage, NEW todo, stage # "filling",
         snaps' \in [Kpis!Metrics -> [Kpis!Rows -> Nat]], UNCHANGED clock,
         Kpis!Goto(t, stage, todo) \/ Kpis!Open(t, stage, todo) \/ Kpis!Fail(t)
  PROVE  KpisTyped' /\ (task'["boot"].pc # "filling" \/ task'["boot"] = task["boot"])
<1>1. CASE Kpis!Goto(t, stage, todo)
  BY <1>1 DEF Kpis!Goto, KpisTyped, Kpis!Idle, CallFields, Began, KpisAssumption
<1>2. CASE Kpis!Open(t, stage, todo)
  BY <1>2 DEF Kpis!Open, KpisTyped, CallFields, Began, KpisAssumption
<1>3. CASE Kpis!Fail(t)
  BY <1>3 DEF Kpis!Fail, KpisTyped, Kpis!Idle, CallFields, Began, KpisAssumption
<1> QED BY <1>1, <1>2, <1>3

LEMMA RecordedTyped ==
  ASSUME snaps \in [Kpis!Metrics -> [Kpis!Rows -> Nat]], NEW m, NEW R
  PROVE  Kpis!Recorded(m, R) \in [Kpis!Metrics -> [Kpis!Rows -> Nat]]
<1>1. \A r \in Kpis!Rows, n \in Nat : Kpis!Counted(r, n) \in Nat
  BY DEF Kpis!Counted
<1> DEFINE row == [r \in Kpis!Rows |-> IF r \in R THEN Kpis!Counted(r, snaps[m][r]) ELSE snaps[m][r]]
<1>2. Kpis!Recorded(m, R) = [snaps EXCEPT ![m] = row]
  BY DEF Kpis!Recorded
<1>3. m \in Kpis!Metrics => row \in [Kpis!Rows -> Nat]
  BY <1>1
<1> HIDE DEF row
<1> QED BY <1>2, <1>3

\* Recording rows that are no points of the trend leaves those as they are.
LEMMA OtherRowsHold ==
  ASSUME KpisAssumption, KpisTyped, NEW m, NEW R, \A r \in R : r.src # "trend", snaps' = Kpis!Recorded(m, R)
  PROVE  /\ snaps' \in [Kpis!Metrics -> [Kpis!Rows -> Nat]]
         /\ \A k \in Kpis!Metrics : \A r \in Kpis!Rows : r.src = "trend" => snaps'[k][r] = snaps[k][r]
<1>1. \A r \in Kpis!Rows, n \in Nat : Kpis!Counted(r, n) \in Nat
  BY DEF Kpis!Counted
<1>2. snaps \in [Kpis!Metrics -> [Kpis!Rows -> Nat]]
  BY DEF KpisTyped
<1> DEFINE new == [r \in Kpis!Rows |-> IF r \in R THEN Kpis!Counted(r, snaps[m][r]) ELSE snaps[m][r]]
<1>3. snaps' = [snaps EXCEPT ![m] = new]
  BY DEF Kpis!Recorded
<1>4. CASE m \in Kpis!Metrics
  <2>1. new \in [Kpis!Rows -> Nat]
    BY <1>1, <1>2, <1>4
  <2>2. \A r \in Kpis!Rows : r.src = "trend" => new[r] = snaps[m][r]
    OBVIOUS
  <2> HIDE DEF new
  <2> QED BY <1>2, <1>3, <1>4, <2>1, <2>2
<1>5. CASE m \notin Kpis!Metrics
  BY <1>2, <1>3, <1>5
<1> QED BY <1>4, <1>5

LEMMA SameRowsHold ==
  ASSUME KpisAssumption, KpisInv, KpisTyped', clock'.honours = clock.honours,
         \A k \in Kpis!Metrics : \A r \in Kpis!Rows : r.src = "trend" => snaps'[k][r] = snaps[k][r],
         task'["boot"].pc # "filling" \/ task'["boot"] = task["boot"]
  PROVE  KpisInv'
<1>1. \A k \in Kpis!Metrics : \A r \in Kpis!Rows : IsPoint(k, r)' <=> IsPoint(k, r)
  BY DEF IsPoint, Kpis!Stored
<1>2. PointsAreOne => PointsAreOne'
  BY <1>1 DEF PointsAreOne, IsPoint
<1>3. PointsAreSeen => PointsAreSeen'
  BY <1>1 DEF PointsAreSeen
<1> QED BY <1>2, <1>3 DEF KpisInv

\* A point asked for is recorded only if none of its time is stored.
LEMMA PointAddedHolds ==
  ASSUME KpisAssumption, KpisInv, task["boot"].pc = "filling", KpisTyped', UNCHANGED clock,
         task'["boot"].pc # "filling",
         snaps' = Kpis!Recorded(Kpis!First(task["boot"].todo),
                                {p \in Kpis!TrendPoints(task["boot"].at) : p.at \notin task["boot"].seen})
  PROVE  KpisInv'
<1> DEFINE b == task["boot"]  m == Kpis!First(b.todo)  p == Kpis!Trend(b.at.month - 1, b.at)
           new == {q \in Kpis!TrendPoints(b.at) : q.at \notin b.seen}
           row == [r \in Kpis!Rows |-> IF r \in new THEN Kpis!Counted(r, snaps[m][r]) ELSE snaps[m][r]]
<1> SUFFICES ASSUME clock.honours PROVE PointsAreOne' /\ PointsAreSeen'
  BY DEF KpisInv
<1>1. PointsAreSeen'
  BY DEF PointsAreSeen
<1>2. snaps \in [Kpis!Metrics -> [Kpis!Rows -> Nat]] /\ snaps' = [snaps EXCEPT ![m] = row]
  BY DEF KpisInv, KpisTyped, Kpis!Recorded
<1>3. new \subseteq {p}
  BY DEF Kpis!TrendPoints
<1>4. p.src = "trend" /\ p.at = 2 * (b.at.month - 1) /\ Kpis!InWindow(p, b.at)
  BY DEF Kpis!Trend, Kpis!InWindow, KpisInv, KpisTyped, Began, KpisAssumption
<1> HIDE DEF p
<1>5. CASE m \notin Kpis!Metrics \/ new = {}
  <2>1. snaps' = snaps
    <3>1. CASE m \notin Kpis!Metrics
      BY <3>1, <1>2
    <3>2. CASE m \in Kpis!Metrics /\ new = {}
      <4> HIDE DEF new
      <4>1. row = snaps[m]
        BY <3>2, <1>2
      <4> QED BY <4>1, <1>2
    <3> QED BY <3>1, <3>2, <1>5
  <2>2. PointsAreOne'
    BY <2>1 DEF KpisInv, PointsAreOne, IsPoint, Kpis!Stored
  <2> QED BY <2>2, <1>1
<1>6. CASE m \in Kpis!Metrics /\ new # {}
  <2>1. new = {p} /\ p.at \notin b.seen
    BY <1>3, <1>6
  <2>0. m \in Kpis!Metrics
    BY <1>6
  <2>2. \A r \in Kpis!Rows : IsPoint(m, r) => r.at # p.at
    BY <2>1, <1>4, <1>6 DEF KpisInv, PointsAreSeen, Kpis!InWindow
  <2>8. \A r \in Kpis!Rows : snaps[m][r] \in Nat
    BY <1>2, <2>0
  <2> HIDE DEF new, m, b
  <2>3. \A k \in Kpis!Metrics : k # m => snaps'[k] = snaps[k]
    BY <1>2, <2>0
  <2>4. \A r \in Kpis!Rows : snaps'[m][r] = IF r = p THEN Kpis!Counted(p, snaps[m][p]) ELSE snaps[m][r]
    BY <1>2, <1>6, <2>1
  <2>5. ASSUME p \in Kpis!Rows PROVE snaps'[m][p] = 1
    <3>1. snaps[m][p] = 0
      BY <2>2, <2>5, <2>8, <1>4 DEF IsPoint, Kpis!Stored
    <3> QED BY <3>1, <2>4, <2>5, <1>4 DEF Kpis!Counted, KpisAssumption
  <2>6. \A k \in Kpis!Metrics : \A r \in Kpis!Rows :
           IsPoint(k, r)' <=> IsPoint(k, r) \/ (k = m /\ r = p)
    BY <2>3, <2>4, <2>5, <2>0, <1>4 DEF IsPoint, Kpis!Stored
  <2>7. PointsAreOne'
    <3> SUFFICES ASSUME NEW k \in Kpis!Metrics, NEW r \in Kpis!Rows, IsPoint(k, r)'
                 PROVE  snaps'[k][r] = 1 /\ \A q \in Kpis!Rows : IsPoint(k, q)' /\ q.at = r.at => q = r
      BY DEF PointsAreOne
    <3>1. CASE k # m
      BY <3>1, <2>3, <2>6 DEF KpisInv, PointsAreOne
    <3>2. CASE k = m /\ r = p
      BY <3>2, <2>2, <2>5, <2>6
    <3>3. CASE k = m /\ r # p
      BY <3>3, <2>2, <2>4, <2>6 DEF KpisInv, PointsAreOne
    <3> QED BY <3>1, <3>2, <3>3
  <2> QED BY <2>7, <1>1
<1> QED BY <1>5, <1>6

\* The boot has the answer for a metric.
LEMMA BackNextHolds ==
  ASSUME KpisAssumption, KpisInv, Kpis!BackNext
  PROVE  KpisInv'
<1> DEFINE b == task["boot"]  m == Kpis!First(b.todo)
           new == {p \in Kpis!TrendPoints(b.at) : p.at \notin b.seen}
<1>1. KpisTyped /\ b.pc = "filling" /\ UNCHANGED clock
  BY DEF KpisInv, Kpis!BackNext
<1>2. snaps' \in [Kpis!Metrics -> [Kpis!Rows -> Nat]]
  <2>1. snaps \in [Kpis!Metrics -> [Kpis!Rows -> Nat]]
    BY <1>1 DEF KpisTyped
  <2>2. snaps' = snaps \/ \E R : snaps' = Kpis!Recorded(m, R)
    BY DEF Kpis!BackNext
  <2> QED BY <2>1, <2>2, RecordedTyped
<1>3. KpisTyped' /\ task'["boot"].pc # "filling"
  <2>1. Kpis!Goto("boot", "backfilling", Kpis!Rest(b.todo)) \/ Kpis!Fail("boot")
    BY DEF Kpis!BackNext
  <2> HIDE DEF b
  <2>2. KpisTyped' /\ (task'["boot"].pc # "filling" \/ task'["boot"] = task["boot"])
    BY <1>1, <1>2, <2>1, GotoTyped
  <2>3. task'["boot"].pc # "filling"
    <3>1. "boot" \in DOMAIN task /\ DOMAIN task["boot"] = CallFields
      BY <1>1 DEF KpisTyped
    <3>2. CASE Kpis!Goto("boot", "backfilling", Kpis!Rest(b.todo))
      <4> DEFINE rest == Kpis!Rest(b.todo)
      <4> HIDE DEF rest
      <4>1. Kpis!Goto("boot", "backfilling", rest)
        BY <3>2 DEF rest
      <4> QED BY <3>1, <4>1 DEF Kpis!Goto, CallFields
    <3>3. CASE Kpis!Fail("boot")
      BY <3>1, <3>3 DEF Kpis!Fail, Kpis!Idle
    <3> QED BY <2>1, <3>2, <3>3
  <2> QED BY <2>2, <2>3
<1>4. CASE snaps' = Kpis!Recorded(m, new)
  BY <1>1, <1>3, <1>4, PointAddedHolds
<1>5. CASE UNCHANGED snaps
  BY <1>1, <1>3, <1>5, KpisTasksHold
<1>6. CASE \E p \in new : snaps' = Kpis!Recorded(m, {q \in new : q.at < p.at})
  <2>1. PICK p \in new : snaps' = Kpis!Recorded(m, {q \in new : q.at < p.at})
    BY <1>6
  <2>2. CASE ~clock.honours
    BY <2>2, <1>1, <1>3 DEF KpisInv
  <2>3. CASE clock.honours
    <3>1. new \subseteq {Kpis!Trend(b.at.month - 1, b.at)}
      BY <2>3 DEF Kpis!TrendPoints
    <3>2. \A q \in new : q = p
      BY <3>1
    <3>3. p.at \in Int
      BY <3>1, <1>1 DEF Kpis!Trend, KpisTyped, Began, KpisAssumption
    <3>4. {q \in new : q.at < p.at} = {}
      BY <3>2, <3>3
    <3>5. snaps' = Kpis!Recorded(m, {})
      BY <2>1, <3>4
    <3>6. \A k \in Kpis!Metrics : \A r \in Kpis!Rows : r.src = "trend" => snaps'[k][r] = snaps[k][r]
      BY <1>1, <3>5, OtherRowsHold
    <3> QED BY <1>1, <1>3, <3>6, SameRowsHold
  <2> QED BY <2>2, <2>3
<1> QED BY <1>4, <1>5, <1>6 DEF Kpis!BackNext

\* Steps that do not write the snapshots, and those that write no trend.
LEMMA KpisQuietHold ==
  ASSUME KpisAssumption, KpisInv,
         \/ Kpis!StartService \/ Kpis!StopService \/ Kpis!IntervalEnds \/ Kpis!NextMonth \/ Kpis!ConfigurePlatform
         \/ Kpis!SeedBegin \/ Kpis!SeedNext \/ Kpis!BackBegin \/ Kpis!AlignBegin \/ Kpis!AlignNext \/ Kpis!AlignEnd
         \/ Kpis!TableFails
         \/ \E t \in {"boot", "loop"} : Kpis!Wake(t) \/ Kpis!CollectBegin(t) \/ Kpis!CollectEnd(t)
         \/ \E m \in Kpis!Metrics : Kpis!PostBaseline(m) \/ Kpis!DeleteBaseline(m)
         \/ UNCHANGED Kpis!vars
  PROVE  KpisInv'
<1>1. KpisTyped
  BY DEF KpisInv
<1>2. snaps \in [Kpis!Metrics -> [Kpis!Rows -> Nat]]
  BY <1>1 DEF KpisTyped
<1>3. ASSUME NEW t \in {"boot", "loop"}, NEW stage, NEW todo, stage # "filling",
             UNCHANGED <<snaps, clock>>, Kpis!Goto(t, stage, todo) \/ Kpis!Open(t, stage, todo) \/ Kpis!Fail(t)
      PROVE  KpisInv'
  BY <1>1, <1>2, <1>3, GotoTyped, KpisTasksHold
<1>4. CASE \/ Kpis!IntervalEnds \/ Kpis!SeedBegin \/ Kpis!SeedNext \/ Kpis!BackBegin \/ Kpis!AlignEnd \/ Kpis!TableFails
           \/ \E t \in {"boot", "loop"} : Kpis!Wake(t) \/ Kpis!CollectBegin(t)
  <2>1. UNCHANGED <<snaps, clock>>
    BY <1>4 DEF Kpis!IntervalEnds, Kpis!SeedBegin, Kpis!SeedNext, Kpis!BackBegin, Kpis!AlignEnd, Kpis!TableFails, Kpis!Wake,
       Kpis!CollectBegin
  <2>2. \E t \in {"boot", "loop"},
           stage \in {"seed", "coll", "seeding", "back", "align", "backfilling", "collecting"} : \E todo :
             Kpis!Goto(t, stage, todo) \/ Kpis!Open(t, stage, todo) \/ Kpis!Fail(t)
    <3>1. CASE Kpis!IntervalEnds
      BY <3>1 DEF Kpis!IntervalEnds
    <3>2. CASE Kpis!SeedBegin
      BY <3>2 DEF Kpis!SeedBegin
    <3>3. CASE Kpis!SeedNext
      BY <3>3 DEF Kpis!SeedNext
    <3>4. CASE Kpis!BackBegin
      BY <3>4 DEF Kpis!BackBegin
    <3>5. CASE Kpis!AlignEnd
      BY <3>5 DEF Kpis!AlignEnd
    <3>6. CASE \E t \in {"boot", "loop"} : Kpis!Wake(t)
      BY <3>6 DEF Kpis!Wake
    <3>7. CASE \E t \in {"boot", "loop"} : Kpis!CollectBegin(t)
      BY <3>7 DEF Kpis!CollectBegin
    <3>8. CASE Kpis!TableFails
      BY <3>8 DEF Kpis!TableFails
    <3> QED BY <1>4, <3>1, <3>2, <3>3, <3>4, <3>5, <3>6, <3>7, <3>8
  <2> QED BY <2>1, <2>2, <1>3
<1>5. CASE Kpis!StartService \/ Kpis!StopService \/ \E t \in {"boot", "loop"} : Kpis!CollectEnd(t)
  <2>1. KpisTyped' /\ (task'["boot"].pc # "filling" \/ task'["boot"] = task["boot"]) /\ UNCHANGED <<snaps, clock>>
    <3>1. CASE Kpis!StartService \/ Kpis!StopService
      BY <1>1, <3>1 DEF Kpis!StartService, Kpis!StopService, KpisTyped, Kpis!Idle, CallFields, Began, KpisAssumption
    <3>2. ASSUME NEW t \in {"boot", "loop"}, Kpis!CollectEnd(t)
          PROVE  /\ KpisTyped' /\ UNCHANGED <<snaps, clock>>
                 /\ task'["boot"].pc # "filling" \/ task'["boot"] = task["boot"]
      <4> DEFINE rested == [Kpis!Idle EXCEPT !.pc = IF t = "boot" THEN "done" ELSE "wait"]
      <4>1. rested.pc # "filling" /\ DOMAIN rested = CallFields /\ rested.at \in Began
        BY DEF Kpis!Idle, CallFields, Began, KpisAssumption
      <4>2. task' = [task EXCEPT ![t] = rested] /\ UNCHANGED <<snaps, clock>>
        BY <3>2 DEF Kpis!CollectEnd
      <4> HIDE DEF rested
      <4> QED BY <1>1, <4>1, <4>2 DEF KpisTyped
    <3> QED BY <1>5, <3>1, <3>2
  <2> QED BY <2>1, KpisTasksHold
<1>6. CASE Kpis!AlignBegin \/ Kpis!AlignNext
  <2>1. KpisTyped' /\ task'["boot"].pc # "filling" /\ UNCHANGED <<snaps, clock>>
    <3>1. CASE Kpis!AlignBegin
      BY <1>1, <3>1 DEF Kpis!AlignBegin, KpisTyped, CallFields
    <3>2. CASE Kpis!AlignNext
      <4> DEFINE rest == Kpis!Rest(task["boot"].todo)
      <4>1. task' = [task EXCEPT !["boot"].todo = rest] /\ task["boot"].pc = "aligning" /\ UNCHANGED <<snaps, clock>>
        BY <3>2 DEF Kpis!AlignNext
      <4> HIDE DEF rest
      <4> QED BY <1>1, <4>1 DEF KpisTyped, CallFields
    <3> QED BY <1>6, <3>1, <3>2
  <2> QED BY <2>1, KpisTasksHold
<1>7. CASE \/ Kpis!NextMonth \/ Kpis!ConfigurePlatform \/ UNCHANGED Kpis!vars
           \/ \E m \in Kpis!Metrics : Kpis!PostBaseline(m) \/ Kpis!DeleteBaseline(m)
  <2>1. KpisTyped' /\ UNCHANGED <<snaps, task>> /\ clock'.honours = clock.honours
    BY <1>1, <1>7 DEF Kpis!NextMonth, Kpis!ConfigurePlatform, Kpis!vars, Kpis!PostBaseline, Kpis!DeleteBaseline, KpisTyped,
       KpisAssumption
  <2> QED BY <2>1, SameRowsHold
<1> QED BY <1>4, <1>5, <1>6, <1>7

LEMMA KpisStepHolds ==
  ASSUME KpisAssumption, KpisInv, [Kpis!Next]_(Kpis!vars)
  PROVE  KpisInv'
<1>1. KpisTyped /\ snaps \in [Kpis!Metrics -> [Kpis!Rows -> Nat]]
  BY DEF KpisInv, KpisTyped
<1>2. CASE \E t \in {"boot", "loop"} : Kpis!CollectNext(t)
  <2>1. PICK t \in {"boot", "loop"} : Kpis!CollectNext(t)
    BY <1>2
  <2> DEFINE todo == task[t].todo
  <2>2. /\ UNCHANGED clock /\ Kpis!Goto(t, "collecting", Kpis!Rest(todo))
        /\ snaps' = snaps \/ \E R : (\A r \in R : r.src # "trend") /\ snaps' = Kpis!Recorded(Kpis!First(todo), R)
    BY <2>1 DEF Kpis!CollectNext, Kpis!MetricResult, Kpis!Live, Kpis!None
  <2>3. /\ snaps' \in [Kpis!Metrics -> [Kpis!Rows -> Nat]]
        /\ \A k \in Kpis!Metrics : \A r \in Kpis!Rows : r.src = "trend" => snaps'[k][r] = snaps[k][r]
    BY <1>1, <2>2, OtherRowsHold
  <2> HIDE DEF todo
  <2>4. KpisTyped' /\ (task'["boot"].pc # "filling" \/ task'["boot"] = task["boot"])
    BY <1>1, <2>2, <2>3, GotoTyped
  <2> QED BY <2>2, <2>3, <2>4, SameRowsHold
<1>3. CASE \E m \in Kpis!Metrics : Kpis!PostSnapshot(m)
  <2>1. PICK m \in Kpis!Metrics : snaps' = Kpis!Recorded(m, {Kpis!Typed}) /\ UNCHANGED <<task, clock>>
    BY <1>3 DEF Kpis!PostSnapshot
  <2>2. \A r \in {Kpis!Typed} : r.src # "trend"
    BY DEF Kpis!Typed
  <2>3. /\ snaps' \in [Kpis!Metrics -> [Kpis!Rows -> Nat]]
        /\ \A k \in Kpis!Metrics : \A r \in Kpis!Rows : r.src = "trend" => snaps'[k][r] = snaps[k][r]
    BY <1>1, <2>1, <2>2, OtherRowsHold
  <2>4. KpisTyped'
    BY <1>1, <2>1, <2>3 DEF KpisTyped
  <2> QED BY <2>1, <2>3, <2>4, SameRowsHold
<1>4. CASE Kpis!BackRead
  <2> DEFINE b == task["boot"]  m == Kpis!First(b.todo)
             existing == {r \in Kpis!Stored(m) : Kpis!InWindow(r, b.at)}
  <2>1. UNCHANGED <<snaps, clock>> /\ b.pc = "backfilling"
    BY <1>4 DEF Kpis!BackRead
  <2>2. CASE task' = [task EXCEPT !["boot"].pc = "filling", !["boot"].seen = {r.at : r \in existing}]
    <3>4. clock'.honours = clock.honours
      BY <2>1
    <3>1. /\ KpisTyped' /\ task'["boot"].todo = b.todo /\ task'["boot"].at = b.at
          /\ task'["boot"].seen = {r.at : r \in existing}
      BY <1>1, <2>1, <2>2 DEF KpisTyped, CallFields
    <3>2. PointsAreSeen'
      BY <3>1, <2>1 DEF PointsAreSeen, IsPoint, Kpis!Stored
    <3>3. PointsAreOne => PointsAreOne'
      BY <2>1 DEF PointsAreOne, IsPoint, Kpis!Stored
    <3> HIDE DEF b, m, existing
    <3> QED BY <3>1, <3>2, <3>3, <3>4 DEF KpisInv
  <2>3. CASE \E stage \in {"align", "backfilling"} : \E todo : Kpis!Goto("boot", stage, todo)
    <3>1. PICK stage \in {"align", "backfilling"} : \E todo : Kpis!Goto("boot", stage, todo)
      BY <2>3
    <3>2. KpisTyped' /\ (task'["boot"].pc # "filling" \/ task'["boot"] = task["boot"])
      BY <1>1, <2>1, <3>1, GotoTyped
    <3> QED BY <2>1, <3>2, KpisTasksHold
  <2> QED BY <1>4, <2>2, <2>3 DEF Kpis!BackRead
<1> QED BY <1>2, <1>3, <1>4, KpisQuietHold, BackNextHolds DEF Kpis!Next, Kpis!Boot

\* However often the service starts, fails half-way or is stopped, whatever is
\* requested meanwhile and however the platform changes, the trend point of a
\* month is stored once, if the platform answers for the period it is asked for
\* (backfill_snapshots of the collector).
THEOREM PointsRecordedOnce == ASSUME KpisAssumption PROVE ServicesSpec => []PointRecordedOnce
<1> DEFINE Inv == focus = "kpis" => KpisInv
<1>1. ServicesInit => Inv
  BY ServicesStarts, KpisInitHolds
<1>2. Inv /\ [ServicesNext]_allVars => Inv'
  BY ServicesSteps, KpisStepHolds
<1>3. KpisInv => Kpis!PointRecordedOnce
  <2> SUFFICES ASSUME KpisInv, clock.honours, NEW m \in Kpis!Metrics, NEW k \in 0..LastMonth
               PROVE  Kpis!Total(m, {r \in Kpis!Stored(m) : r.src = "trend" /\ r.at = 2 * k}) <= 1
    BY DEF Kpis!PointRecordedOnce
  <2> DEFINE points == {r \in Kpis!Stored(m) : r.src = "trend" /\ r.at = 2 * k}
  <2>1. points = {} \/ \E r \in Kpis!Rows : points = {r} /\ snaps[m][r] = 1
    BY DEF KpisInv, PointsAreOne, IsPoint, Kpis!Stored
  <2> HIDE DEF points
  <2>2. CASE points = {}
    <3>1. Kpis!Total(m, points) = 0
      BY <2>2, TotalOfNone
    <3> QED BY <3>1 DEF points
  <2>3. ASSUME NEW r \in Kpis!Rows, points = {r}, snaps[m][r] = 1
        PROVE  Kpis!Total(m, points) <= 1
    <3>1. snaps[m][r] \in Nat /\ Kpis!Total(m, points) = Kpis!Total(m, {r})
      BY <2>3
    <3>2. Kpis!Total(m, {r}) = snaps[m][r]
      BY <3>1, TotalOfOne, Zenon
    <3> QED BY <3>1, <3>2, <2>3
  <2> QED BY <2>1, <2>2, <2>3 DEF points
<1>4. Inv => PointRecordedOnce
  BY <1>3 DEF PointRecordedOnce
<1> QED BY <1>1, <1>2, <1>4, PTL DEF ServicesSpec

----------------------------------------------------------------------------
(* SiteProgress: the report is of the site as it is.                       *)

\* What is measured, and what a target asks for, is not negative.
SiteAssumption ==
    /\ MaxMeasured \in Nat /\ Values \subseteq Nat
    /\ Len(Followed) \in Nat /\ Followed \in [1..Len(Followed) -> Site!Metrics]
    /\ \A m \in Site!Metrics : Targets[m].percent \in Nat

Snapshots == [value : Values, at : 0..MaxMeasured]
Reported == {"pc", "count", "todo", "current", "met"}

SiteTyped ==
    /\ base \in [Site!Metrics -> Values \cup {Site!NoBaseline}]
    /\ snaps \in [Site!Metrics -> Seq(Snapshots)]
    /\ DOMAIN req = Reported /\ req.todo \subseteq Site!Metrics /\ DOMAIN req.current \subseteq Site!Metrics
    /\ DOMAIN req.met \subseteq DOMAIN req.current

\* There is nothing more to read than was counted.
CountHolds ==
    /\ IsFiniteSet(req.todo) /\ IsFiniteSet(DOMAIN req.current)
    /\ req.todo \cap DOMAIN req.current = {}
    /\ req.count \in Nat /\ Cardinality(req.todo) + Cardinality(DOMAIN req.current) <= req.count

\* What was read of the metrics that nobody writes meanwhile is as it is.
ReadIsCurrent ==
    req.pc = "snapshots" => \A m \in Site!Metrics \ raced :
        /\ m \in DOMAIN req.current => base[m] # Site!NoBaseline /\ req.current[m] \in Site!Latest(m)
        /\ m \in req.todo => base[m] # Site!NoBaseline
        /\ base[m] # Site!NoBaseline /\ snaps[m] # <<>> => m \in req.todo \cup DOMAIN req.current
ToldIsCurrent ==
    req.pc = "answered" => \A m \in Site!Metrics \ raced :
        /\ (m \in DOMAIN req.met <=> base[m] # Site!NoBaseline /\ snaps[m] # <<>>)
        /\ m \in DOMAIN req.met => \E v \in Site!Latest(m) : req.met[m] = Site!TargetMet(m, base[m], v)

SiteInv == SiteTyped /\ CountHolds /\ ReadIsCurrent /\ ToldIsCurrent

LEMMA FiniteMetrics == ASSUME SiteAssumption PROVE IsFiniteSet(Site!Metrics)
<1>1. PICK n \in Nat : Followed \in [1..n -> Site!Metrics]
  BY DEF SiteAssumption
<1>2. Followed \in Surjection(1..n, Site!Metrics)
  BY <1>1 DEF Surjection, Site!Metrics
<1>3. IsFiniteSet(1..n)
  BY <1>1, FS_Interval
<1> QED BY <1>2, <1>3, FS_Surjection

LEMMA FirstIsOne ==
  ASSUME SiteAssumption, NEW S, S \subseteq Site!Metrics, S # {}
  PROVE  Site!First(S) \in S
<1>1. PICK n \in Nat : Followed \in [1..n -> Site!Metrics]
  BY DEF SiteAssumption
<1>2. \A m \in S : Site!Place(m) \in 1..n
  BY <1>1 DEF Site!Place, Site!Metrics
<1> DEFINE T == {Site!Place(m) : m \in S}
<1>3. T \subseteq Nat /\ T # {}
  BY <1>2
<1>4. PICK k \in T : \A j \in T : k <= j
  BY <1>3, LeastNat
<1>5. \E m \in S : \A j \in S : Site!Place(m) <= Site!Place(j)
  BY <1>4
<1> QED BY <1>5 DEF Site!First

\* A metric with snapshots has a latest one.
LEMMA LatestThere ==
  ASSUME SiteAssumption, NEW m, snaps[m] \in Seq(Snapshots)
  PROVE  Site!Latest(m) # {} <=> snaps[m] # <<>>
<1> DEFINE s == snaps[m]  T == {s[i].at : i \in DOMAIN s}
<1>1. DOMAIN s = 1..Len(s) /\ Len(s) \in Nat /\ \A i \in DOMAIN s : s[i].at \in 0..MaxMeasured
  <2>1. DOMAIN s = 1..Len(s) /\ Len(s) \in Nat /\ \A i \in DOMAIN s : s[i] \in Snapshots
    OBVIOUS
  <2> QED BY <2>1 DEF Snapshots
<1>2. CASE s = <<>>
  BY <1>2 DEF Site!Latest
<1>3. CASE s # <<>>
  <2>1. T # {} /\ T \subseteq 0..MaxMeasured /\ MaxMeasured \in Nat
    <3>1. 1 \in DOMAIN s
      BY <1>1, <1>3
    <3> QED BY <3>1, <1>1 DEF SiteAssumption
  <2>2. PICK k \in T : \A j \in T : j <= k
    BY <2>1, GreatestNat
  <2>3. PICK i \in DOMAIN s : s[i].at = k
    BY <2>2
  <2>4. \A j \in DOMAIN s : s[j].at <= s[i].at
    BY <2>2, <2>3
  <2> QED BY <1>3, <2>3, <2>4 DEF Site!Latest
<1> QED BY <1>2, <1>3

LEMMA SameCountOfSite == \A S : Site!Cardinality(S) = Cardinality(S)
BY DEF Cardinality, Site!Cardinality

LEMMA SiteInitHolds == ASSUME SiteAssumption, Site!Init PROVE SiteInv
<1>1. snaps \in [Site!Metrics -> Seq(Snapshots)]
  <2>1. <<>> \in Seq(Snapshots)
    OBVIOUS
  <2> QED BY <2>1 DEF Site!Init
<1>2. SiteTyped
  BY <1>1 DEF Site!Init, Site!Idle, SiteTyped, Reported
<1>3. CountHolds
  BY FS_EmptySet DEF Site!Init, Site!Idle, CountHolds
<1> QED BY <1>2, <1>3 DEF SiteInv, ReadIsCurrent, ToldIsCurrent, Site!Init, Site!Idle

\* A write changes one metric, and is noted while a request is under way.
LEMMA SiteWriteHolds ==
  ASSUME SiteAssumption, SiteInv, NEW m \in Site!Metrics, Site!Writes(m),
         base' \in [Site!Metrics -> Values \cup {Site!NoBaseline}], snaps' \in [Site!Metrics -> Seq(Snapshots)],
         \A k \in Site!Metrics : k # m => base'[k] = base[k] /\ snaps'[k] = snaps[k]
  PROVE  SiteInv'
<1>1. req' = req /\ (req.pc # "idle" => raced' = raced \cup {m})
  BY DEF Site!Writes
<1>2. SiteTyped' /\ CountHolds'
  BY <1>1 DEF SiteInv, SiteTyped, CountHolds
<1>3. \A k \in Site!Metrics : k # m => Site!Latest(k)' = Site!Latest(k)
  BY DEF Site!Latest
<1>4. ReadIsCurrent'
  BY <1>1, <1>3 DEF SiteInv, ReadIsCurrent
<1>5. ToldIsCurrent'
  BY <1>1, <1>3 DEF SiteInv, ToldIsCurrent, Site!TargetMet
<1> QED BY <1>2, <1>4, <1>5 DEF SiteInv

LEMMA ReadBaselinesHolds == ASSUME SiteAssumption, SiteInv, Site!ReadBaselines PROVE SiteInv'
<1>1. /\ UNCHANGED <<base, snaps, raced>>
      /\ req' = [Site!Idle EXCEPT !.pc = "snapshots", !.count = Site!Cardinality(Site!Baselined), !.todo = Site!Baselined]
  BY DEF Site!ReadBaselines
<1>2. Site!Baselined \subseteq Site!Metrics /\ IsFiniteSet(Site!Baselined) /\ Cardinality(Site!Baselined) \in Nat
  BY FiniteMetrics, FS_Subset, FS_CardinalityType DEF Site!Baselined
<1>3. /\ DOMAIN req' = Reported /\ req'.todo = Site!Baselined /\ DOMAIN req'.current = {} /\ DOMAIN req'.met = {}
      /\ req'.count = Cardinality(Site!Baselined) /\ req'.pc = "snapshots"
  BY <1>1, SameCountOfSite DEF Site!Idle, Reported
<1>4. SiteTyped'
  BY <1>1, <1>2, <1>3 DEF SiteInv, SiteTyped
<1>5. CountHolds'
  BY <1>2, <1>3, FS_EmptySet DEF CountHolds
<1>6. ReadIsCurrent'
  BY <1>1, <1>3 DEF ReadIsCurrent, Site!Baselined
<1> QED BY <1>3, <1>4, <1>5, <1>6 DEF SiteInv, ToldIsCurrent

LEMMA ReadSnapshotsHolds == ASSUME SiteAssumption, SiteInv, Site!ReadSnapshots PROVE SiteInv'
<1> DEFINE m == Site!First(req.todo)
<1>1. req.pc = "snapshots" /\ req.todo # {} /\ UNCHANGED <<base, snaps, raced>>
  BY DEF Site!ReadSnapshots
<1>2. m \in req.todo /\ m \in Site!Metrics /\ m \notin DOMAIN req.current
  BY <1>1, FirstIsOne DEF SiteInv, SiteTyped, CountHolds
<1>3. /\ DOMAIN req' = Reported /\ req'.todo = req.todo \ {m} /\ req'.pc = "snapshots" /\ req'.count = req.count
      /\ req'.met = req.met
      /\ \/ Site!Latest(m) = {} /\ req'.current = req.current
         \/ \E value \in Site!Latest(m) :
               req'.current = [k \in DOMAIN req.current \cup {m} |-> IF k = m THEN value ELSE req.current[k]]
  <2> HIDE DEF m
  <2>1. CASE Site!Latest(m) = {} /\ req' = [req EXCEPT !.todo = @ \ {m}]
    BY <1>1, <2>1 DEF SiteInv, SiteTyped, Reported
  <2>2. CASE \E value \in Site!Latest(m) : req' = [req EXCEPT !.todo = @ \ {m},
                 !.current = [k \in DOMAIN @ \cup {m} |-> IF k = m THEN value ELSE @[k]]]
    BY <1>1, <2>2 DEF SiteInv, SiteTyped, Reported
  <2> QED BY <2>1, <2>2 DEF Site!ReadSnapshots, m
<1> HIDE DEF m
<1>4. /\ DOMAIN req'.current \subseteq DOMAIN req.current \cup {m} /\ DOMAIN req.current \subseteq DOMAIN req'.current
      /\ \A k \in DOMAIN req.current : req'.current[k] = req.current[k]
      /\ m \in DOMAIN req'.current <=> Site!Latest(m) # {}
      /\ m \in DOMAIN req'.current => req'.current[m] \in Site!Latest(m)
  BY <1>2, <1>3
<1>5. SiteTyped'
  BY <1>1, <1>2, <1>3, <1>4 DEF SiteInv, SiteTyped
<1>6. CountHolds'
  <2>1. IsFiniteSet(req.todo) /\ IsFiniteSet(DOMAIN req.current) /\ req.count \in Nat
        /\ Cardinality(req.todo) + Cardinality(DOMAIN req.current) <= req.count
    BY DEF SiteInv, CountHolds
  <2>2. /\ IsFiniteSet(req'.todo) /\ Cardinality(req'.todo) = Cardinality(req.todo) - 1
    BY <1>2, <1>3, <2>1, FS_RemoveElement
  <2>3. /\ IsFiniteSet(DOMAIN req.current \cup {m})
        /\ Cardinality(DOMAIN req.current \cup {m}) = Cardinality(DOMAIN req.current) + 1
    BY <1>2, <2>1, FS_AddElement
  <2>4. IsFiniteSet(DOMAIN req'.current) /\ Cardinality(DOMAIN req'.current) <= Cardinality(DOMAIN req.current) + 1
    BY <1>4, <2>3, FS_Subset
  <2>5. /\ Cardinality(req.todo) \in Nat /\ Cardinality(DOMAIN req.current) \in Nat
        /\ Cardinality(DOMAIN req'.current) \in Nat
    BY <2>1, <2>4, FS_CardinalityType
  <2>6. req'.todo \cap DOMAIN req'.current = {}
    BY <1>3, <1>4 DEF SiteInv, CountHolds
  <2> QED BY <2>1, <2>2, <2>4, <2>5, <2>6, <1>3 DEF CountHolds
<1>7. ReadIsCurrent'
  <2>1. \A k : Site!Latest(k)' = Site!Latest(k)
    BY <1>1 DEF Site!Latest
  <2>2. Site!Latest(m) # {} <=> snaps[m] # <<>>
    BY <1>2, LatestThere DEF SiteInv, SiteTyped
  <2> SUFFICES ASSUME NEW k \in Site!Metrics, k \notin raced
               PROVE  /\ k \in DOMAIN req'.current => base[k] # Site!NoBaseline /\ req'.current[k] \in Site!Latest(k)
                      /\ k \in req'.todo => base[k] # Site!NoBaseline
                      /\ base[k] # Site!NoBaseline /\ snaps[k] # <<>> => k \in req'.todo \cup DOMAIN req'.current
    BY <1>1, <2>1 DEF ReadIsCurrent
  <2>3. CASE k = m
    BY <2>2, <2>3, <1>1, <1>2, <1>3, <1>4 DEF SiteInv, ReadIsCurrent
  <2>4. CASE k # m
    BY <2>4, <1>1, <1>3, <1>4 DEF SiteInv, ReadIsCurrent
  <2> QED BY <2>3, <2>4
<1> QED BY <1>3, <1>5, <1>6, <1>7 DEF SiteInv, ToldIsCurrent

LEMMA AnswerHolds == ASSUME SiteAssumption, SiteInv, Site!Answer PROVE SiteInv'
<1> DEFINE told == [m \in Site!Baselined \cap DOMAIN req.current |-> Site!TargetMet(m, base[m], req.current[m])]
<1>1. /\ req.pc = "snapshots" /\ req.todo = {} /\ UNCHANGED <<base, snaps, raced>>
      /\ req' = [req EXCEPT !.pc = "answered", !.met = told]
  BY DEF Site!Answer
<1>2. /\ DOMAIN req' = Reported /\ req'.todo = {} /\ req'.current = req.current /\ req'.count = req.count
      /\ req'.pc = "answered" /\ req'.met = told
  <2> HIDE DEF told
  <2> QED BY <1>1 DEF SiteInv, SiteTyped, Reported
<1>3. SiteTyped' /\ CountHolds'
  BY <1>1, <1>2 DEF SiteInv, SiteTyped, CountHolds
<1>4. \A m : Site!Latest(m)' = Site!Latest(m)
  BY <1>1 DEF Site!Latest
<1>5. ToldIsCurrent'
  <2>0. \A m, b, v : Site!TargetMet(m, b, v)' = Site!TargetMet(m, b, v)
    BY DEF Site!TargetMet
  <2> SUFFICES ASSUME NEW m \in Site!Metrics, m \notin raced
               PROVE  /\ (m \in DOMAIN told <=> base[m] # Site!NoBaseline /\ snaps[m] # <<>>)
                      /\ m \in DOMAIN told => \E v \in Site!Latest(m) : told[m] = Site!TargetMet(m, base[m], v)
    <3> HIDE DEF told
    <3>1. req'.met = told /\ base' = base /\ snaps' = snaps /\ raced' = raced
      BY <1>1, <1>2
    <3> QED BY <3>1, <1>4, <2>0 DEF ToldIsCurrent
  <2>1. /\ m \in DOMAIN req.current => base[m] # Site!NoBaseline /\ req.current[m] \in Site!Latest(m)
        /\ base[m] # Site!NoBaseline /\ snaps[m] # <<>> => m \in DOMAIN req.current
    BY <1>1 DEF SiteInv, ReadIsCurrent
  <2>2. Site!Latest(m) # {} <=> snaps[m] # <<>>
    BY LatestThere DEF SiteInv, SiteTyped
  <2>3. m \in DOMAIN told <=> base[m] # Site!NoBaseline /\ m \in DOMAIN req.current
    BY DEF Site!Baselined
  <2>4. m \in DOMAIN told => told[m] = Site!TargetMet(m, base[m], req.current[m])
    OBVIOUS
  <2> QED BY <2>1, <2>2, <2>3, <2>4
<1> QED BY <1>2, <1>3, <1>5 DEF SiteInv, ReadIsCurrent

LEMMA SiteStepHolds == ASSUME SiteAssumption, SiteInv, [Site!Next]_(Site!vars) PROVE SiteInv'
<1>1. CASE Site!Return
  <2>1. UNCHANGED <<base, snaps>> /\ req' = Site!Idle
    BY <1>1 DEF Site!Return
  <2>2. SiteTyped'
    BY <2>1 DEF SiteInv, SiteTyped, Site!Idle, Reported
  <2>3. CountHolds'
    BY <2>1, FS_EmptySet DEF CountHolds, Site!Idle
  <2> QED BY <2>1, <2>2, <2>3 DEF SiteInv, ReadIsCurrent, ToldIsCurrent, Site!Idle
<1>2. CASE \E m \in Site!Metrics : Site!DeleteBaseline(m) \/ \E value \in Values : Site!RecordBaseline(m, value)
  <2>1. PICK m \in Site!Metrics, value \in Values \cup {Site!NoBaseline} :
           Site!Writes(m) /\ base' = [base EXCEPT ![m] = value] /\ UNCHANGED snaps
    BY <1>2 DEF Site!DeleteBaseline, Site!RecordBaseline
  <2>2. /\ base' \in [Site!Metrics -> Values \cup {Site!NoBaseline}] /\ snaps' \in [Site!Metrics -> Seq(Snapshots)]
        /\ \A k \in Site!Metrics : k # m => base'[k] = base[k] /\ snaps'[k] = snaps[k]
    BY <2>1 DEF SiteInv, SiteTyped
  <2> QED BY <2>1, <2>2, SiteWriteHolds
<1>3. CASE \E m \in Site!Metrics, value \in Values, at \in 0..MaxMeasured : Site!RecordSnapshot(m, value, at)
  <2>1. PICK m \in Site!Metrics, row \in Snapshots :
           Site!Writes(m) /\ snaps' = [snaps EXCEPT ![m] = Append(@, row)] /\ UNCHANGED base
    BY <1>3 DEF Site!RecordSnapshot, Snapshots
  <2>2. Append(snaps[m], row) \in Seq(Snapshots)
    BY DEF SiteInv, SiteTyped
  <2>3. /\ base' \in [Site!Metrics -> Values \cup {Site!NoBaseline}] /\ snaps' \in [Site!Metrics -> Seq(Snapshots)]
        /\ \A k \in Site!Metrics : k # m => base'[k] = base[k] /\ snaps'[k] = snaps[k]
    BY <2>1, <2>2 DEF SiteInv, SiteTyped
  <2> QED BY <2>1, <2>3, SiteWriteHolds
<1>4. CASE UNCHANGED Site!vars
  BY <1>4 DEF Site!vars, SiteInv, SiteTyped, CountHolds, ReadIsCurrent, ToldIsCurrent, Site!Latest, Site!TargetMet
<1> QED BY <1>1, <1>2, <1>3, <1>4, ReadBaselinesHolds, ReadSnapshotsHolds, AnswerHolds DEF Site!Next

\* A verdict is one or the other.
LEMMA VerdictIsOne ==
  ASSUME NEW m, NEW v
  PROVE  Site!TargetMet(m, base[m], v) \in BOOLEAN /\ Site!Reaches(m, v) \in BOOLEAN
<1> DEFINE gain == Site!Improvement(base[m], v, Targets[m].direction)  percent == Targets[m].percent
<1>1. CASE base[m] = 0
  <2>1. Site!TargetMet(m, base[m], v) = (0 >= percent)
    BY <1>1, Zenon DEF Site!TargetMet
  <2>2. (0 >= percent) \in BOOLEAN
    OBVIOUS
  <2> QED BY <2>1, <2>2, Zenon DEF Site!Reaches
<1>2. CASE base[m] # 0
  <2>1. Site!TargetMet(m, base[m], v) = (gain >= percent * base[m])
    BY <1>2, Zenon DEF Site!TargetMet
  <2>2. (gain >= percent * base[m]) \in BOOLEAN
    OBVIOUS
  <2> QED BY <2>1, <2>2, Zenon DEF Site!Reaches
<1> QED BY <1>1, <1>2

\* The verdict of the code is what the target says.
LEMMA TargetReached ==
  ASSUME SiteAssumption, NEW m \in Site!Metrics, base[m] \in Nat, NEW v \in Nat
  PROVE  Site!TargetMet(m, base[m], v) = Site!Reaches(m, v)
<1> DEFINE p == Targets[m].percent  b == base[m]
<1>1. p \in Nat /\ b \in Nat
  BY DEF SiteAssumption
<1>2. b * (100 - p) = b * 100 - p * b /\ b * (100 + p) = b * 100 + p * b /\ (b - v) * 100 = b * 100 - v * 100
      /\ (v - b) * 100 = v * 100 - b * 100 /\ p * b \in Int
  BY <1>1
<1>3. CASE b = 0
  <2>1. Site!TargetMet(m, base[m], v) <=> 0 >= p
    BY <1>3 DEF Site!TargetMet
  <2>2. Site!Reaches(m, v) <=> p = 0
    BY <1>1, <1>3 DEF Site!Reaches
  <2>3. Site!TargetMet(m, base[m], v) <=> Site!Reaches(m, v)
    BY <1>1, <2>1, <2>2
  <2>4. Site!TargetMet(m, base[m], v) \in BOOLEAN /\ Site!Reaches(m, v) \in BOOLEAN
    BY VerdictIsOne
  <2> QED BY <2>3, <2>4
<1>4. CASE b # 0
  <2>1. ((b - v) * 100 >= p * b) <=> (v * 100 <= b * (100 - p))
    BY <1>1, <1>2
  <2>2. ((v - b) * 100 >= p * b) <=> (v * 100 >= b * (100 + p))
    BY <1>1, <1>2
  <2>3. b > 0
    BY <1>1, <1>4
  <2>4. CASE Targets[m].direction = "reduction"
    <3>1. Site!TargetMet(m, base[m], v) <=> (b - v) * 100 >= p * b
      BY <1>4, <2>4 DEF Site!TargetMet, Site!Improvement
    <3>2. Site!Reaches(m, v) <=> v * 100 <= b * (100 - p)
      BY <1>4, <2>3, <2>4 DEF Site!Reaches
    <3>3. Site!TargetMet(m, base[m], v) \in BOOLEAN /\ Site!Reaches(m, v) \in BOOLEAN
      BY VerdictIsOne
    <3> QED BY <3>1, <3>2, <3>3, <2>1
  <2>5. CASE Targets[m].direction # "reduction"
    <3>1. Site!TargetMet(m, base[m], v) <=> (v - b) * 100 >= p * b
      BY <1>4, <2>5 DEF Site!TargetMet, Site!Improvement
    <3>2. Site!Reaches(m, v) <=> v * 100 >= b * (100 + p)
      BY <1>4, <2>3, <2>5 DEF Site!Reaches
    <3>3. Site!TargetMet(m, base[m], v) \in BOOLEAN /\ Site!Reaches(m, v) \in BOOLEAN
      BY VerdictIsOne
    <3> QED BY <3>1, <3>2, <3>3, <2>2
  <2> QED BY <2>4, <2>5
<1> QED BY <1>3, <1>4

\* Whatever is written while it is put together, the report shows no more metrics
\* than it counts, and of the metrics nobody writes meanwhile exactly those with a
\* baseline and a snapshot, with the verdict on what was measured last
\* (get_site_progress, _latest_snapshot_values and build_progress).
THEOREM ProgressHolds == ASSUME SiteAssumption PROVE ServicesSpec => []ProgressIsConsistent
<1> DEFINE Inv == focus = "progress" => SiteInv
<1>1. ServicesInit => Inv
  BY ServicesStarts, SiteInitHolds
<1>2. Inv /\ [ServicesNext]_allVars => Inv'
  BY ServicesSteps, SiteStepHolds
<1>3. SiteInv => Site!ProgressIsConsistent
  <2> SUFFICES ASSUME SiteInv, req.pc = "answered" PROVE Site!ProgressIsConsistent
    BY DEF Site!ProgressIsConsistent
  <2>1. Cardinality(DOMAIN req.met) <= req.count
    <3>1. /\ IsFiniteSet(req.todo) /\ IsFiniteSet(DOMAIN req.current) /\ req.count \in Nat
          /\ Cardinality(req.todo) + Cardinality(DOMAIN req.current) <= req.count
          /\ DOMAIN req.met \subseteq DOMAIN req.current
      BY DEF SiteInv, CountHolds, SiteTyped
    <3>2. IsFiniteSet(DOMAIN req.met) /\ Cardinality(DOMAIN req.met) <= Cardinality(DOMAIN req.current)
      BY <3>1, FS_Subset
    <3>3. Cardinality(req.todo) \in Nat /\ Cardinality(DOMAIN req.current) \in Nat /\ Cardinality(DOMAIN req.met) \in Nat
      BY <3>1, <3>2, FS_CardinalityType
    <3> QED BY <3>1, <3>2, <3>3
  <2>2. ASSUME NEW m \in Site!Metrics \ raced
        PROVE  /\ (m \in DOMAIN req.met <=> base[m] # Site!NoBaseline /\ snaps[m] # <<>>)
               /\ m \in DOMAIN req.met => \E i \in DOMAIN snaps[m] :
                    /\ \A j \in DOMAIN snaps[m] : snaps[m][j].at <= snaps[m][i].at
                    /\ req.met[m] = Site!Reaches(m, snaps[m][i].value)
    <3>1. /\ (m \in DOMAIN req.met <=> base[m] # Site!NoBaseline /\ snaps[m] # <<>>)
          /\ m \in DOMAIN req.met => \E v \in Site!Latest(m) : req.met[m] = Site!TargetMet(m, base[m], v)
      BY DEF SiteInv, ToldIsCurrent
    <3>2. ASSUME m \in DOMAIN req.met
          PROVE  \E i \in DOMAIN snaps[m] :
                    /\ \A j \in DOMAIN snaps[m] : snaps[m][j].at <= snaps[m][i].at
                    /\ req.met[m] = Site!Reaches(m, snaps[m][i].value)
      <4>1. PICK v \in Site!Latest(m) : req.met[m] = Site!TargetMet(m, base[m], v)
        BY <3>1, <3>2
      <4>2. PICK i \in DOMAIN snaps[m] :
               v = snaps[m][i].value /\ \A j \in DOMAIN snaps[m] : snaps[m][j].at <= snaps[m][i].at
        BY <4>1 DEF Site!Latest
      <4>3. snaps[m][i] \in Snapshots
        <5>1. snaps[m] \in Seq(Snapshots)
          BY DEF SiteInv, SiteTyped
        <5> QED BY <5>1
      <4>4. v \in Nat /\ base[m] \in Nat
        BY <3>1, <3>2, <4>2, <4>3 DEF Snapshots, SiteAssumption, SiteInv, SiteTyped
      <4>5. req.met[m] = Site!Reaches(m, v)
        BY <4>1, <4>4, TargetReached
      <4> QED BY <4>2, <4>5
    <3> QED BY <3>1, <3>2
  <2> QED BY <2>1, <2>2, SameCountOfSite DEF Site!ProgressIsConsistent
<1>4. Inv => ProgressIsConsistent
  BY <1>3 DEF ProgressIsConsistent
<1> QED BY <1>1, <1>2, <1>4, PTL DEF ServicesSpec

----------------------------------------------------------------------------
(* ProductionData: the sums of what is shown are those of what was booked. *)

\* Days are counted from the first one, and numbers of the columns are whole.
\* What is typed in has no negative count: such a record is refused unread.
Cells == [is : {"text", "number", "nan"}, n : Int] \cup {Production!Blank}
Dated(file, i, k) == file.columns[k] = "record_date" /\ file.rows[i][k].is = "number" => file.rows[i][k].n \in Nat
ProductionAssumption ==
    /\ Today \in Nat /\ Widest \in Int /\ Sqlite \in BOOLEAN
    /\ \A file \in Files :
          /\ file.columns \in Seq(STRING)
          /\ Len(file.rows) \in Nat /\ DOMAIN file.rows = 1..Len(file.rows)
          /\ \A i \in DOMAIN file.rows : \A k \in DOMAIN file.columns : file.rows[i][k] \in Cells /\ Dated(file, i, k)
    /\ \A entry \in Entries : entry.day \in Nat /\ entry.count \in Nat

Row(record) == record.day \in 0..Today /\ record.count \in Nat
Counts == [id \in DOMAIN table |-> table[id].count]
Produced == SumOver(Counts, DOMAIN table)

ProductionTyped ==
    /\ issued \in Nat
    /\ DOMAIN table \subseteq 1..issued
    /\ table = [id \in DOMAIN table |-> table[id]]
    /\ \A id \in DOMAIN table : Row(table[id])
    /\ DOMAIN shown = Clients
    /\ \A c \in Clients : DOMAIN shown[c] \subseteq 1..issued /\ \A id \in DOMAIN shown[c] : Row(shown[c][id])
    /\ books = [made |-> books.made, due |-> books.due, unsure |-> books.unsure, gone |-> books.gone]
    /\ books.due \in Int /\ books.unsure \in Int /\ books.gone \in Int

\* As long as no id comes back, a row is what any client was shown of it.
ShownIsReal == \A c \in Clients : \A id \in DOMAIN shown[c] \cap DOMAIN table : shown[c][id] = table[id]
Balanced == books.due - books.gone <= Produced /\ Produced <= books.due + books.unsure
ProductionInv == ProductionTyped /\ (reused = {} => ShownIsReal /\ Balanced)

\* The rows are finitely many, and have a last one.
LEMMA TableFinite == ASSUME ProductionTyped PROVE IsFiniteSet(DOMAIN table) /\ IsFiniteSet(1..issued)
<1>1. IsFiniteSet(1..issued)
  BY FS_Interval DEF ProductionTyped
<1> QED BY <1>1, FS_Subset DEF ProductionTyped

LEMMA ProducedType == ASSUME ProductionTyped PROVE Produced \in Int
<1>1. \A id \in DOMAIN table : Counts[id] \in Int
  BY DEF Counts, ProductionTyped, Row
<1> QED BY <1>1, TableFinite, SumType DEF Produced

\* The largest of some numbers up to a bound is one of them.
LEMMA LargestNumber ==
  ASSUME NEW T, NEW n \in Nat, T \subseteq 0..n, T # {}
  PROVE  Production!Max(T) \in T /\ \A x \in T : x <= Production!Max(T)
<1>1. \E k \in T : \A m \in T : k >= m
  BY GreatestNat
<1> QED BY <1>1 DEF Production!Max

\* New ids are above those of the table.
LEMMA LastIdBounds ==
  ASSUME ProductionAssumption, ProductionTyped
  PROVE  Production!LastId \in 0..issued /\ \A id \in DOMAIN table : id <= Production!LastId
<1>1. CASE Sqlite
  <2>1. {0} \cup DOMAIN table \subseteq 0..issued /\ {0} \cup DOMAIN table # {} /\ issued \in Nat
    BY DEF ProductionTyped
  <2>2. /\ Production!Max({0} \cup DOMAIN table) \in {0} \cup DOMAIN table
        /\ \A x \in {0} \cup DOMAIN table : x <= Production!Max({0} \cup DOMAIN table)
    BY <2>1, LargestNumber
  <2> QED BY <1>1, <2>1, <2>2 DEF Production!LastId
<1>2. CASE ~Sqlite
  BY <1>2 DEF Production!LastId, ProductionTyped
<1> QED BY <1>1, <1>2 

LEMMA SameCountOfRows == \A S : Production!Cardinality(S) = Cardinality(S)
  BY DEF Cardinality, Production!Cardinality

\* Records are ranked from 1, each differently.
LEMMA Ranks ==
  ASSUME NEW records, NEW n \in Nat, DOMAIN records \subseteq 1..n
  PROVE  /\ \A k \in DOMAIN records : Production!Rank(records, k) \in Nat \ {0}
         /\ \A j, k \in DOMAIN records : Production!Rank(records, j) = Production!Rank(records, k) => j = k
<1> DEFINE K == DOMAIN records
           upTo(k) == {j \in K : j <= k}
<1>1. IsFiniteSet(K)
  <2>1. IsFiniteSet(1..n)
    BY FS_Interval
  <2> QED BY <2>1, FS_Subset
<1>2. \A k \in K : Production!Rank(records, k) = Cardinality(upTo(k))
  BY SameCountOfRows DEF Production!Rank
<1>3. \A k \in K : IsFiniteSet(upTo(k)) /\ Cardinality(upTo(k)) \in Nat
  <2>1. \A k \in K : IsFiniteSet(upTo(k))
    BY <1>1, FS_Subset
  <2> QED BY <2>1, FS_CardinalityType
<1>4. ASSUME NEW k \in K PROVE Cardinality(upTo(k)) # 0
  <2>1. k \in upTo(k)
    OBVIOUS
  <2> QED BY <2>1, <1>3, FS_EmptySet
<1>5. ASSUME NEW j \in K, NEW k \in K, j < k PROVE Cardinality(upTo(j)) # Cardinality(upTo(k))
  <2>0. Cardinality(upTo(j)) \in Nat /\ Cardinality(upTo(k)) \in Nat
    BY <1>3
  <2>1. upTo(j) \subseteq upTo(k) \ {k} /\ k \in upTo(k)
    BY <1>5
  <2>2. IsFiniteSet(upTo(k) \ {k}) /\ Cardinality(upTo(k) \ {k}) = Cardinality(upTo(k)) - 1
    BY <1>3, <2>1, FS_RemoveElement
  <2>3. Cardinality(upTo(j)) <= Cardinality(upTo(k) \ {k})
    BY <2>1, <2>2, FS_Subset
  <2> HIDE DEF upTo
  <2> QED BY <2>0, <2>2, <2>3
<1>6. \A j, k \in K : j \in Nat /\ k \in Nat
  OBVIOUS
<1> HIDE DEF K, upTo
<1>7. \A j, k \in K : Cardinality(upTo(j)) = Cardinality(upTo(k)) => j = k
  BY <1>5, <1>6
<1> QED BY <1>2, <1>3, <1>4, <1>7 DEF K
\* Records that are stored get ids of their own, and their counts add to the rest.
LEMMA InsertAdds ==
  ASSUME ProductionAssumption, ProductionTyped, NEW records, NEW n \in Nat, DOMAIN records \subseteq 1..n,
         \A k \in DOMAIN records : Row(records[k]), Production!Insert(records),
         ~\E k \in DOMAIN records : Production!Refuses(records[k]), NEW counts,
         \A k \in DOMAIN records : counts[k] = records[k].count
  PROVE  /\ issued' \in Nat /\ issued <= issued' /\ DOMAIN table' \subseteq 1..issued'
         /\ table' = [id \in DOMAIN table' |-> table'[id]]
         /\ \A id \in DOMAIN table' : Row(table'[id])
         /\ \A id \in DOMAIN table : table'[id] = table[id]
         /\ (reused' = {} => reused = {} /\ DOMAIN table' \cap 1..issued = DOMAIN table)
         /\ Produced' = Produced + SumOver(counts, DOMAIN records)
<1> DEFINE K == DOMAIN records
           last == Production!LastId
           rank(k) == Production!Rank(records, k)
           new == {last + rank(k) : k \in K}
           of(id) == CHOOSE k \in K : last + rank(k) = id
<1>1. last \in Nat /\ last <= issued /\ issued \in Nat /\ \A id \in DOMAIN table : id <= last /\ id \in Nat
  BY LastIdBounds DEF ProductionTyped
<1>2. \A k \in K : rank(k) \in Nat \ {0} /\ \A j \in K : rank(j) = rank(k) => j = k
  BY Ranks
<1>3. /\ table' = [id \in DOMAIN table \cup new |-> IF id \in new THEN records[of(id)] ELSE table[id]]
      /\ issued' = Production!Max({issued} \cup new)
      /\ reused' = reused \cup {id \in new : id <= issued}
  BY DEF Production!Insert
<1>4. IsFiniteSet(K)
  <2>1. IsFiniteSet(1..n)
    BY FS_Interval
  <2> QED BY <2>1, FS_Subset
<1> HIDE DEF last, rank
<1>5. \A k \in K : of(last + rank(k)) = k
  BY <1>1, <1>2
<1>6. new \subseteq Nat \ {0} /\ new \cap DOMAIN table = {}
  BY <1>1, <1>2
<1>7. IsFiniteSet(new)
  <2> DEFINE f == [k \in K |-> last + rank(k)]
  <2>1. new = {f[k] : k \in K}
    OBVIOUS
  <2> HIDE DEF f, new
  <2> QED BY <2>1, <1>4, ImageFinite
<1>8. issued' \in {issued} \cup new /\ \A x \in {issued} \cup new : x <= issued'
  <2>1. \E b \in Nat : {issued} \cup new \subseteq 0..b
    <3>1. IsFiniteSet({issued} \cup new) /\ {issued} \cup new \subseteq Nat
      BY <1>1, <1>6, <1>7, FS_AddElement
    <3> QED BY <3>1, FiniteBounded
  <2> QED BY <2>1, <1>3, LargestNumber
<1>9. DOMAIN table' = DOMAIN table \cup new
  BY <1>3
<1>10. \A k \in K : last + rank(k) \in new /\ table'[last + rank(k)] = records[k]
  BY <1>3, <1>5
<1>11. \A id \in DOMAIN table : table'[id] = table[id]
  BY <1>3, <1>6
<1>12. \A id \in new : \E k \in K : id = last + rank(k) /\ table'[id] = records[k]
  BY <1>10
<1>13. table' = [id \in DOMAIN table' |-> table'[id]]
  BY <1>3
<1> HIDE DEF of
<1>14. /\ issued' \in Nat /\ issued <= issued' /\ DOMAIN table' \subseteq 1..issued'
  <2>1. DOMAIN table \subseteq 1..issued
    BY DEF ProductionTyped
  <2> HIDE DEF new
  <2>2. issued' \in Nat /\ issued <= issued'
    BY <1>1, <1>6, <1>8
  <2>3. ASSUME NEW id \in DOMAIN table' PROVE id \in 1..issued'
    <3>1. CASE id \in DOMAIN table
      BY <3>1, <2>1, <2>2, <1>1
    <3>2. CASE id \in new
      BY <3>2, <2>2, <1>6, <1>8
    <3> QED BY <3>1, <3>2, <1>9
  <2> QED BY <2>2, <2>3
<1>15. \A id \in DOMAIN table' : Row(table'[id])
  BY <1>9, <1>11, <1>12 DEF ProductionTyped
<1>16. reused' = {} => reused = {} /\ DOMAIN table' \cap 1..issued = DOMAIN table
  <2>1. DOMAIN table \subseteq 1..issued
    BY DEF ProductionTyped
  <2> HIDE DEF new
  <2> SUFFICES ASSUME reused' = {} PROVE reused = {} /\ DOMAIN table' \cap 1..issued = DOMAIN table
    OBVIOUS
  <2>2. reused = {} /\ \A id \in new : ~(id <= issued)
    BY <1>3
  <2>3. new \cap 1..issued = {}
    BY <2>2, <1>1, <1>6
  <2> QED BY <2>1, <2>2, <2>3, <1>9
<1>17. Produced' = Produced + SumOver(counts, K)
  <2> DEFINE all == [id \in DOMAIN table' |-> table'[id].count]
  <2>1. IsFiniteSet(DOMAIN table)
    BY TableFinite
  <2>2. \A id \in DOMAIN table \cup new : all[id] \in Int
    BY <1>9, <1>15 DEF Row
  <2>3. SumOver(all, DOMAIN table \cup new) = SumOver(all, DOMAIN table) + SumOver(all, new)
    <3> HIDE DEF all, new
    <3> QED BY <2>1, <2>2, <1>6, <1>7, SumUnion
  <2>4. SumOver(all, DOMAIN table) = SumOver(Counts, DOMAIN table)
    <3>1. \A id \in DOMAIN table : Counts[id] \in Int /\ all[id] = Counts[id]
      BY <1>9, <1>11 DEF Counts, ProductionTyped, Row
    <3> HIDE DEF all
    <3> QED BY <2>1, <3>1, SumSame
  <2>5. SumOver(all, new) = SumOver(counts, K)
    <3> DEFINE at == [k \in K |-> last + rank(k)]
    <3>1. new = {at[k] : k \in K}
      OBVIOUS
    <3>2. \A k \in K : counts[k] \in Int /\ all[at[k]] = counts[k]
      BY <1>9, <1>10 DEF Row
    <3>3. \A j, k \in K : at[j] = at[k] => j = k
      BY <1>1, <1>2
    <3> HIDE DEF all, new, at
    <3>4. SumOver(all, {at[k] : k \in K}) = SumOver(counts, K)
      BY <3>2, <3>3, <1>4, SumImage
    <3> QED BY <3>1, <3>4
  <2>6. Produced' = SumOver(all, DOMAIN table \cup new)
    BY <1>9 DEF Produced, Counts
  <2> QED BY <2>3, <2>4, <2>5, <2>6 DEF Produced
<1> QED BY <1>11, <1>13, <1>14, <1>15, <1>16, <1>17
\* A request that fails stores nothing.
LEMMA NothingInserted ==
  ASSUME ProductionTyped, NEW records, Production!Insert(records),
         DOMAIN records = {} \/ \E k \in DOMAIN records : Production!Refuses(records[k])
  PROVE  table' = table /\ issued' = issued /\ reused' = reused
<1>1. /\ table' = [id \in DOMAIN table \cup {} |-> table[id]]
      /\ issued' = Production!Max({issued} \cup {})
      /\ reused' = reused \cup {}
  BY DEF Production!Insert
<1>2. Production!Max({issued}) = issued
  <2>1. issued \in Nat /\ {issued} \subseteq 0..issued /\ {issued} # {}
    BY DEF ProductionTyped
  <2>2. Production!Max({issued}) \in {issued}
    BY <2>1, LargestNumber
  <2> QED BY <2>2
<1>3. table' = table
  BY <1>1 DEF ProductionTyped
<1> QED BY <1>1, <1>2, <1>3

\* Whatever was stored and booked: the books still balance.
LEMMA BookedKeepsBooks ==
  ASSUME ProductionAssumption, ProductionInv, NEW records, NEW n \in Nat, DOMAIN records \subseteq 1..n,
         \A k \in DOMAIN records : Row(records[k]), Production!Insert(records), shown' = shown,
         NEW counts, \A k \in DOMAIN records : counts[k] = records[k].count, NEW heard \in BOOLEAN,
         NEW accepted, Production!Booked(heard, accepted),
         accepted = IF \E k \in DOMAIN records : Production!Refuses(records[k]) THEN 0
                    ELSE SumOver(counts, DOMAIN records)
  PROVE  ProductionInv'
<1>0. ProductionTyped /\ (reused = {} => ShownIsReal /\ Balanced)
  BY DEF ProductionInv
<1>1. /\ issued' \in Nat /\ issued <= issued' /\ DOMAIN table' \subseteq 1..issued'
      /\ table' = [id \in DOMAIN table' |-> table'[id]]
      /\ \A id \in DOMAIN table' : Row(table'[id])
      /\ \A id \in DOMAIN table : table'[id] = table[id]
      /\ (reused' = {} => reused = {} /\ DOMAIN table' \cap 1..issued = DOMAIN table)
      /\ Produced' = Produced + accepted
      /\ accepted \in Nat
  <2>1. CASE \E k \in DOMAIN records : Production!Refuses(records[k])
    <3>1. table' = table /\ issued' = issued /\ reused' = reused /\ accepted = 0
      BY <1>0, <2>1, NothingInserted
    <3>2. Produced' = Produced /\ Produced \in Int
      BY <1>0, <3>1, ProducedType DEF Produced, Counts
    <3>3. /\ issued \in Nat /\ DOMAIN table \subseteq 1..issued /\ table = [id \in DOMAIN table |-> table[id]]
          /\ \A id \in DOMAIN table : Row(table[id])
      BY <1>0 DEF ProductionTyped
    <3>4. DOMAIN table \cap 1..issued = DOMAIN table
      BY <3>3
    <3> QED BY <3>1, <3>2, <3>3, <3>4
  <2>2. CASE ~\E k \in DOMAIN records : Production!Refuses(records[k])
    <3>1. accepted = SumOver(counts, DOMAIN records)
      BY <2>2
    <3>2. accepted \in Nat
      <4>1. IsFiniteSet(DOMAIN records)
        <5>1. IsFiniteSet(1..n)
          BY FS_Interval
        <5> QED BY <5>1, FS_Subset
      <4>2. \A k \in DOMAIN records : counts[k] \in Nat
        BY DEF Row
      <4> QED BY <3>1, <4>1, <4>2, SumNat
    <3> QED BY <1>0, <2>2, <3>1, <3>2, InsertAdds
  <2> QED BY <2>1, <2>2
<1>2. /\ books' = [made |-> books.made + 1, due |-> IF heard THEN books.due + accepted ELSE books.due,
                   unsure |-> IF heard THEN books.unsure ELSE books.unsure + accepted, gone |-> books.gone]
      /\ books.due \in Int /\ books.unsure \in Int /\ books.gone \in Int
  <2>1. books = [made |-> books.made, due |-> books.due, unsure |-> books.unsure, gone |-> books.gone]
    BY <1>0 DEF ProductionTyped
  <2> QED BY <1>0, <2>1 DEF Production!Booked, ProductionTyped
<1>3. DOMAIN shown = Clients /\ \A c \in Clients : DOMAIN shown[c] \subseteq 1..issued
  BY <1>0 DEF ProductionTyped
<1>4. 1..issued \subseteq 1..issued'
  BY <1>0, <1>1 DEF ProductionTyped
<1>5. ProductionTyped'
  <2>1. books'.due \in Int /\ books'.unsure \in Int /\ books'.gone \in Int
    BY <1>1, <1>2
  <2>2. books' = [made |-> books'.made, due |-> books'.due, unsure |-> books'.unsure, gone |-> books'.gone]
    BY <1>2
  <2>3. \A c \in Clients : DOMAIN shown'[c] \subseteq 1..issued' /\ \A id \in DOMAIN shown'[c] : Row(shown'[c][id])
    BY <1>0, <1>3, <1>4 DEF ProductionTyped
  <2> QED BY <1>1, <1>3, <2>1, <2>2, <2>3 DEF ProductionTyped, Row
<1>6. ASSUME reused' = {} PROVE ShownIsReal'
  <2>1. reused = {} /\ DOMAIN table' \cap 1..issued = DOMAIN table /\ ShownIsReal
    BY <1>0, <1>1, <1>6
  <2>2. ASSUME NEW c \in Clients, NEW id \in DOMAIN shown[c] \cap DOMAIN table' PROVE shown[c][id] = table'[id]
    <3>1. id \in DOMAIN table
      BY <2>1, <1>3
    <3> QED BY <3>1, <2>1, <1>1 DEF ShownIsReal
  <2> QED BY <2>2 DEF ShownIsReal
<1>7. ASSUME reused' = {} PROVE Balanced'
  <2>1. Balanced /\ Produced' = Produced + accepted /\ accepted \in Nat
    BY <1>0, <1>1, <1>7
  <2>2. Produced \in Int
    BY <1>0, ProducedType
  <2>3. /\ books'.due = IF heard THEN books.due + accepted ELSE books.due
        /\ books'.unsure = IF heard THEN books.unsure ELSE books.unsure + accepted
        /\ books'.gone = books.gone
    BY <1>2
  <2> HIDE DEF Produced
  <2>4. books'.due - books'.gone <= Produced' /\ Produced' <= books'.due + books'.unsure
    BY <2>1, <2>2, <2>3, <1>2 DEF Balanced
  <2> QED BY <2>4 DEF Balanced
<1> QED BY <1>5, <1>6, <1>7 DEF ProductionInv
\* A sum of the program is a sum.
LEMMA SumOfCounts ==
  ASSUME NEW S, IsFiniteSet(S), NEW records, \A id \in S : records[id].count \in Int
  PROVE  Production!MapThenSumSet(LAMBDA id : records[id].count, S) = SumOver([id \in S |-> records[id].count], S)
<1> DEFINE g == [id \in S |-> records[id].count]
           Body(f) == [s \in SUBSET S |-> IF s = {} THEN 0
                         ELSE LET x == CHOOSE x \in s : TRUE IN records[x].count + f[s \ {x}]]
           sum == CHOOSE f : f = Body(f)
<1>1. \A x \in S : g[x] \in Int /\ g[x] = records[x].count
  OBVIOUS
<1>2. ASSUME NEW f PROVE Body(f) = SumBody(g, S, f)
  <2>1. \A s \in SUBSET S : s # {} => (CHOOSE x \in s : TRUE) \in S
    OBVIOUS
  <2> HIDE DEF g
  <2>2. \A s \in SUBSET S : Body(f)[s] = SumBody(g, S, f)[s]
    BY <1>1, <2>1 DEF SumBody
  <2> QED BY <2>2 DEF SumBody
<1>3. \E f : f = Body(f)
  <2>1. \E f : f = SumBody(g, S, f)
    BY SumExists
  <2> HIDE DEF g, Body
  <2> QED BY <2>1, <1>2
<1>4. sum = Body(sum)
  BY <1>3
<1>5. Production!MapThenSumSet(LAMBDA id : records[id].count, S) = sum[S]
  BY DEF Production!MapThenSumSet, Production!MapThenFoldSet
<1> HIDE DEF sum, g, Body
<1>6. Adds(g, S, sum)
  BY <1>1, <1>2, <1>4, SumAdds
<1>7. sum[S] = SumOver(g, S)
  BY <1>1, <1>6, SumOfAdds
<1> QED BY <1>5, <1>7 DEF g

LEMMA AddKeepsBooks ==
  ASSUME ProductionAssumption, ProductionInv, NEW entry \in Entries, NEW heard \in BOOLEAN, Production!Add(entry, heard)
  PROVE  ProductionInv'
<1> DEFINE records == <<entry>>
           counts == [k \in {1} |-> entry.count]
<1>1. DOMAIN records = {1} /\ records[1] = entry /\ {1} \subseteq 1..1
  OBVIOUS
<1>2. Row(entry)
  BY DEF ProductionAssumption, Production!Add, Production!Valid, Row
<1>3. SumOver(counts, {1}) = entry.count
  <2>1. {} \cup {1} = {1} /\ counts[1] = entry.count /\ entry.count \in Int
    BY <1>2 DEF Row
  <2>2. SumOver(counts, {} \cup {1}) = counts[1] + SumOver(counts, {})
    <3> HIDE DEF counts
    <3> QED BY <2>1, FS_EmptySet, SumPlus
  <2> QED BY <2>1, <2>2, SumOfNone
<1>4. /\ Production!Insert(records) /\ shown' = shown
      /\ Production!Booked(heard, IF Production!Refuses(entry) THEN 0 ELSE entry.count)
  BY DEF Production!Add
<1>5. \A k \in DOMAIN records : Row(records[k]) /\ counts[k] = records[k].count
  BY <1>1, <1>2
<1>6. (\E k \in DOMAIN records : Production!Refuses(records[k])) <=> Production!Refuses(entry)
  BY <1>1
<1> HIDE DEF records, counts
<1>7. (IF Production!Refuses(entry) THEN 0 ELSE entry.count)
      = IF \E k \in DOMAIN records : Production!Refuses(records[k]) THEN 0 ELSE SumOver(counts, DOMAIN records)
  BY <1>1, <1>3, <1>6
<1> QED BY <1>1, <1>4, <1>5, <1>7, BookedKeepsBooks

LEMMA DeleteKeepsBooks ==
  ASSUME ProductionAssumption, ProductionInv, NEW c \in Clients, NEW id \in DOMAIN shown[c], NEW heard \in BOOLEAN,
         Production!Delete(c, id, heard)
  PROVE  ProductionInv'
<1> DEFINE n == shown[c][id].count
<1>0. ProductionTyped /\ (reused = {} => ShownIsReal /\ Balanced)
  BY DEF ProductionInv
<1>1. /\ id \in DOMAIN table
      /\ DOMAIN table' = DOMAIN table \ {id}
      /\ table' = [i \in DOMAIN table \ {id} |-> table[i]]
      /\ \A i \in DOMAIN table' : table'[i] = table[i]
      /\ issued' = issued /\ shown' = shown /\ reused' = reused
  BY DEF Production!Delete
<1>2. n \in Nat
  BY <1>0 DEF ProductionTyped, Row
<1>3. books' = [made |-> books.made + 1, due |-> IF heard THEN books.due - n ELSE books.due,
                unsure |-> books.unsure, gone |-> IF heard THEN books.gone ELSE books.gone + n]
  <2>1. books = [made |-> books.made, due |-> books.due, unsure |-> books.unsure, gone |-> books.gone]
    BY <1>0 DEF ProductionTyped
  <2> QED BY <2>1 DEF Production!Delete
<1>4. ProductionTyped'
  <2>1. books'.due \in Int /\ books'.unsure \in Int /\ books'.gone \in Int
    BY <1>0, <1>2, <1>3 DEF ProductionTyped
  <2>2. books' = [made |-> books'.made, due |-> books'.due, unsure |-> books'.unsure, gone |-> books'.gone]
    BY <1>3
  <2>3. table' = [i \in DOMAIN table' |-> table'[i]]
    BY <1>1
  <2> HIDE DEF n
  <2> QED BY <1>0, <1>1, <2>1, <2>2, <2>3 DEF ProductionTyped, Row
<1>5. Produced = table[id].count + Produced'
  <2> DEFINE rest == DOMAIN table \ {id}
  <2>1. IsFiniteSet(rest) /\ id \notin rest /\ rest \cup {id} = DOMAIN table
    <3>1. IsFiniteSet(DOMAIN table)
      BY <1>0, TableFinite
    <3>2. IsFiniteSet(rest)
      BY <3>1, FS_RemoveElement
    <3> QED BY <3>2, <1>1
  <2>2. \A i \in DOMAIN table : Counts[i] \in Int /\ Counts[i] = table[i].count
    BY <1>0 DEF Counts, ProductionTyped, Row
  <2>3. \A i \in rest : Counts'[i] = Counts[i]
    BY <1>1 DEF Counts
  <2> DEFINE later == [i \in DOMAIN table' |-> table'[i].count]
  <2>4. \A i \in rest : Counts[i] \in Int /\ later[i] = Counts[i]
    BY <1>1, <2>2
  <2>5. Produced' = SumOver(later, rest)
    BY <1>1 DEF Produced, Counts
  <2> HIDE DEF later, rest
  <2>6. SumOver(Counts, rest \cup {id}) = Counts[id] + SumOver(Counts, rest)
    BY <2>1, <2>2, SumPlus
  <2>7. SumOver(later, rest) = SumOver(Counts, rest)
    BY <2>1, <2>4, SumSame
  <2> QED BY <1>1, <2>1, <2>2, <2>5, <2>6, <2>7 DEF Produced
<1>6. ASSUME reused' = {} PROVE ShownIsReal'
  BY <1>0, <1>1, <1>6 DEF ShownIsReal
<1>7. ASSUME reused' = {} PROVE Balanced'
  <2>1. ShownIsReal /\ Balanced
    BY <1>0, <1>1, <1>7
  <2>2. table[id].count = n
    BY <1>1, <2>1 DEF ShownIsReal
  <2>3. Produced \in Int /\ Produced' \in Int
    <3>1. Produced \in Int
      BY <1>0, ProducedType
    <3>2. (ProductionTyped => Produced \in Int)'
      <4>1. ProductionTyped => Produced \in Int
        BY ProducedType
      <4> QED BY <4>1, ProducedType, PTL
    <3> QED BY <3>1, <3>2, <1>4
  <2>4. books.due \in Int /\ books.unsure \in Int /\ books.gone \in Int
    BY <1>0 DEF ProductionTyped
  <2> HIDE DEF n
  <2>5. books'.due - books'.gone <= Produced' /\ Produced' <= books'.due + books'.unsure
    BY <1>2, <1>3, <1>5, <2>1, <2>2, <2>3, <2>4 DEF Balanced
  <2> QED BY <2>5 DEF Balanced
<1> QED BY <1>4, <1>6, <1>7 DEF ProductionInv

LEMMA ListKeepsBooks ==
  ASSUME ProductionAssumption, ProductionInv, NEW c \in Clients, Production!List(c)
  PROVE  ProductionInv'
<1>1. /\ shown' = [shown EXCEPT ![c] = table]
      /\ table' = table /\ issued' = issued /\ reused' = reused /\ books' = books
  BY DEF Production!List
<1>2. ProductionTyped'
  BY <1>1 DEF ProductionInv, ProductionTyped, Row
<1>3. ShownIsReal => ShownIsReal'
  BY <1>1 DEF ProductionInv, ProductionTyped, ShownIsReal
<1>4. Balanced => Balanced'
  BY <1>1 DEF Balanced, Produced, Counts
<1> QED BY <1>1, <1>2, <1>3, <1>4 DEF ProductionInv
\* A cell that is read is one of the file's, or blank.
LEMMA ValueIsCell ==
  ASSUME ProductionAssumption, NEW file \in Files, NEW i \in DOMAIN file.rows, NEW name
  PROVE  LET cell == Production!Value(file, i, name) IN
         /\ cell \in Cells
         /\ name = "record_date" /\ cell.is = "number" => cell.n \in Nat
<1> DEFINE found == {k \in DOMAIN file.columns : file.columns[k] = name}
           cell == Production!Value(file, i, name)
<1>1. CASE found = {}
  <2>1. cell = Production!Blank
    BY <1>1 DEF Production!Value
  <2> QED BY <2>1 DEF Cells, Production!Blank, Production!Cell
<1>2. CASE found # {}
  <2>1. \E n \in Nat : DOMAIN file.columns = 1..n
    <3>1. file.columns \in Seq(STRING)
      BY DEF ProductionAssumption
    <3> QED BY <3>1
  <2> PICK n \in Nat : DOMAIN file.columns = 1..n
    BY <2>1
  <2>2. found \subseteq 0..n
    OBVIOUS
  <2>3. Production!Max(found) \in found
    BY <1>2, <2>2, LargestNumber
  <2>4. cell = file.rows[i][Production!Max(found)]
    BY <1>2 DEF Production!Value
  <2> DEFINE k == Production!Max(found)
  <2>5. k \in DOMAIN file.columns /\ file.columns[k] = name /\ cell = file.rows[i][k]
    BY <2>3, <2>4
  <2> HIDE DEF k, found, cell
  <2>6. cell \in Cells /\ Dated(file, i, k)
    BY <2>5 DEF ProductionAssumption
  <2> QED BY <2>5, <2>6 DEF Dated, cell
<1> QED BY <1>1, <1>2

\* A row without errors is a record, with the count its reader sees.
LEMMA RowIsRecord ==
  ASSUME ProductionAssumption, NEW file \in Files, NEW i \in DOMAIN file.rows, Production!RowErrors(file, i) = {}
  PROVE  /\ Row(Production!ParsedRecord(file, i))
         /\ Production!ParsedRecord(file, i).count = Production!Value(file, i, "production_count").n
<1> DEFINE day == Production!Value(file, i, "record_date")
           count == Production!Value(file, i, "production_count")
           record == Production!ParsedRecord(file, i)
<1>1. Production!FieldErrors(file, i) = {} /\ Production!Valid(record)
  BY DEF Production!RowErrors
<1>2. day # Production!Blank /\ day.is \notin {"text", "nan"} /\ count # Production!Blank /\ ~Production!BadInt(count)
  BY <1>1 DEF Production!FieldErrors
<1>3. day \in Cells /\ (day.is = "number" => day.n \in Nat) /\ count \in Cells
  BY ValueIsCell
<1>4. record.day = day.n /\ record.count = count.n /\ record.day <= Today
  BY <1>1 DEF Production!ParsedRecord, Production!Valid
<1> HIDE DEF day, count, record
<1>5. day.is = "number" /\ count.is = "number" /\ count.n \in Int
  BY <1>2, <1>3 DEF Cells, Production!BadInt
<1>6. count.n \in Nat
  BY <1>2, <1>5 DEF Production!BadInt
<1> QED BY <1>3, <1>4, <1>5, <1>6 DEF Row, ProductionAssumption, record, count

\* What its user reads in the rows that were taken is a sum.
LEMMA ClaimedIsSum ==
  ASSUME ProductionAssumption, NEW file \in Files, NEW S, IsFiniteSet(S), S \subseteq DOMAIN file.rows,
         NEW counts, \A i \in S : counts[i] \in Nat /\ counts[i] = Production!Value(file, i, "production_count").n
  PROVE  Production!Claimed(file, S) = SumOver(counts, S)
<1> DEFINE value(i) == Production!Value(file, i, "production_count").n
           Body(f) == [s \in SUBSET S |-> IF s = {} THEN 0
                         ELSE LET x == CHOOSE x \in s : TRUE
                              IN  (IF value(x) < 0 THEN 0 ELSE value(x)) + f[s \ {x}]]
           sum == CHOOSE f : f = Body(f)
<1>1. \A i \in S : counts[i] \in Int /\ counts[i] = IF value(i) < 0 THEN 0 ELSE value(i)
  <2>1. \A i \in S : counts[i] \in Nat /\ counts[i] = value(i)
    OBVIOUS
  <2> HIDE DEF value
  <2> QED BY <2>1
<1>2. ASSUME NEW f PROVE Body(f) = SumBody(counts, S, f)
  <2>1. \A s \in SUBSET S : s # {} => (CHOOSE x \in s : TRUE) \in S
    OBVIOUS
  <2> HIDE DEF value
  <2>2. \A s \in SUBSET S : Body(f)[s] = SumBody(counts, S, f)[s]
    BY <1>1, <2>1 DEF SumBody
  <2> QED BY <2>2 DEF SumBody
<1>3. \E f : f = Body(f)
  <2>1. \E f : f = SumBody(counts, S, f)
    BY SumExists
  <2> HIDE DEF Body
  <2> QED BY <2>1, <1>2
<1>4. sum = Body(sum)
  BY <1>3
<1>5. Production!Claimed(file, S) = sum[S]
  BY DEF Production!Claimed, Production!MapThenSumSet, Production!MapThenFoldSet
<1> HIDE DEF sum, Body
<1>6. Adds(counts, S, sum)
  BY <1>1, <1>2, <1>4, SumAdds
<1> QED BY <1>1, <1>5, <1>6, SumOfAdds

LEMMA UploadKeepsBooks ==
  ASSUME ProductionAssumption, ProductionInv, NEW file \in Files, NEW heard \in BOOLEAN, Production!Upload(file, heard)
  PROVE  ProductionInv'
<1> DEFINE records == Production!Parse(file).records
           errors == Production!Parse(file).errors
           length == Len(file.rows)
           failed == \E k \in DOMAIN records : Production!Refuses(records[k])
           counts == [k \in DOMAIN records |-> records[k].count]
           accepted == IF failed \/ 0 \in errors THEN 0 ELSE Production!Claimed(file, DOMAIN file.rows \ errors)
<1>1. Production!Insert(records) /\ Production!Booked(heard, accepted) /\ shown' = shown
  BY DEF Production!Upload
<1>2. length \in Nat /\ DOMAIN file.rows = 1..length
  BY DEF ProductionAssumption
<1>3. /\ DOMAIN records \subseteq 1..length
      /\ \A k \in DOMAIN records : records[k] = Production!ParsedRecord(file, k) /\ Production!RowErrors(file, k) = {}
      /\ 0 \in errors => DOMAIN records = {}
      /\ 0 \notin errors => DOMAIN file.rows \ errors = DOMAIN records
  <2>1. CASE Production!MissingColumns(file) # {}
    <3>1. DOMAIN records = {} /\ 0 \in errors
      BY <2>1 DEF Production!Parse
    <3> QED BY <3>1
  <2>2. CASE Production!MissingColumns(file) = {}
    <3>1. /\ records = [k \in {i \in 1..length : Production!RowErrors(file, i) = {}} |-> Production!ParsedRecord(file, k)]
          /\ errors = {i \in 1..length : Production!RowErrors(file, i) # {}}
      BY <2>2 DEF Production!Parse
    <3> HIDE DEF records, errors, length
    <3> QED BY <3>1, <1>2
  <2> QED BY <2>1, <2>2
<1> HIDE DEF records, errors, length
<1>4. ASSUME NEW k \in DOMAIN records
      PROVE  Row(records[k]) /\ counts[k] = records[k].count /\ counts[k] \in Nat
             /\ counts[k] = Production!Value(file, k, "production_count").n
  <2>1. k \in DOMAIN file.rows /\ Production!RowErrors(file, k) = {} /\ records[k] = Production!ParsedRecord(file, k)
    BY <1>2, <1>3
  <2> QED BY <2>1, RowIsRecord DEF Row
<1>5. IsFiniteSet(DOMAIN records)
  <2>1. IsFiniteSet(1..length)
    BY <1>2, FS_Interval
  <2> QED BY <1>3, <2>1, FS_Subset
<1> HIDE DEF counts
<1>6. accepted = IF failed THEN 0 ELSE SumOver(counts, DOMAIN records)
  <2>1. CASE 0 \in errors
    BY <2>1, <1>3, SumOfNone
  <2>2. CASE 0 \notin errors
    <3>1. Production!Claimed(file, DOMAIN records) = SumOver(counts, DOMAIN records)
      BY <1>2, <1>3, <1>4, <1>5, ClaimedIsSum
    <3> QED BY <2>2, <3>1, <1>3
  <2> QED BY <2>1, <2>2
<1> HIDE DEF accepted
<1> QED BY <1>1, <1>2, <1>3, <1>4, <1>6, BookedKeepsBooks

LEMMA ProductionStepHolds ==
  ASSUME ProductionAssumption, ProductionInv, [Production!Next]_(Production!vars)
  PROVE  ProductionInv'
<1>1. CASE UNCHANGED Production!vars
  BY <1>1 DEF Production!vars, ProductionInv, ProductionTyped, ShownIsReal, Balanced, Produced, Counts, Row
<1>2. CASE Production!Next
  <2>1. ASSUME NEW heard \in BOOLEAN, NEW file \in Files, Production!Upload(file, heard) PROVE ProductionInv'
    BY <2>1, UploadKeepsBooks
  <2>2. ASSUME NEW heard \in BOOLEAN, NEW entry \in Entries, Production!Add(entry, heard) PROVE ProductionInv'
    BY <2>2, AddKeepsBooks
  <2>3. ASSUME NEW heard \in BOOLEAN, NEW c \in Clients, NEW id \in DOMAIN shown[c], Production!Delete(c, id, heard)
        PROVE  ProductionInv'
    BY <2>3, DeleteKeepsBooks
  <2>4. ASSUME NEW c \in Clients, Production!List(c) PROVE ProductionInv'
    BY <2>4, ListKeepsBooks
  <2> QED BY <1>2, <2>1, <2>2, <2>3, <2>4 DEF Production!Next
<1> QED BY <1>1, <1>2

LEMMA ProductionInitHolds == ASSUME ProductionAssumption, Production!Init PROVE ProductionInv
<1>1. /\ table = [id \in {} |-> Production!Blank] /\ DOMAIN table = {} /\ issued = 0
      /\ DOMAIN shown = Clients /\ \A c \in Clients : shown[c] = table
      /\ books = [made |-> 0, due |-> 0, unsure |-> 0, gone |-> 0]
  BY DEF Production!Init
<1>2. table = [id \in DOMAIN table |-> table[id]]
  BY <1>1
<1>3. ProductionTyped
  BY <1>1, <1>2 DEF ProductionTyped
<1>4. Produced = 0
  BY <1>1, SumOfNone DEF Produced
<1> QED BY <1>1, <1>3, <1>4 DEF ProductionInv, ShownIsReal, Balanced

\* The summaries of all assets are what the table holds.
LEMMA SummariesAddUp ==
  ASSUME ProductionAssumption, ProductionTyped
  PROVE  Production!MapThenSumSet(LAMBDA a : Production!Summary(a, 0, Today).produced, {table[id].asset : id \in DOMAIN table})
         = Produced
<1> DEFINE of == [id \in DOMAIN table |-> table[id].asset]
           all == {of[id] : id \in DOMAIN table}
           value(a) == Production!Summary(a, 0, Today).produced
           mine(a) == {id \in DOMAIN table : of[id] = a}
           h == [a \in all |-> value(a)]
           Body(f) == [s \in SUBSET all |-> IF s = {} THEN 0
                         ELSE LET x == CHOOSE x \in s : TRUE IN value(x) + f[s \ {x}]]
           sum == CHOOSE f : f = Body(f)
<1>1. IsFiniteSet(DOMAIN table) /\ \A id \in DOMAIN table : Counts[id] \in Int /\ Counts[id] = table[id].count
  BY TableFinite DEF ProductionTyped, Row, Counts
<1>2. \A a \in all : Production!InPeriod(a, 0, Today) = mine(a)
  BY DEF Production!InPeriod, ProductionTyped, Row
<1>3. ASSUME NEW a \in all PROVE value(a) = SumOver(Counts, mine(a)) /\ value(a) \in Int
  <2>1. IsFiniteSet(mine(a)) /\ mine(a) \subseteq DOMAIN table
    BY <1>1, FS_Subset
  <2>2. value(a) = Production!MapThenSumSet(LAMBDA id : table[id].count, mine(a))
    BY <1>2 DEF Production!Summary
  <2>3. \A id \in mine(a) : table[id].count \in Int
    BY <1>1
  <2> HIDE DEF mine, value
  <2>4. value(a) = SumOver([id \in mine(a) |-> table[id].count], mine(a))
    BY <2>1, <2>2, <2>3, SumOfCounts
  <2> DEFINE part == [id \in mine(a) |-> table[id].count]
  <2>5. \A id \in mine(a) : Counts[id] \in Int /\ part[id] = Counts[id]
    BY <1>1, <2>1
  <2> HIDE DEF part
  <2>6. SumOver(part, mine(a)) = SumOver(Counts, mine(a)) /\ SumOver(Counts, mine(a)) \in Int
    BY <2>1, <2>5, SumSame, SumType
  <2> QED BY <2>4, <2>6 DEF part
<1>4. IsFiniteSet(all)
  <2>1. IsFiniteSet(DOMAIN table)
    BY <1>1
  <2> HIDE DEF of
  <2> QED BY <2>1, ImageFinite
<1>5. all = {table[id].asset : id \in DOMAIN table}
  OBVIOUS
<1>6. \A a \in all : h[a] = value(a) /\ h[a] \in Int
  BY <1>3
<1>7. ASSUME NEW f PROVE Body(f) = SumBody(h, all, f)
  <2>1. \A s \in SUBSET all : s # {} => (CHOOSE x \in s : TRUE) \in all
    OBVIOUS
  <2> HIDE DEF value, h, all
  <2>2. \A s \in SUBSET all : Body(f)[s] = SumBody(h, all, f)[s]
    BY <1>6, <2>1 DEF SumBody
  <2> QED BY <2>2 DEF SumBody
<1>8. \E f : f = Body(f)
  <2>1. \E f : f = SumBody(h, all, f)
    BY <1>4, SumExists
  <2> HIDE DEF Body, h, all
  <2> QED BY <2>1, <1>7
<1>9. sum = Body(sum)
  BY <1>8
<1>10. Production!MapThenSumSet(LAMBDA a : Production!Summary(a, 0, Today).produced, all) = sum[all]
  BY DEF Production!MapThenSumSet, Production!MapThenFoldSet
<1> HIDE DEF sum, Body, value, h, all
<1>11. Adds(h, all, sum)
  BY <1>4, <1>6, <1>7, <1>9, SumAdds
<1>12. sum[all] = SumOver(h, all)
  BY <1>4, <1>6, <1>11, SumOfAdds
<1>13. SumOver(h, all) = SumOver(Counts, DOMAIN table)
  <2> DEFINE class == [a \in all |-> mine(a)]
             ids == DOMAIN table
  <2>1. \A a \in all : class[a] = {id \in ids : of[id] = a}
    OBVIOUS
  <2>2. \A a \in all : h[a] = SumOver(Counts, class[a])
    BY <1>3, <1>6
  <2>3. IsFiniteSet(ids)
    BY <1>1
  <2>4. \A id \in ids : Counts[id] \in Int
    BY <1>1
  <2>5. all = {of[id] : id \in ids}
    BY DEF all
  <2> HIDE DEF of, class, ids
  <2>6. SumOver(h, all) = SumOver(Counts, ids)
    BY <2>1, <2>2, <2>3, <2>4, <2>5, SumByClass
  <2> QED BY <2>6 DEF ids
<1> QED BY <1>5, <1>10, <1>12, <1>13 DEF Produced

\* Unless an id has come back, the summaries differ from what was acknowledged by
\* no more than the answers that were lost (upload_production_csv,
\* add_production_record, delete_record and get_production_summary).
THEOREM BooksHold == ASSUME ProductionAssumption PROVE ServicesSpec => []BooksBalance
<1> DEFINE Inv == focus = "production" => ProductionInv
<1>1. ServicesInit => Inv
  BY ServicesStarts, ProductionInitHolds
<1>2. Inv /\ [ServicesNext]_allVars => Inv'
  BY ServicesSteps, ProductionStepHolds
<1>3. ProductionInv => Production!BooksBalance
  BY SummariesAddUp DEF ProductionInv, Balanced, Production!BooksBalance
<1>4. Inv => BooksBalance
  BY <1>3 DEF BooksBalance
<1> QED BY <1>1, <1>2, <1>4, PTL DEF ServicesSpec

----------------------------------------------------------------------------
(* KpiCollection: what the start-up may do to a baseline.                  *)

\* _KPI_METRICS is a finite table.
MetricsAssumption == Len(Collected) \in Nat /\ Collected \in [1..Len(Collected) -> Kpis!Metrics]

\* The snapshots of a metric, from their counts alone.
CountOf(f, R) == Kpis!MapThenSumSet(LAMBDA r : f[r], R)
RowsOf(f) == {r \in Kpis!Rows : f[r] > 0}
EarliestOf(f) == Kpis!Earliest(RowsOf(f))
Aligned(m) == base[m] = Kpis!None \/ CountOf(snaps[m], RowsOf(snaps[m])) < 2 \/ base[m] = EarliestOf(snaps[m])

\* What realigning read of a baseline.
ReadOf(seen, m) == (CHOOSE s \in seen : s.m = m).row

BaselinesTyped ==
    /\ DOMAIN task = {"boot", "loop"} /\ \A t \in {"boot", "loop"} : DOMAIN task[t] = CallFields
    /\ DOMAIN base = Kpis!Metrics /\ DOMAIN snaps = Kpis!Metrics

\* What is still to be seeded is missing.
SeedsMissing ==
    task["boot"].pc = "seeding" =>
        /\ task["boot"].todo \subseteq Kpis!Metrics
        /\ \A m \in task["boot"].todo \ raced : base[m] = Kpis!None

\* What was read is as it is, and what was realigned is aligned.
AlignsAsRead ==
    task["boot"].pc = "aligning" =>
        /\ task["boot"].todo \subseteq Kpis!Metrics
        /\ \A m \in Kpis!Metrics \ raced :
              IF m \in task["boot"].todo THEN ReadOf(task["boot"].seen, m) = base[m] ELSE Aligned(m)

BaselinesInv == BaselinesTyped /\ SeedsMissing /\ AlignsAsRead

LEMMA CountsOfRows ==
  ASSUME NEW m
  PROVE  /\ Kpis!Stored(m) = RowsOf(snaps[m])
         /\ \A R : Kpis!Total(m, R) = CountOf(snaps[m], R)
BY DEF Kpis!Stored, RowsOf, Kpis!Total, CountOf

LEMMA FirstOfCollected ==
  ASSUME MetricsAssumption, NEW S, S \subseteq Kpis!Metrics, S # {}
  PROVE  Kpis!First(S) \in S
<1>1. PICK n \in Nat : Collected \in [1..n -> Kpis!Metrics]
  BY DEF MetricsAssumption
<1>2. \A m \in S : Kpis!Place(m) \in 1..n
  BY <1>1 DEF Kpis!Place, Kpis!Metrics
<1> DEFINE T == {Kpis!Place(m) : m \in S}
<1>3. T \subseteq Nat /\ T # {}
  BY <1>2
<1>4. PICK k \in T : \A j \in T : k <= j
  BY <1>3, LeastNat
<1>5. \E m \in S : \A j \in S : Kpis!Place(m) <= Kpis!Place(j)
  BY <1>4
<1> QED BY <1>5 DEF Kpis!First

LEMMA BaselinesInitHolds == ASSUME Kpis!Init PROVE BaselinesInv
BY DEF Kpis!Init, BaselinesInv, BaselinesTyped, SeedsMissing, AlignsAsRead, Kpis!Idle, CallFields

\* What the start-up waits at after a step.
LEMMA BootMoves ==
  ASSUME BaselinesTyped, NEW t \in {"boot", "loop"}, NEW stage, NEW todo, stage \notin {"seeding", "aligning"},
         Kpis!Goto(t, stage, todo) \/ Kpis!Open(t, stage, todo) \/ Kpis!Fail(t)
  PROVE  /\ DOMAIN task' = {"boot", "loop"} /\ \A u \in {"boot", "loop"} : DOMAIN task'[u] = CallFields
         /\ task'["boot"] = task["boot"] \/ task'["boot"].pc \notin {"seeding", "aligning"}
<1>1. CASE Kpis!Goto(t, stage, todo)
  BY <1>1 DEF Kpis!Goto, BaselinesTyped, Kpis!Idle, CallFields
<1>2. CASE Kpis!Open(t, stage, todo)
  BY <1>2 DEF Kpis!Open, BaselinesTyped, CallFields
<1>3. CASE Kpis!Fail(t)
  BY <1>3 DEF Kpis!Fail, BaselinesTyped, Kpis!Idle, CallFields
<1> QED BY <1>1, <1>2, <1>3

\* A step that leaves both tables alone.
LEMMA TablesStay ==
  ASSUME BaselinesInv, UNCHANGED <<base, snaps, raced>>,
         DOMAIN task' = {"boot", "loop"}, \A u \in {"boot", "loop"} : DOMAIN task'[u] = CallFields,
         task'["boot"] = task["boot"] \/ task'["boot"].pc \notin {"seeding", "aligning"}
  PROVE  BaselinesInv'
BY DEF BaselinesInv, BaselinesTyped, SeedsMissing, AlignsAsRead, Aligned, EarliestOf

\* And one that adds snapshots, while nothing is realigned.
LEMMA SnapshotsGrow ==
  ASSUME BaselinesInv, UNCHANGED <<base, raced>>, DOMAIN snaps' = Kpis!Metrics,
         DOMAIN task' = {"boot", "loop"}, \A u \in {"boot", "loop"} : DOMAIN task'[u] = CallFields,
         task'["boot"] = task["boot"] \/ task'["boot"].pc \notin {"seeding", "aligning"},
         task["boot"].pc # "aligning"
  PROVE  BaselinesInv'
BY DEF BaselinesInv, BaselinesTyped, SeedsMissing, AlignsAsRead

LEMMA SeedBeginHolds == ASSUME BaselinesInv, Kpis!SeedBegin PROVE BaselinesInv'
<1> DEFINE missing == {m \in Kpis!Metrics : base[m] = Kpis!None}
<1>1. UNCHANGED <<base, snaps, raced>> /\ BaselinesTyped
  BY DEF Kpis!SeedBegin, BaselinesInv
<1>2. CASE Kpis!Goto("boot", "back", {}) \/ Kpis!Open("boot", "back", missing) \/ Kpis!Fail("boot")
  BY <1>1, <1>2, BootMoves, TablesStay
<1>3. CASE Kpis!Open("boot", "seeding", missing)
  BY <1>1, <1>3 DEF Kpis!Open, BaselinesInv, BaselinesTyped, SeedsMissing, AlignsAsRead, CallFields
<1> QED BY <1>2, <1>3 DEF Kpis!SeedBegin

LEMMA SeedNextHolds ==
  ASSUME MetricsAssumption, BaselinesInv, Kpis!SeedNext
  PROVE  BaselinesInv' /\ Kpis!SeedKeeps
<1> DEFINE todo == task["boot"].todo  m == Kpis!First(todo)  rest == Kpis!Rest(todo)
<1>1. /\ BaselinesTyped /\ UNCHANGED <<snaps, raced>> /\ task["boot"].pc = "seeding"
      /\ todo \subseteq Kpis!Metrics /\ \A k \in todo \ raced : base[k] = Kpis!None
      /\ todo # {} /\ \E row : base' = IF row = Kpis!None THEN base ELSE [base EXCEPT ![m] = row]
  BY DEF Kpis!SeedNext, BaselinesInv, SeedsMissing
<1>2. m \in todo /\ rest = todo \ {m}
  BY <1>1, FirstOfCollected DEF Kpis!Rest
<1>3. DOMAIN base' = Kpis!Metrics /\ \A k \in Kpis!Metrics : k # m => base'[k] = base[k]
  BY <1>1 DEF BaselinesTyped
<1>4. Kpis!Goto("boot", IF rest = {} THEN "back" ELSE "seeding", rest)
  BY DEF Kpis!SeedNext
<1>5. /\ DOMAIN task' = {"boot", "loop"} /\ \A u \in {"boot", "loop"} : DOMAIN task'[u] = CallFields
      /\ task'["boot"].todo = rest /\ task'["boot"].pc # "aligning"
  <2> HIDE DEF rest
  <2> QED BY <1>1, <1>4 DEF Kpis!Goto, BaselinesTyped, CallFields
<1>6. Kpis!SeedKeeps
  BY <1>1, <1>2, <1>3 DEF Kpis!SeedKeeps
<1> HIDE DEF todo, m, rest
<1> QED BY <1>1, <1>2, <1>3, <1>5, <1>6 DEF BaselinesInv, BaselinesTyped, SeedsMissing, AlignsAsRead

LEMMA AlignBeginHolds == ASSUME BaselinesInv, Kpis!AlignBegin PROVE BaselinesInv'
<1> DEFINE seen == {[m |-> k, row |-> base[k]] : k \in Kpis!Metrics}
<1>1. /\ BaselinesTyped /\ UNCHANGED <<base, snaps, raced>>
      /\ task' = [task EXCEPT !["boot"].pc = "aligning", !["boot"].todo = {k \in Kpis!Metrics : base[k] # Kpis!None},
                              !["boot"].seen = seen]
  BY DEF Kpis!AlignBegin, BaselinesInv
<1>2. \A m \in Kpis!Metrics : ReadOf(seen, m) = base[m]
  <2> SUFFICES ASSUME NEW m \in Kpis!Metrics PROVE ReadOf(seen, m) = base[m]
    OBVIOUS
  <2>1. [m |-> m, row |-> base[m]] \in seen
    OBVIOUS
  <2>2. \A s \in seen : s.m = m => s.row = base[m]
    OBVIOUS
  <2> HIDE DEF seen
  <2> QED BY <2>1, <2>2 DEF ReadOf
<1> HIDE DEF seen
<1>3. /\ DOMAIN task' = {"boot", "loop"} /\ \A u \in {"boot", "loop"} : DOMAIN task'[u] = CallFields
      /\ task'["boot"].pc = "aligning" /\ task'["boot"].seen = seen
      /\ task'["boot"].todo = {k \in Kpis!Metrics : base[k] # Kpis!None}
  BY <1>1 DEF BaselinesTyped, CallFields
<1> QED BY <1>1, <1>2, <1>3 DEF BaselinesInv, BaselinesTyped, SeedsMissing, AlignsAsRead, Aligned

LEMMA AlignNextHolds == ASSUME MetricsAssumption, BaselinesInv, Kpis!AlignNext PROVE BaselinesInv'
<1> DEFINE todo == task["boot"].todo  m == Kpis!First(todo)  rest == Kpis!Rest(todo)
           read == ReadOf(task["boot"].seen, m)  first == EarliestOf(snaps[m])
           few == CountOf(snaps[m], RowsOf(snaps[m])) < 2
<1>1. /\ BaselinesTyped /\ UNCHANGED <<snaps, raced>> /\ task["boot"].pc = "aligning" /\ todo # {}
      /\ task' = [task EXCEPT !["boot"].todo = rest]
  BY DEF Kpis!AlignNext, BaselinesInv
<1>2. /\ todo \subseteq Kpis!Metrics
      /\ \A k \in Kpis!Metrics \ raced :
            IF k \in todo THEN ReadOf(task["boot"].seen, k) = base[k] ELSE Aligned(k)
  BY <1>1 DEF BaselinesInv, AlignsAsRead
<1>3. m \in todo /\ rest = todo \ {m}
  BY <1>1, <1>2, FirstOfCollected DEF Kpis!Rest
<1>4. base' = IF few \/ read = first THEN base ELSE [base EXCEPT ![m] = first]
  <2>1. Kpis!Stored(m) = RowsOf(snaps[m]) /\ Kpis!Total(m, Kpis!Stored(m)) = CountOf(snaps[m], RowsOf(snaps[m]))
    BY CountsOfRows
  <2> QED BY <2>1 DEF Kpis!AlignNext, ReadOf, EarliestOf
<1>5. /\ DOMAIN task' = {"boot", "loop"} /\ \A u \in {"boot", "loop"} : DOMAIN task'[u] = CallFields
      /\ task'["boot"].pc = "aligning" /\ task'["boot"].todo = rest /\ task'["boot"].seen = task["boot"].seen
  <2> HIDE DEF rest
  <2> QED BY <1>1 DEF BaselinesTyped, CallFields
<1>6. m \notin raced => few \/ base'[m] = first
  <2> HIDE DEF few, first, m, todo
  <2> QED BY <1>2, <1>3, <1>4, <1>1 DEF BaselinesTyped
<1>7. \A k : k = m /\ k \notin raced => Aligned(k)'
  BY <1>1, <1>6 DEF Aligned
<1>8. DOMAIN base' = Kpis!Metrics /\ \A k \in Kpis!Metrics : k # m => base'[k] = base[k]
  <2> HIDE DEF few, read, first, m
  <2> QED BY <1>1, <1>4 DEF BaselinesTyped
<1>9. \A k \in Kpis!Metrics : k # m /\ Aligned(k) => Aligned(k)'
  BY <1>1, <1>8 DEF Aligned, EarliestOf
<1> HIDE DEF todo, m, rest, few, first
<1> QED BY <1>1, <1>2, <1>3, <1>5, <1>7, <1>8, <1>9 DEF BaselinesInv, BaselinesTyped, SeedsMissing, AlignsAsRead

\* A request touches one metric, and names it.
LEMMA RequestHolds ==
  ASSUME BaselinesInv, NEW m \in Kpis!Metrics, Kpis!PostBaseline(m) \/ Kpis!DeleteBaseline(m) \/ Kpis!PostSnapshot(m)
  PROVE  BaselinesInv'
<1>1. /\ BaselinesTyped /\ UNCHANGED task /\ raced' = raced \cup {m}
      /\ DOMAIN base' = Kpis!Metrics /\ \A k \in Kpis!Metrics : k # m => base'[k] = base[k]
      /\ DOMAIN snaps' = Kpis!Metrics /\ \A k \in Kpis!Metrics : k # m => snaps'[k] = snaps[k]
  BY DEF Kpis!PostBaseline, Kpis!DeleteBaseline, Kpis!PostSnapshot, Kpis!Recorded, BaselinesInv, BaselinesTyped
<1>2. \A k \in Kpis!Metrics : k # m /\ Aligned(k) => Aligned(k)'
  BY <1>1 DEF Aligned, EarliestOf
<1> QED BY <1>1, <1>2 DEF BaselinesInv, BaselinesTyped, SeedsMissing, AlignsAsRead

LEMMA BaselinesStepHolds ==
  ASSUME MetricsAssumption, BaselinesInv, [Kpis!Next]_(Kpis!vars)
  PROVE  BaselinesInv' /\ Kpis!SeedKeeps /\ Kpis!Realigns
<1>1. BaselinesTyped
  BY DEF BaselinesInv
<1>2. Kpis!SeedKeeps
  BY SeedNextHolds DEF Kpis!SeedKeeps
<1>3. Kpis!Realigns
  BY CountsOfRows DEF BaselinesInv, AlignsAsRead, Aligned, EarliestOf, Kpis!Realigns, Kpis!AlignEnd
<1> SUFFICES BaselinesInv'
  BY <1>2, <1>3
<1>4. ASSUME NEW t \in {"boot", "loop"}, NEW stage, NEW todo, stage \notin {"seeding", "aligning"},
             UNCHANGED <<base, raced>>, snaps' = snaps \/ (DOMAIN snaps' = Kpis!Metrics /\ task["boot"].pc # "aligning"),
             Kpis!Goto(t, stage, todo) \/ Kpis!Open(t, stage, todo) \/ Kpis!Fail(t)
      PROVE  BaselinesInv'
  BY <1>1, <1>4, BootMoves, TablesStay, SnapshotsGrow
<1>5. CASE Kpis!StartService \/ Kpis!StopService
  BY <1>1, <1>5 DEF Kpis!StartService, Kpis!StopService, BaselinesInv, BaselinesTyped, SeedsMissing, AlignsAsRead,
     Kpis!Idle, CallFields
<1>6. CASE Kpis!NextMonth \/ Kpis!ConfigurePlatform \/ UNCHANGED Kpis!vars
  BY <1>1, <1>6, TablesStay DEF Kpis!NextMonth, Kpis!ConfigurePlatform, Kpis!vars, BaselinesTyped
<1>7. CASE Kpis!IntervalEnds \/ Kpis!BackBegin \/ Kpis!AlignEnd \/ Kpis!TableFails
  <2>1. CASE Kpis!IntervalEnds
    BY <2>1, <1>4 DEF Kpis!IntervalEnds
  <2>2. CASE Kpis!BackBegin
    BY <2>2, <1>4 DEF Kpis!BackBegin
  <2>3. CASE Kpis!AlignEnd
    BY <2>3, <1>4 DEF Kpis!AlignEnd
  <2>4. CASE Kpis!TableFails
    BY <2>4, <1>4 DEF Kpis!TableFails
  <2> QED BY <1>7, <2>1, <2>2, <2>3, <2>4
<1>8. CASE Kpis!BackRead
  <2> DEFINE b == task["boot"]  m == Kpis!First(b.todo)
             read == {r.at : r \in {q \in Kpis!Stored(m) : Kpis!InWindow(q, b.at)}}
  <2>1. UNCHANGED <<base, raced, snaps>> /\ b.pc = "backfilling"
    BY <1>8 DEF Kpis!BackRead
  <2>2. CASE \E stage \in {"align", "backfilling"} : \E todo : Kpis!Goto("boot", stage, todo)
    BY <2>1, <2>2, <1>4
  <2>3. CASE task' = [task EXCEPT !["boot"].pc = "filling", !["boot"].seen = read]
    <3> HIDE DEF read
    <3> QED BY <1>1, <2>1, <2>3, TablesStay DEF BaselinesTyped, CallFields
  <2> QED BY <1>8, <2>2, <2>3 DEF Kpis!BackRead
<1>9. CASE Kpis!BackNext
  <2> DEFINE rest == Kpis!Rest(task["boot"].todo)
  <2>1. /\ UNCHANGED <<base, raced>> /\ task["boot"].pc = "filling"
        /\ Kpis!Goto("boot", "backfilling", rest) \/ Kpis!Fail("boot")
        /\ snaps' = snaps \/ \E m, R : snaps' = Kpis!Recorded(m, R)
    BY <1>9 DEF Kpis!BackNext
  <2>2. DOMAIN snaps' = Kpis!Metrics
    BY <1>1, <2>1 DEF BaselinesTyped, Kpis!Recorded
  <2> HIDE DEF rest
  <2> QED BY <2>1, <2>2, <1>4
<1>10. CASE \E t \in {"boot", "loop"} : Kpis!Wake(t) \/ Kpis!CollectBegin(t)
  <2>1. PICK t \in {"boot", "loop"} : Kpis!Wake(t) \/ Kpis!CollectBegin(t)
    BY <1>10
  <2>2. CASE Kpis!Wake(t)
    BY <2>2, <1>4 DEF Kpis!Wake
  <2>3. CASE Kpis!CollectBegin(t)
    BY <2>3, <1>4 DEF Kpis!CollectBegin
  <2> QED BY <2>1, <2>2, <2>3
<1>11. CASE \E t \in {"boot", "loop"} : Kpis!CollectNext(t)
  <2>1. PICK t \in {"boot", "loop"} : Kpis!CollectNext(t)
    BY <1>11
  <2> DEFINE rest == Kpis!Rest(task[t].todo)
  <2>2. /\ UNCHANGED <<base, raced>> /\ task["boot"].pc # "aligning" /\ Kpis!Goto(t, "collecting", rest)
        /\ snaps' = snaps \/ \E m, R : snaps' = Kpis!Recorded(m, R)
    BY <2>1 DEF Kpis!CollectNext, Kpis!LoopFree
  <2>3. DOMAIN snaps' = Kpis!Metrics
    BY <1>1, <2>2 DEF BaselinesTyped, Kpis!Recorded
  <2> HIDE DEF rest
  <2> QED BY <2>2, <2>3, <1>4
<1>12. CASE \E t \in {"boot", "loop"} : Kpis!CollectEnd(t)
  <2>1. PICK t \in {"boot", "loop"} : Kpis!CollectEnd(t)
    BY <1>12
  <2> DEFINE rested == [Kpis!Idle EXCEPT !.pc = IF t = "boot" THEN "done" ELSE "wait"]
  <2>2. rested.pc \notin {"seeding", "aligning"} /\ DOMAIN rested = CallFields
    BY DEF Kpis!Idle, CallFields
  <2>3. task' = [task EXCEPT ![t] = rested] /\ UNCHANGED <<base, snaps, raced>>
    BY <2>1 DEF Kpis!CollectEnd
  <2> HIDE DEF rested
  <2>4. /\ DOMAIN task' = {"boot", "loop"} /\ \A u \in {"boot", "loop"} : DOMAIN task'[u] = CallFields
        /\ task'["boot"] = task["boot"] \/ task'["boot"].pc \notin {"seeding", "aligning"}
    BY <1>1, <2>2, <2>3 DEF BaselinesTyped
  <2> QED BY <2>3, <2>4, TablesStay
<1> QED BY <1>2, <1>3, <1>5, <1>6, <1>7, <1>8, <1>9, <1>10, <1>11, <1>12, SeedBeginHolds, SeedNextHolds, AlignBeginHolds,
           AlignNextHolds, RequestHolds DEF Kpis!Next, Kpis!Boot

\* The start-up seeds missing baselines only, and leaves every baseline equal
\* to the earliest snapshot of its metric, where nobody requests a change of
\* that metric meanwhile: for any table of metrics, and however the attempts
\* fail, are repeated and overlap with the loop (kpi_scheduler.py:119-135).
THEOREM BaselinesEarned == ASSUME MetricsAssumption PROVE ServicesSpec => BaselinesAreEarned
<1> DEFINE Inv == focus = "kpis" => BaselinesInv
<1>1. ServicesInit => Inv
  BY ServicesStarts, BaselinesInitHolds
<1>2. Inv /\ [ServicesNext]_allVars => Inv'
  BY ServicesSteps, BaselinesStepHolds
<1>3. Inv /\ [ServicesNext]_allVars => [focus = "kpis" => Kpis!SeedKeeps /\ Kpis!Realigns]_allVars
  BY ServicesSteps, BaselinesStepHolds
<1> QED BY <1>1, <1>2, <1>3, PTL DEF ServicesSpec, BaselinesAreEarned

----------------------------------------------------------------------------
(* WakeWord: a browser is told of nothing but the wake word.               *)

WakeAssumption ==
    /\ Confirm \in Nat \ {0} /\ Messages \subseteq Seq(Int)
    /\ Floor \in Int /\ Lowest \in Int /\ Highest \in Int /\ Thresholds \subseteq Int

DetectorFields == {"threshold", "buffer", "count", "heard"}
SessionFields == {"open", "detector", "last", "told", "before"}

\* The frames counted are the last ones heard, and reached the threshold; a
\* detection is not counted on.
DetectorTyped(d) ==
    /\ DOMAIN d = DetectorFields /\ d.threshold \in Int /\ d.buffer \in Seq(Int) /\ d.heard \in Seq(Int)
Counted(d) ==
    /\ d.count \in 0..(Confirm - 1) /\ d.count <= Len(d.heard) /\ Len(d.heard) <= Confirm
    /\ \A i \in 1..Len(d.heard) : i > Len(d.heard) - d.count => d.heard[i] >= d.threshold
Confirmed(frames, least) == Len(frames) = Confirm /\ \A i \in 1..Confirm : frames[i] >= least

ToldIsEarned(c) ==
    /\ c.told.at # Wake!None => Confirmed(c.told.frames, c.told.threshold)
    /\ c.told.at # Wake!None /\ c.before # Wake!None => c.told.at - c.before >= Cooldown

WakeInv ==
    /\ DOMAIN session = Browsers
    /\ \A s \in Browsers :
          /\ DOMAIN session[s] = SessionFields /\ ToldIsEarned(session[s])
          /\ DetectorTyped(session[s].detector) /\ Counted(session[s].detector)

\* The last frames heard, one more included.
LEMMA LastFrames ==
  ASSUME WakeAssumption, NEW seq \in Seq(Int), NEW score \in Int, Len(seq) <= Confirm
  PROVE  LET all == Wake!Tail2(seq, score) IN
         /\ all \in Seq(Int) /\ Len(all) = IF Len(seq) = Confirm THEN Confirm ELSE Len(seq) + 1
         /\ all[Len(all)] = score
         /\ \A i \in 1..(Len(all) - 1) : all[i] = seq[i + Len(seq) + 1 - Len(all)]
<1>1. Len(seq) \in Nat /\ Confirm \in Nat \ {0} /\ Len(Append(seq, score)) = Len(seq) + 1 /\ Append(seq, score) \in Seq(Int)
  BY DEF WakeAssumption
<1>2. \A i \in 1..Len(seq) : Append(seq, score)[i] = seq[i]
  OBVIOUS
<1>3. Append(seq, score)[Len(seq) + 1] = score
  OBVIOUS
<1> DEFINE more == Append(seq, score)  low == IF Len(seq) = Confirm THEN 2 ELSE 1
<1>4. Wake!Tail2(seq, score) = SubSeq(more, low, Len(seq) + 1)
  <2>1. Wake!Max2(1, Len(more) - Confirm + 1) = low
    BY <1>1 DEF Wake!Max2
  <2> QED BY <1>1, <2>1 DEF Wake!Tail2
<1>5. /\ more \in Seq(Int) /\ Len(more) = Len(seq) + 1 /\ low \in 1..2 /\ low <= Len(more)
  BY <1>1
<1> HIDE DEF more, low
<1>6. /\ SubSeq(more, low, Len(seq) + 1) \in Seq(Int) /\ Len(SubSeq(more, low, Len(seq) + 1)) = Len(seq) + 2 - low
      /\ \A i \in 1..(Len(seq) + 2 - low) : SubSeq(more, low, Len(seq) + 1)[i] = more[i + low - 1]
  BY <1>1, <1>5
<1> QED BY <1>1, <1>2, <1>3, <1>4, <1>5, <1>6 DEF more, low

LEMMA FrameHolds ==
  ASSUME WakeAssumption, NEW d, DetectorTyped(d), Counted(d), NEW score \in Int
  PROVE  LET e == Wake!RunInference(d, score) IN
         /\ DetectorTyped(e) /\ Counted(e) /\ e.threshold = d.threshold /\ e.buffer = d.buffer
         /\ Wake!Fires(d, score) => Confirmed(e.heard, d.threshold)
<1> DEFINE e == Wake!RunInference(d, score)  all == Wake!Tail2(d.heard, score)
           count == IF score >= d.threshold THEN d.count + 1 ELSE 0
<1>1. /\ DOMAIN e = DetectorFields /\ e.threshold = d.threshold /\ e.buffer = d.buffer /\ e.heard = all
      /\ e.count = IF count >= Confirm THEN 0 ELSE count
  BY DEF Wake!RunInference, DetectorTyped, DetectorFields
<1>2. /\ all \in Seq(Int) /\ Len(all) = IF Len(d.heard) = Confirm THEN Confirm ELSE Len(d.heard) + 1
      /\ all[Len(all)] = score
      /\ \A i \in 1..(Len(all) - 1) : all[i] = d.heard[i + Len(d.heard) + 1 - Len(all)]
  BY LastFrames DEF DetectorTyped, Counted
<1>3. Wake!Fires(d, score) <=> score >= d.threshold /\ e.count = 0
  BY DEF Wake!Fires
<1> HIDE DEF e, all
<1>4. Confirm \in Nat \ {0} /\ Len(d.heard) \in Nat /\ d.threshold \in Int
  BY DEF WakeAssumption, DetectorTyped
<1>5. count <= Len(all) /\ Len(all) <= Confirm /\ count \in 0..Confirm
  BY <1>2, <1>4 DEF Counted
<1>6. \A i \in 1..Len(all) : i > Len(all) - count => all[i] >= d.threshold
  <2> SUFFICES ASSUME NEW i \in 1..Len(all), i > Len(all) - count PROVE all[i] >= d.threshold
    OBVIOUS
  <2>1. score >= d.threshold /\ count = d.count + 1
    BY <1>4, <1>5
  <2>2. CASE i = Len(all)
    BY <2>1, <2>2, <1>2
  <2>3. CASE i # Len(all)
    <3> DEFINE j == i + Len(d.heard) + 1 - Len(all)
    <3>0. Len(all) = Len(d.heard) \/ Len(all) = Len(d.heard) + 1
      BY <1>2, <1>4
    <3>1. d.count \in Int /\ Len(all) \in Nat /\ i \in 1..(Len(all) - 1)
      BY <1>2, <1>4, <2>3 DEF Counted
    <3>2. all[i] = d.heard[j]
      BY <1>2, <3>1
    <3>3. j \in 1..Len(d.heard) /\ j > Len(d.heard) - d.count
      BY <1>4, <2>1, <3>0, <3>1
    <3> HIDE DEF j
    <3>4. d.heard[j] >= d.threshold
      BY <3>3 DEF Counted
    <3> QED BY <3>2, <3>4
  <2> QED BY <2>2, <2>3
<1>7. DetectorTyped(e) /\ Counted(e)
  BY <1>1, <1>2, <1>4, <1>5, <1>6 DEF DetectorTyped, Counted
<1>8. ASSUME score >= d.threshold, e.count = 0 PROVE Confirmed(e.heard, d.threshold)
  <2>1. count = Confirm
    BY <1>1, <1>4, <1>5, <1>8 DEF Counted
  <2> QED BY <2>1, <1>1, <1>4, <1>5, <1>6 DEF Confirmed
<1> QED BY <1>1, <1>3, <1>7, <1>8 DEF e

\* A message: what the frames taken so far leave behind.
Ran(run, d) ==
    /\ DOMAIN run = {"d", "fired"} /\ DetectorTyped(run.d) /\ Counted(run.d) /\ run.d.threshold = d.threshold
    /\ run.fired => run.d.count = 0 /\ Confirmed(run.d.heard, d.threshold)

LEMMA AdvanceHolds ==
  ASSUME WakeAssumption, NEW d, NEW run, Ran(run, d), NEW score \in Int
  PROVE  Ran(Wake!Advance(run, score), d)
<1>1. CASE run.fired
  <2>1. /\ DOMAIN run.d = DetectorFields /\ Append(run.d.buffer, score) \in Seq(Int)
    BY DEF Ran, DetectorTyped
  <2> DEFINE next == [run EXCEPT !.d.buffer = Append(run.d.buffer, score)]
  <2>2. /\ DOMAIN next = {"d", "fired"} /\ next.fired = run.fired /\ DOMAIN next.d = DetectorFields
        /\ next.d.buffer = Append(run.d.buffer, score) /\ next.d.threshold = run.d.threshold
        /\ next.d.count = run.d.count /\ next.d.heard = run.d.heard
    BY <2>1 DEF Ran, DetectorFields
  <2>3. Wake!Advance(run, score) = next
    BY <1>1 DEF Wake!Advance
  <2> HIDE DEF next
  <2> QED BY <2>1, <2>2, <2>3, <1>1 DEF Ran, DetectorTyped, Counted
<1>2. CASE ~run.fired
  <2> DEFINE e == Wake!RunInference(run.d, score)
  <2>1. Wake!Advance(run, score) = [d |-> e, fired |-> Wake!Fires(run.d, score)]
    BY <1>2 DEF Wake!Advance
  <2>2. /\ DetectorTyped(e) /\ Counted(e) /\ e.threshold = run.d.threshold
        /\ Wake!Fires(run.d, score) => Confirmed(e.heard, run.d.threshold)
    BY FrameHolds DEF Ran
  <2>3. Wake!Fires(run.d, score) => e.count = 0
    BY DEF Wake!Fires
  <2> HIDE DEF e
  <2> QED BY <2>1, <2>2, <2>3 DEF Ran
<1> QED BY <1>1, <1>2

RunBody(first, all, n, f) == [i \in 0..n |-> IF i = 0 THEN first ELSE Wake!Advance(f[i - 1], all[i])]

LEMMA RunExists ==
  ASSUME NEW first, NEW all, NEW n \in Nat
  PROVE  \E f : f = RunBody(first, all, n, f)
<1> DEFINE Body(k, f) == [i \in 0..k |-> IF i = 0 THEN first ELSE Wake!Advance(f[i - 1], all[i])]
           T == {k \in Nat : \E f : f = Body(k, f)}
<1>1. 0 \in T
  <2> DEFINE g == [i \in 0..0 |-> first]
  <2>1. g = Body(0, g)
    OBVIOUS
  <2> HIDE DEF g
  <2> QED BY <2>1
<1>2. ASSUME NEW k \in T PROVE k + 1 \in T
  <2>1. PICK f : f = Body(k, f)
    OBVIOUS
  <2> DEFINE g == [i \in 0..(k + 1) |-> IF i = k + 1 THEN Wake!Advance(f[k], all[k + 1]) ELSE f[i]]
  <2>2. ASSUME NEW i \in 0..(k + 1) PROVE g[i] = IF i = 0 THEN first ELSE Wake!Advance(g[i - 1], all[i])
    <3>1. CASE i = k + 1
      <4>1. g[i] = Wake!Advance(f[k], all[k + 1]) /\ g[i - 1] = f[k] /\ i # 0
        BY <3>1
      <4> QED BY <4>1, <3>1
    <3>2. CASE i # k + 1 /\ i # 0
      <4>1. g[i] = f[i] /\ g[i - 1] = f[i - 1] /\ i \in 0..k
        BY <3>2
      <4>2. f[i] = Body(k, f)[i]
        BY <2>1
      <4> HIDE DEF g
      <4> QED BY <4>1, <4>2, <3>2
    <3>3. CASE i = 0
      <4>1. g[i] = f[i] /\ i \in 0..k
        BY <3>3
      <4>2. f[i] = Body(k, f)[i]
        BY <2>1
      <4> HIDE DEF g
      <4> QED BY <4>1, <4>2, <3>3
    <3> QED BY <3>1, <3>2, <3>3
  <2>3. g = [i \in 0..(k + 1) |-> g[i]]
    OBVIOUS
  <2> HIDE DEF g
  <2>4. g = Body(k + 1, g)
    BY <2>2, <2>3
  <2> QED BY <2>4
<1>3. T = Nat
  <2>1. T \subseteq Nat
    OBVIOUS
  <2> HIDE DEF T
  <2> QED BY <2>1, <1>1, <1>2, NatSetInduction
<1> QED BY <1>3 DEF RunBody

LEMMA MessageHolds ==
  ASSUME WakeAssumption, NEW d, DetectorTyped(d), Counted(d), NEW frames \in Seq(Int)
  PROVE  Ran(Wake!ProcessAudio(d, frames), d)
<1> DEFINE all == d.buffer \o frames  first == [d |-> [d EXCEPT !.buffer = <<>>], fired |-> FALSE]
           run == CHOOSE f : f = [i \in 0..Len(all) |-> IF i = 0 THEN first ELSE Wake!Advance(f[i - 1], all[i])]
           T == {i \in Nat : i <= Len(all) => Ran(run[i], d)}
<1>1. all \in Seq(Int) /\ Len(all) \in Nat /\ \A i \in 1..Len(all) : all[i] \in Int
  BY DEF DetectorTyped
<1>2. Ran(first, d)
  <2> DEFINE cleared == [d EXCEPT !.buffer = <<>>]
  <2>1. /\ DOMAIN cleared = DetectorFields /\ cleared.buffer = <<>> /\ cleared.threshold = d.threshold
        /\ cleared.count = d.count /\ cleared.heard = d.heard
    BY DEF DetectorTyped, DetectorFields
  <2>2. first = [d |-> cleared, fired |-> FALSE]
    OBVIOUS
  <2> HIDE DEF cleared
  <2>3. DetectorTyped(cleared)
    <3>1. <<>> \in Seq(Int)
      OBVIOUS
    <3> QED BY <2>1, <3>1 DEF DetectorTyped
  <2>4. Counted(cleared)
    BY <2>1 DEF Counted
  <2> QED BY <2>1, <2>2, <2>3, <2>4 DEF Ran
<1>3. Wake!ProcessAudio(d, frames) = run[Len(all)]
  BY DEF Wake!ProcessAudio
<1> HIDE DEF all, first
<1>4. run = [i \in 0..Len(all) |-> IF i = 0 THEN first ELSE Wake!Advance(run[i - 1], all[i])]
  <2>1. \E f : f = RunBody(first, all, Len(all), f)
    BY <1>1, RunExists
  <2> QED BY <2>1 DEF RunBody
<1> HIDE DEF run
<1>5. 0 \in T
  BY <1>1, <1>2, <1>4
<1>6. ASSUME NEW i \in T PROVE i + 1 \in T
  <2> SUFFICES ASSUME i + 1 <= Len(all) PROVE Ran(run[i + 1], d)
    OBVIOUS
  <2>1. run[i + 1] = Wake!Advance(run[i], all[i + 1])
    BY <1>1, <1>4
  <2>2. Ran(run[i], d) /\ all[i + 1] \in Int
    BY <1>1
  <2> QED BY <2>1, <2>2, AdvanceHolds
<1>7. T = Nat
  <2>1. T \subseteq Nat
    OBVIOUS
  <2> HIDE DEF T
  <2> QED BY <2>1, <1>5, <1>6, NatSetInduction
<1> QED BY <1>1, <1>3, <1>7

\* A detector that begins anew.
LEMMA NewDetector ==
  ASSUME WakeAssumption, NEW limit \in Int
  PROVE  DetectorTyped(Wake!Detector(limit)) /\ Counted(Wake!Detector(limit))
BY DEF WakeAssumption, Wake!Detector, DetectorTyped, Counted, DetectorFields

LEMMA ClosedDetector ==
  ASSUME WakeAssumption
  PROVE  DetectorTyped(Wake!Closed.detector) /\ Counted(Wake!Closed.detector)
<1>1. Wake!Closed.detector = Wake!Detector(0)
  BY DEF Wake!Closed
<1> QED BY <1>1, NewDetector

LEMMA WakeInitHolds == ASSUME WakeAssumption, Wake!Init PROVE WakeInv
<1>1. DetectorTyped(Wake!Closed.detector) /\ Counted(Wake!Closed.detector)
  BY ClosedDetector
<1>2. DOMAIN Wake!Closed = SessionFields /\ ToldIsEarned(Wake!Closed)
  BY DEF Wake!Closed, SessionFields, ToldIsEarned, Wake!Silent
<1> QED BY <1>1, <1>2 DEF Wake!Init, WakeInv

\* A step of one browser.
LEMMA OneSession ==
  ASSUME WakeInv, NEW s \in Browsers, NEW c, session' = [session EXCEPT ![s] = c],
         DOMAIN c = SessionFields, ToldIsEarned(c), DetectorTyped(c.detector), Counted(c.detector)
  PROVE  WakeInv'
BY DEF WakeInv

LEMMA AudioHolds ==
  ASSUME WakeAssumption, WakeInv, NEW s \in Browsers, NEW frames \in Messages, Wake!Audio(s, frames)
  PROVE  WakeInv'
<1> DEFINE c == session[s]  run == Wake!ProcessAudio(c.detector, frames)
           tells == run.fired /\ (c.last = Wake!None \/ clock - c.last >= Cooldown)
           detector == IF run.fired THEN [run.d EXCEPT !.heard = <<>>] ELSE run.d
           e == [c EXCEPT !.detector = detector, !.last = IF tells THEN clock ELSE c.last,
                          !.before = IF tells THEN c.last ELSE c.before,
                          !.told = IF tells THEN [at |-> clock, threshold |-> c.detector.threshold, frames |-> run.d.heard]
                                   ELSE c.told]
<1>1. session' = [session EXCEPT ![s] = e]
  BY DEF Wake!Audio
<1>2. /\ DOMAIN c = SessionFields /\ ToldIsEarned(c) /\ DetectorTyped(c.detector) /\ Counted(c.detector)
      /\ frames \in Seq(Int)
  BY DEF WakeInv, WakeAssumption
<1>3. Ran(run, c.detector)
  <2> HIDE DEF c
  <2> QED BY <1>2, MessageHolds
<1> HIDE DEF run, c
<1>4. DetectorTyped(detector) /\ Counted(detector)
  <2>1. CASE run.fired
    <3> DEFINE deaf == [run.d EXCEPT !.heard = <<>>]
    <3>1. /\ DOMAIN deaf = DetectorFields /\ deaf.heard = <<>> /\ deaf.count = 0
          /\ deaf.threshold = run.d.threshold /\ deaf.buffer = run.d.buffer
      BY <1>3, <2>1 DEF Ran, DetectorTyped, DetectorFields
    <3>2. detector = deaf
      BY <2>1
    <3> HIDE DEF deaf, detector
    <3>3. <<>> \in Seq(Int) /\ Len(<<>>) = 0
      OBVIOUS
    <3>4. DetectorTyped(deaf)
      BY <1>3, <3>1, <3>3 DEF Ran, DetectorTyped
    <3>5. Counted(deaf)
      BY <3>1, <3>3 DEF Counted, WakeAssumption
    <3> QED BY <3>2, <3>4, <3>5
  <2>2. CASE ~run.fired
    BY <1>3, <2>2 DEF Ran
  <2> QED BY <2>1, <2>2
<1> HIDE DEF detector
<1>5. /\ DOMAIN e = SessionFields /\ e.detector = detector /\ e.before = IF tells THEN c.last ELSE c.before
      /\ e.told = IF tells THEN [at |-> clock, threshold |-> c.detector.threshold, frames |-> run.d.heard] ELSE c.told
  BY <1>2 DEF SessionFields
<1>6. ToldIsEarned(e)
  <2>1. tells => Confirmed(run.d.heard, c.detector.threshold)
    BY <1>3 DEF Ran
  <2>2. tells => c.last = Wake!None \/ clock - c.last >= Cooldown
    OBVIOUS
  <2> HIDE DEF tells, e
  <2>3. CASE tells
    <3>1. e.told.at = clock /\ e.told.threshold = c.detector.threshold /\ e.told.frames = run.d.heard /\ e.before = c.last
      BY <1>5, <2>3
    <3> QED BY <3>1, <2>1, <2>2, <2>3 DEF ToldIsEarned
  <2>4. CASE ~tells
    BY <1>2, <1>5, <2>4 DEF ToldIsEarned
  <2> QED BY <2>3, <2>4
<1> HIDE DEF e
<1> QED BY <1>1, <1>4, <1>5, <1>6, OneSession

LEMMA WakeStepHolds == ASSUME WakeAssumption, WakeInv, [Wake!Next]_(Wake!vars) PROVE WakeInv'
<1>1. ASSUME NEW s \in Browsers, Wake!Connect(s) PROVE WakeInv'
  <2> DEFINE e == [Wake!Closed EXCEPT !.open = TRUE, !.detector = Wake!Detector(Floor)]
  <2>1. DOMAIN e = SessionFields /\ e.detector = Wake!Detector(Floor) /\ e.told = Wake!Silent
    BY DEF Wake!Closed, SessionFields
  <2>2. session' = [session EXCEPT ![s] = e]
    BY <1>1 DEF Wake!Connect
  <2> HIDE DEF e
  <2>3. ToldIsEarned(e)
    BY <2>1 DEF ToldIsEarned, Wake!Silent
  <2>4. Floor \in Int
    BY DEF WakeAssumption
  <2> QED BY <2>1, <2>2, <2>3, <2>4, NewDetector, OneSession
<1>2. ASSUME NEW s \in Browsers, NEW value \in Thresholds, Wake!SetThreshold(s, value) PROVE WakeInv'
  <2> DEFINE c == session[s]  limit == Wake!Max2(Lowest, Wake!Min2(Highest, Wake!Max2(Floor, value)))
             d == [c.detector EXCEPT !.threshold = limit, !.count = 0, !.heard = <<>>]
             e == [c EXCEPT !.detector = d]
  <2>1. session' = [session EXCEPT ![s] = e]
    BY <1>2 DEF Wake!SetThreshold, Wake!UpdateThreshold, WakeInv
  <2>2. limit \in Int
    BY DEF WakeAssumption, Wake!Max2, Wake!Min2
  <2>3. DOMAIN c = SessionFields /\ ToldIsEarned(c) /\ DetectorTyped(c.detector)
    BY DEF WakeInv
  <2> HIDE DEF c, limit
  <2>4. DetectorTyped(d) /\ Counted(d)
    <3>1. /\ DOMAIN d = DetectorFields /\ d.threshold = limit /\ d.count = 0 /\ d.heard = <<>>
          /\ d.buffer = c.detector.buffer
      BY <2>3 DEF DetectorTyped, DetectorFields
    <3> HIDE DEF d
    <3> QED BY <3>1, <2>2, <2>3 DEF DetectorTyped, Counted, WakeAssumption
  <2> HIDE DEF d
  <2>5. DOMAIN e = SessionFields /\ e.detector = d /\ e.told = c.told /\ e.before = c.before
    BY <2>3 DEF SessionFields
  <2> HIDE DEF e
  <2>6. ToldIsEarned(e)
    BY <2>3, <2>5 DEF ToldIsEarned
  <2> QED BY <2>1, <2>4, <2>5, <2>6, OneSession
<1>3. ASSUME NEW s \in Browsers, Wake!ResetDetector(s) PROVE WakeInv'
  <2> DEFINE c == session[s]  d == Wake!Detector(c.detector.threshold)
             e == [c EXCEPT !.detector = d, !.last = Wake!None, !.before = Wake!None, !.told = Wake!Silent]
  <2>1. session' = [session EXCEPT ![s] = e]
    BY <1>3 DEF Wake!ResetDetector
  <2>2. DOMAIN c = SessionFields /\ c.detector.threshold \in Int
    BY DEF WakeInv, DetectorTyped
  <2> HIDE DEF c
  <2>3. DetectorTyped(d) /\ Counted(d)
    BY <2>2, NewDetector
  <2> HIDE DEF d
  <2>4. DOMAIN e = SessionFields /\ e.detector = d /\ e.told = Wake!Silent
    BY <2>2 DEF SessionFields
  <2> HIDE DEF e
  <2>5. ToldIsEarned(e)
    BY <2>4 DEF ToldIsEarned, Wake!Silent
  <2> QED BY <2>1, <2>3, <2>4, <2>5, OneSession
<1>4. ASSUME NEW s \in Browsers, Wake!Disconnect(s) PROVE WakeInv'
  <2>1. DetectorTyped(Wake!Closed.detector) /\ Counted(Wake!Closed.detector)
    BY ClosedDetector
  <2>2. DOMAIN Wake!Closed = SessionFields /\ ToldIsEarned(Wake!Closed)
    BY DEF Wake!Closed, SessionFields, ToldIsEarned, Wake!Silent
  <2> QED BY <1>4, <2>1, <2>2, OneSession DEF Wake!Disconnect
<1>5. CASE Wake!Tick \/ UNCHANGED Wake!vars
  BY <1>5 DEF Wake!Tick, Wake!vars, WakeInv
<1> QED BY <1>1, <1>2, <1>3, <1>4, <1>5, AudioHolds DEF Wake!Next

\* Whatever the browsers stream, ask for and reset, and however the frames fall
\* into messages, one is told of the wake word only after as many frames in a
\* row as are required reached its threshold, and not twice within the cooldown
\* (detector.py:323-349).
THEOREM WakesEarned == ASSUME WakeAssumption PROVE ServicesSpec => []WakesAreEarned
<1> DEFINE Inv == focus = "wake" => WakeInv
<1>1. ServicesInit => Inv
  BY ServicesStarts, WakeInitHolds
<1>2. Inv /\ [ServicesNext]_allVars => Inv'
  BY ServicesSteps, WakeStepHolds
<1>3. Inv => WakesAreEarned
  BY DEF WakesAreEarned, WakeInv, ToldIsEarned, Confirmed, Wake!WakesAreEarned
<1> QED BY <1>1, <1>2, <1>3, PTL DEF ServicesSpec

----------------------------------------------------------------------------
(* DialogueContext: no context is lost, mixed up or used when it is stale. *)

\* As max(1, ...) gives them (conversation_state.py:32-34).
DialogueAssumption == MaxSessions \in Nat \ {0} /\ TTL \in Nat

\* Chosen takes positions in order, all that are asked for and no others.
Picks(seq, I, idx, f, n) ==
    /\ Len(f) \in Nat /\ f = [k \in 1..Len(f) |-> seq[idx[k]]]
    /\ \A k \in 1..Len(f) : idx[k] \in I /\ idx[k] \in 1..n
    /\ \A k, l \in 1..Len(f) : k < l => idx[k] < idx[l]
    /\ \A i \in I : i <= n => \E k \in 1..Len(f) : idx[k] = i

ChosenBody(seq, I, n, f) ==
    [k \in 0..n |-> IF k = 0 THEN <<>> ELSE IF k \in I THEN Append(f[k - 1], seq[k]) ELSE f[k - 1]]

LEMMA ChosenExists ==
  ASSUME NEW seq, NEW I, NEW n \in Nat
  PROVE  \E f : f = ChosenBody(seq, I, n, f)
<1> DEFINE Body(k, f) == [i \in 0..k |-> IF i = 0 THEN <<>> ELSE IF i \in I THEN Append(f[i - 1], seq[i]) ELSE f[i - 1]]
           More(g, i) == IF i \in I THEN Append(g, seq[i]) ELSE g
           T == {k \in Nat : \E f : f = Body(k, f)}
<1>1. 0 \in T
  <2> DEFINE g == [i \in 0..0 |-> <<>>]
  <2>1. g = Body(0, g)
    OBVIOUS
  <2> HIDE DEF g
  <2> QED BY <2>1
<1>2. ASSUME NEW k \in T PROVE k + 1 \in T
  <2>1. PICK f : f = Body(k, f)
    OBVIOUS
  <2> DEFINE g == [i \in 0..(k + 1) |-> IF i = k + 1 THEN More(f[k], k + 1) ELSE f[i]]
  <2>2. ASSUME NEW i \in 0..(k + 1) PROVE g[i] = IF i = 0 THEN <<>> ELSE More(g[i - 1], i)
    <3> HIDE DEF More
    <3>1. CASE i = k + 1
      <4>1. g[i] = More(f[k], k + 1) /\ g[i - 1] = f[k] /\ i # 0
        BY <3>1
      <4> QED BY <4>1, <3>1
    <3>2. CASE i # k + 1 /\ i # 0
      <4>1. g[i] = f[i] /\ g[i - 1] = f[i - 1] /\ i \in 0..k
        BY <3>2
      <4>2. f[i] = More(f[i - 1], i)
        BY <2>1, <4>1, <3>2 DEF More
      <4> HIDE DEF g
      <4> QED BY <4>1, <4>2, <3>2
    <3>3. CASE i = 0
      <4>1. g[i] = f[i] /\ i \in 0..k
        BY <3>3
      <4>2. f[i] = <<>>
        BY <2>1, <3>3, <4>1
      <4> HIDE DEF g
      <4> QED BY <4>1, <4>2, <3>3
    <3> QED BY <3>1, <3>2, <3>3
  <2>3. g = [i \in 0..(k + 1) |-> g[i]]
    OBVIOUS
  <2> HIDE DEF g
  <2>4. g = Body(k + 1, g)
    BY <2>2, <2>3
  <2> HIDE DEF Body
  <2>5. \E h : h = Body(k + 1, h)
    BY <2>4
  <2> QED BY <2>5
<1>3. T = Nat
  <2>1. T \subseteq Nat
    OBVIOUS
  <2> HIDE DEF T
  <2> QED BY <2>1, <1>1, <1>2, NatSetInduction
<1> QED BY <1>3 DEF ChosenBody

LEMMA ChosenPicks ==
  ASSUME NEW A, NEW seq \in Seq(A), NEW I, I \subseteq 1..Len(seq)
  PROVE  /\ Dialogue!Chosen(seq, I) \in Seq(A)
         /\ \E idx : Picks(seq, I, idx, Dialogue!Chosen(seq, I), Len(seq))
<1> DEFINE N == Len(seq)
           some == CHOOSE f : f = [k \in 0..N |-> IF k = 0 THEN <<>> ELSE IF k \in I THEN Append(f[k - 1], seq[k]) ELSE f[k - 1]]
           Holds(n) == some[n] \in Seq(A) /\ \E idx : Picks(seq, I, idx, some[n], n)
           T == {n \in Nat : n <= N => Holds(n)}
<1>1. N \in Nat /\ \A i \in 1..N : seq[i] \in A
  OBVIOUS
<1>2. Dialogue!Chosen(seq, I) = some[N]
  BY DEF Dialogue!Chosen
<1>3. some = [k \in 0..N |-> IF k = 0 THEN <<>> ELSE IF k \in I THEN Append(some[k - 1], seq[k]) ELSE some[k - 1]]
  <2>1. \E f : f = ChosenBody(seq, I, N, f)
    BY <1>1, ChosenExists
  <2> QED BY <2>1 DEF ChosenBody
<1> HIDE DEF some, N
<1>4. Holds(0)
  <2>1. some[0] = <<>>
    BY <1>1, <1>3
  <2>2. Picks(seq, I, <<>>, <<>>, 0)
    BY <1>1 DEF Picks, N
  <2>3. <<>> \in Seq(A)
    OBVIOUS
  <2> QED BY <2>1, <2>2, <2>3
<1>5. ASSUME NEW n \in Nat, n + 1 <= N, Holds(n) PROVE Holds(n + 1)
  <2> DEFINE f == some[n]
  <2>1. PICK idx : Picks(seq, I, idx, f, n)
    BY <1>5
  <2>2. f \in Seq(A) /\ Len(f) \in Nat
    BY <1>5
  <2>3. CASE n + 1 \notin I
    <3>1. some[n + 1] = f
      <4>1. n + 1 \in 0..N /\ n + 1 # 0 /\ (n + 1) - 1 = n
        BY <1>1, <1>5
      <4>2. some[n + 1] = some[(n + 1) - 1]
        BY <1>3, <2>3, <4>1
      <4> QED BY <4>1, <4>2
    <3> HIDE DEF f
    <3>2. Picks(seq, I, idx, f, n + 1)
      BY <2>1, <2>3 DEF Picks
    <3> QED BY <2>2, <3>1, <3>2
  <2>4. CASE n + 1 \in I
    <3> DEFINE jdx == [k \in 1..(Len(f) + 1) |-> IF k = Len(f) + 1 THEN n + 1 ELSE idx[k]]
               g == Append(f, seq[n + 1])
    <3>1. some[n + 1] = g
      BY <1>1, <1>3, <1>5, <2>4
    <3> HIDE DEF f
    <3>2. g \in Seq(A) /\ Len(g) = Len(f) + 1 /\ g[Len(f) + 1] = seq[n + 1] /\ \A k \in 1..Len(f) : g[k] = f[k]
      BY <1>1, <1>5, <2>2
    <3>3. /\ \A k \in 1..Len(f) : jdx[k] = idx[k]
          /\ jdx[Len(f) + 1] = n + 1
      BY <2>2
    <3> HIDE DEF g, jdx
    <3>4. \A k \in 1..Len(f) : f[k] = seq[idx[k]]
      BY <2>1 DEF Picks
    <3>5. g = [k \in 1..Len(g) |-> seq[jdx[k]]]
      <4>1. g = [k \in 1..Len(g) |-> g[k]]
        BY <3>2
      <4>2. \A k \in 1..Len(g) : g[k] = seq[jdx[k]]
        BY <2>2, <3>2, <3>3, <3>4
      <4> QED BY <4>1, <4>2
    <3>6. /\ \A k \in 1..Len(g) : jdx[k] \in I /\ jdx[k] \in 1..(n + 1)
          /\ \A k, l \in 1..Len(g) : k < l => jdx[k] < jdx[l]
      <4>1. \A k \in 1..Len(f) : idx[k] \in I /\ idx[k] \in 1..n
        BY <2>1 DEF Picks
      <4>2. \A k, l \in 1..Len(f) : k < l => idx[k] < idx[l]
        BY <2>1 DEF Picks
      <4>3. \A k \in 1..Len(g) : k \in 1..Len(f) \/ k = Len(f) + 1
        BY <2>2, <3>2
      <4>4. \A k \in 1..Len(g) : jdx[k] \in I /\ jdx[k] \in 1..(n + 1)
        BY <1>5, <2>4, <3>3, <4>1, <4>3
      <4>5. ASSUME NEW k \in 1..Len(g), NEW l \in 1..Len(g), k < l PROVE jdx[k] < jdx[l]
        <5>1. k \in 1..Len(f)
          BY <2>2, <3>2, <4>5
        <5>2. jdx[k] = idx[k] /\ idx[k] \in 1..n
          BY <3>3, <4>1, <5>1
        <5>3. CASE l \in 1..Len(f)
          BY <3>3, <4>2, <4>5, <5>1, <5>3
        <5>4. CASE l = Len(f) + 1
          BY <1>5, <3>3, <5>2, <5>4
        <5> QED BY <4>3, <5>3, <5>4
      <4> QED BY <4>4, <4>5
    <3>7. \A i \in I : i <= n + 1 => \E k \in 1..Len(g) : jdx[k] = i
      <4> SUFFICES ASSUME NEW i \in I, i <= n + 1 PROVE \E k \in 1..Len(g) : jdx[k] = i
        OBVIOUS
      <4>1. CASE i = n + 1
        BY <4>1, <2>2, <3>2, <3>3
      <4>2. CASE i # n + 1
        <5>1. i \in Nat
          BY <1>1 DEF N
        <5>2. PICK k \in 1..Len(f) : idx[k] = i
          BY <5>1, <4>2, <2>1 DEF Picks
        <5> QED BY <5>2, <2>2, <3>2, <3>3
      <4> QED BY <4>1, <4>2
    <3>8. Picks(seq, I, jdx, g, n + 1)
      BY <3>2, <2>2, <3>5, <3>6, <3>7 DEF Picks
    <3> QED BY <3>1, <3>2, <3>8
  <2> QED BY <2>3, <2>4
<1> HIDE DEF Holds
<1>6. T = Nat
  <2>1. T \subseteq Nat /\ 0 \in T
    BY <1>4
  <2>2. ASSUME NEW n \in T PROVE n + 1 \in T
    BY <1>1, <1>5
  <2> HIDE DEF T
  <2> QED BY <2>1, <2>2, NatSetInduction
<1>7. Holds(N)
  BY <1>1, <1>6
<1> QED BY <1>2, <1>7 DEF Holds, N

Filters(A, seq, I, f) ==
    /\ f \in Seq(A)
    /\ \A k \in DOMAIN f : \E i \in I : f[k] = seq[i]
    /\ \A k, l \in DOMAIN f : k < l => \E i, j \in I : i < j /\ f[k] = seq[i] /\ f[l] = seq[j]
    /\ \A i \in I : \E k \in DOMAIN f : f[k] = seq[i]
    /\ \A i, j \in I : i < j => \E k, l \in DOMAIN f : k < l /\ f[k] = seq[i] /\ f[l] = seq[j]

LEMMA Filtered ==
  ASSUME NEW A, NEW seq \in Seq(A), NEW I, I \subseteq DOMAIN seq
  PROVE  Filters(A, seq, I, Dialogue!Chosen(seq, I))
<1> DEFINE f == Dialogue!Chosen(seq, I)
<1>1. I \subseteq 1..Len(seq) /\ Len(seq) \in Nat
  OBVIOUS
<1>2. f \in Seq(A) /\ \E idx : Picks(seq, I, idx, f, Len(seq))
  BY <1>1, ChosenPicks
<1> HIDE DEF f
<1>3. PICK idx : Picks(seq, I, idx, f, Len(seq))
  BY <1>2
<1>4. DOMAIN f = 1..Len(f) /\ Len(f) \in Nat
  BY <1>2
<1>5. \A k \in 1..Len(f) : f[k] = seq[idx[k]] /\ idx[k] \in I
  BY <1>3 DEF Picks
<1>6. \A k, l \in 1..Len(f) : k < l => idx[k] < idx[l]
  BY <1>3 DEF Picks
<1>7. \A i \in I : \E k \in 1..Len(f) : idx[k] = i
  BY <1>1, <1>3 DEF Picks
<1>8. ASSUME NEW i \in I, NEW j \in I, i < j
      PROVE  \E k, l \in DOMAIN f : k < l /\ f[k] = seq[i] /\ f[l] = seq[j]
  <2>1. PICK k \in 1..Len(f), l \in 1..Len(f) : idx[k] = i /\ idx[l] = j
    BY <1>7
  <2>2. k < l
    <3>1. i \in Nat /\ j \in Nat /\ k \in Nat /\ l \in Nat
      BY <1>1
    <3>2. ~(l < k) /\ l # k
      BY <1>6, <1>8, <2>1, <3>1
    <3> QED BY <3>1, <3>2
  <2> QED BY <1>4, <1>5, <2>1, <2>2
<1>9. \A k, l \in DOMAIN f : k < l => \E i, j \in I : i < j /\ f[k] = seq[i] /\ f[l] = seq[j]
  BY <1>4, <1>5, <1>6
<1>10. (\A k \in DOMAIN f : \E i \in I : f[k] = seq[i]) /\ \A i \in I : \E k \in DOMAIN f : f[k] = seq[i]
  BY <1>4, <1>5, <1>7
<1> QED BY <1>2, <1>8, <1>9, <1>10 DEF f, Filters

\* Who used the store, and who before whom.
Among(seq, s) == \E i \in DOMAIN seq : seq[i] = s
Before(seq, s, r) == \E i, j \in DOMAIN seq : i < j /\ seq[i] = s /\ seq[j] = r
After(seq, s) == {r \in Sessions : Before(seq, s, r)}

LEMMA SameCountOfSessions == \A S : Dialogue!Cardinality(S) = Cardinality(S)
  BY DEF Cardinality, Dialogue!Cardinality

LEMMA FewAfter ==
  ASSUME NEW seq \in Seq(Sessions), NEW s
  PROVE  IsFiniteSet(After(seq, s)) /\ Cardinality(After(seq, s)) \in Nat
<1> DEFINE all == {seq[j] : j \in 1..Len(seq)}
<1>1. IsFiniteSet(1..Len(seq))
  BY FS_Interval
<1>2. IsFiniteSet(all)
  <2>1. seq \in Surjection(1..Len(seq), all)
    BY DEF Surjection
  <2> QED BY <1>1, <2>1, FS_Surjection
<1>3. After(seq, s) \subseteq all
  BY DEF After, Before
<1>4. IsFiniteSet(After(seq, s))
  BY <1>2, <1>3, FS_Subset
<1> QED BY <1>4, FS_CardinalityType

\* A session that uses the store comes after all others, whose order stays.
LEMMA UsedLast ==
  ASSUME recent \in Seq(Sessions), NEW s \in Sessions, Dialogue!Use(s)
  PROVE  /\ recent' \in Seq(Sessions) /\ Among(recent', s)
         /\ \A r : r # s /\ Among(recent, r) => Among(recent', r) /\ Before(recent', r, s)
         /\ \A r, q : r # s /\ q # s /\ Before(recent, r, q) => Before(recent', r, q)
<1> DEFINE I == {i \in DOMAIN recent : recent[i] # s}  f == Dialogue!Chosen(recent, I)
<1>0. I \subseteq DOMAIN recent
  OBVIOUS
<1> HIDE DEF I
<1>1. /\ f \in Seq(Sessions) /\ \A i \in I : \E k \in DOMAIN f : f[k] = recent[i]
      /\ \A i, j \in I : i < j => \E k, l \in DOMAIN f : k < l /\ f[k] = recent[i] /\ f[l] = recent[j]
  <2>1. Filters(Sessions, recent, I, f)
    BY <1>0, Filtered
  <2> QED BY <2>1 DEF Filters
<1>2. recent' = Append(f, s)
  BY DEF Dialogue!Use, I
<1> HIDE DEF f
<1>3. /\ recent' \in Seq(Sessions) /\ DOMAIN recent' = 1..(Len(f) + 1) /\ DOMAIN f = 1..Len(f) /\ Len(f) \in Nat
      /\ recent'[Len(f) + 1] = s /\ \A k \in 1..Len(f) : recent'[k] = f[k]
  BY <1>1, <1>2
<1>4. ASSUME NEW r, r # s, Among(recent, r) PROVE Among(recent', r) /\ Before(recent', r, s)
  <2>1. PICK k \in DOMAIN f : f[k] = r
    BY <1>1, <1>4 DEF Among, I
  <2>2. recent'[k] = r /\ k \in DOMAIN recent' /\ k < Len(f) + 1 /\ Len(f) + 1 \in DOMAIN recent'
    BY <1>3, <2>1
  <2> QED BY <1>3, <2>2 DEF Among, Before
<1>5. ASSUME NEW r, NEW q, r # s, q # s, Before(recent, r, q) PROVE Before(recent', r, q)
  <2>1. PICK k \in DOMAIN f, l \in DOMAIN f : k < l /\ f[k] = r /\ f[l] = q
    BY <1>1, <1>5 DEF Before, I
  <2>2. recent'[k] = r /\ recent'[l] = q /\ k \in DOMAIN recent' /\ l \in DOMAIN recent'
    BY <1>3, <2>1
  <2> QED BY <2>1, <2>2 DEF Before
<1>6. Among(recent', s)
  BY <1>3 DEF Among
<1> QED BY <1>3, <1>4, <1>5, <1>6

\* So a session that still fits did so before.
LEMMA FitsBefore ==
  ASSUME recent \in Seq(Sessions), NEW s \in Sessions, Dialogue!Use(s), NEW r, r # s,
         MaxSessions \in Nat, Cardinality(After(recent', r)) < MaxSessions
  PROVE  Cardinality(After(recent, r)) < MaxSessions
<1>1. After(recent, r) \subseteq After(recent', r)
  <2>1. ASSUME NEW q \in Sessions, Before(recent, r, q) PROVE Before(recent', r, q)
    <3>1. CASE q = s
      <4>1. Among(recent, r)
        BY <2>1 DEF Before, Among
      <4> QED BY <3>1, <4>1, UsedLast
    <3>2. CASE q # s
      BY <2>1, <3>2, UsedLast
    <3> QED BY <3>1, <3>2
  <2> QED BY <2>1 DEF After
<1>2. recent' \in Seq(Sessions)
  BY UsedLast
<1>3. IsFiniteSet(After(recent', r)) /\ Cardinality(After(recent', r)) \in Nat
  BY <1>2, FewAfter
<1>4. Cardinality(After(recent, r)) <= Cardinality(After(recent', r)) /\ Cardinality(After(recent, r)) \in Nat
  <2>1. IsFiniteSet(After(recent, r)) /\ Cardinality(After(recent, r)) <= Cardinality(After(recent', r))
    BY <1>1, <1>3, FS_Subset
  <2> QED BY <2>1, FS_CardinalityType
<1> QED BY <1>3, <1>4

Contexts == [topic : Topics \cup {Unclear}, updated : Nat]
Items == [session : Sessions, context : Contexts]
Kept == [context : Contexts, asked : Nat]
Heard == [session : Sessions, question : Topics \cup {FollowUp}, heard : Nat, prior : Contexts \cup {Nothing}]

\* One item for each session, that with its last context, in the order in which
\* the store was used.
InOrder(seq, used, kept) ==
    /\ seq \in Seq(Items)
    /\ \A i, j \in DOMAIN seq : i < j =>
          seq[i].session # seq[j].session /\ Before(used, seq[i].session, seq[j].session)
    /\ \A i \in DOMAIN seq : Among(used, seq[i].session) /\ seq[i].context = kept[seq[i].session].context

\* Nothing is missing that should be there.
Complete(seq, time, used, kept) ==
    \A s \in Sessions :
        /\ kept[s] # Nothing /\ time <= kept[s].context.updated + TTL
        /\ Cardinality(After(used, s)) < MaxSessions
        => \E i \in DOMAIN seq : seq[i].session = s

\* A turn that began has its question; what it took over was fresh.
TurnHolds(t) ==
    IF pc[t] = "idle" THEN turn[t] = Nothing
    ELSE /\ turn[t] \in Heard /\ turn[t].heard <= now
         /\ turn[t].prior # Nothing => turn[t].heard <= turn[t].prior.updated + TTL

DialogueInv ==
    /\ now \in Nat /\ recent \in Seq(Sessions) /\ DOMAIN stored = Sessions
    /\ \A s \in Sessions : stored[s] # Nothing => stored[s] \in Kept
    /\ InOrder(items, recent, stored) /\ Complete(items, now, recent, stored)
    /\ DOMAIN pc = Turns /\ DOMAIN turn = Turns /\ \A t \in Turns : TurnHolds(t)

LEMMA DialogueInitHolds == Dialogue!Init => DialogueInv
BY DEF Dialogue!Init, DialogueInv, InOrder, Complete, TurnHolds

LEMMA FilteredInOrder ==
  ASSUME NEW seq, NEW used, NEW kept, InOrder(seq, used, kept), NEW I, I \subseteq DOMAIN seq
  PROVE  InOrder(Dialogue!Chosen(seq, I), used, kept)
<1> DEFINE f == Dialogue!Chosen(seq, I)
<1>1. Filters(Items, seq, I, f)
  BY Filtered DEF InOrder
<1> HIDE DEF f
<1>2. f \in Seq(Items)
  BY <1>1 DEF Filters
<1>3. ASSUME NEW k \in DOMAIN f, NEW l \in DOMAIN f, k < l
      PROVE  f[k].session # f[l].session /\ Before(used, f[k].session, f[l].session)
  <2>1. PICK i \in I, j \in I : i < j /\ f[k] = seq[i] /\ f[l] = seq[j]
    BY <1>1, <1>3 DEF Filters
  <2> QED BY <2>1 DEF InOrder
<1>4. ASSUME NEW k \in DOMAIN f
      PROVE  Among(used, f[k].session) /\ f[k].context = kept[f[k].session].context
  <2>1. PICK i \in I : f[k] = seq[i]
    BY <1>1 DEF Filters
  <2> QED BY <2>1 DEF InOrder
<1>5. InOrder(f, used, kept)
  BY <1>2, <1>3, <1>4 DEF InOrder
<1> QED BY <1>5 DEF f

\* The item of a session that uses the store comes last, instead of the one it had.
Renewed(seq, e) == Append(Dialogue!Without(seq, e.session), e)

HasRenewed(seq, e, g, used, next) ==
    /\ InOrder(g, used, next) /\ g[Len(g)] = e /\ Len(g) \in Nat \ {0}
    /\ \A i \in DOMAIN seq : seq[i].session # e.session => \E k \in DOMAIN g : g[k] = seq[i]

LEMMA RenewedInOrder ==
  ASSUME NEW seq, NEW kept, InOrder(seq, recent, kept), recent \in Seq(Sessions),
         NEW e \in Items, Dialogue!Use(e.session),
         NEW next, e.context = next[e.session].context, \A r \in Sessions : r # e.session => next[r] = kept[r]
  PROVE  HasRenewed(seq, e, Renewed(seq, e), recent', next)
<1> DEFINE s == e.session  I == {i \in DOMAIN seq : seq[i].session # s}  f == Dialogue!Chosen(seq, I)  g == Renewed(seq, e)
<1>1. g = Append(f, e)
  BY DEF Renewed, Dialogue!Without
<1>2. I \subseteq DOMAIN seq /\ seq \in Seq(Items) /\ \A i \in I : seq[i].session # s
  BY DEF InOrder
<1>3. \A i \in DOMAIN seq : seq[i].session # s => i \in I
  OBVIOUS
<1> HIDE DEF I
<1>4. Filters(Items, seq, I, f) /\ InOrder(f, recent, kept)
  BY <1>2, Filtered, FilteredInOrder
<1> HIDE DEF f, g
<1>5. /\ g \in Seq(Items) /\ DOMAIN g = 1..(Len(f) + 1) /\ DOMAIN f = 1..Len(f) /\ Len(f) \in Nat
      /\ Len(g) = Len(f) + 1 /\ g[Len(f) + 1] = e /\ \A k \in 1..Len(f) : g[k] = f[k]
  BY <1>1, <1>4 DEF Filters
<1>6. s \in Sessions
  BY DEF Items
<1>7. ASSUME NEW k \in 1..Len(f)
      PROVE  /\ f[k].session # s /\ f[k].session \in Sessions /\ Among(recent, f[k].session)
             /\ f[k].context = kept[f[k].session].context
  <2>1. f[k].session # s
    <3>1. PICK i \in I : f[k] = seq[i]
      BY <1>4, <1>5 DEF Filters
    <3> QED BY <1>2, <3>1
  <2>2. f[k] \in Items
    BY <1>4, <1>5 DEF Filters
  <2> QED BY <1>4, <1>5, <2>1, <2>2 DEF InOrder, Items
<1> HIDE DEF s
<1>8. Dialogue!Use(s) /\ e.context = next[s].context /\ e.session = s /\ \A r \in Sessions : r # s => next[r] = kept[r]
  BY DEF s
<1>9. /\ Among(recent', s)
      /\ \A r : r # s /\ Among(recent, r) => Among(recent', r) /\ Before(recent', r, s)
      /\ \A r, q : r # s /\ q # s /\ Before(recent, r, q) => Before(recent', r, q)
  BY <1>6, <1>8, UsedLast
<1>10. ASSUME NEW k \in DOMAIN g PROVE Among(recent', g[k].session) /\ g[k].context = next[g[k].session].context
  <2>1. CASE k = Len(f) + 1
    BY <2>1, <1>5, <1>8, <1>9
  <2>2. CASE k # Len(f) + 1
    <3>1. k \in 1..Len(f) /\ g[k] = f[k]
      BY <1>5, <2>2
    <3> QED BY <3>1, <1>7, <1>8, <1>9
  <2> QED BY <2>1, <2>2
<1>11. ASSUME NEW k \in DOMAIN g, NEW l \in DOMAIN g, k < l
       PROVE  g[k].session # g[l].session /\ Before(recent', g[k].session, g[l].session)
  <2>1. k \in 1..Len(f) /\ g[k] = f[k]
    BY <1>5, <1>11
  <2>2. CASE l = Len(f) + 1
    BY <2>1, <2>2, <1>5, <1>7, <1>8, <1>9
  <2>3. CASE l # Len(f) + 1
    <3>1. l \in 1..Len(f) /\ g[l] = f[l]
      BY <1>5, <2>3
    <3>2. f[k].session # f[l].session /\ Before(recent, f[k].session, f[l].session)
      BY <1>4, <1>5, <1>11, <2>1, <3>1 DEF InOrder
    <3> QED BY <2>1, <3>1, <3>2, <1>7, <1>9
  <2> QED BY <2>2, <2>3
<1>12. InOrder(g, recent', next)
  BY <1>5, <1>10, <1>11 DEF InOrder
<1>13. ASSUME NEW i \in DOMAIN seq, seq[i].session # s PROVE \E k \in DOMAIN g : g[k] = seq[i]
  <2>1. PICK k \in DOMAIN f : f[k] = seq[i]
    BY <1>3, <1>4, <1>8, <1>13 DEF Filters, s
  <2> QED BY <2>1, <1>5
<1> QED BY <1>5, <1>12, <1>13 DEF g, s, HasRenewed

LEMMA NewestKeeps ==
  ASSUME NEW seq, NEW used \in Seq(Sessions), NEW kept, InOrder(seq, used, kept), NEW n \in Nat \ {0}, Len(seq) \in Nat \ {0}
  PROVE  LET f == Dialogue!Newest(seq, n) IN
         /\ InOrder(f, used, kept)
         /\ \E k \in DOMAIN f : f[k] = seq[Len(seq)]
         /\ \A p \in DOMAIN seq : Cardinality(After(used, seq[p].session)) < n => \E k \in DOMAIN f : f[k] = seq[p]
<1> DEFINE N == Len(seq)  low == IF N > n THEN N - n + 1 ELSE 1  f == Dialogue!Newest(seq, n)
<1>1. seq \in Seq(Items) /\ DOMAIN seq = 1..N /\ N \in Nat \ {0} /\ low \in 1..N
  BY DEF InOrder
<1>2. f = SubSeq(seq, low, N)
  BY DEF Dialogue!Newest
<1> HIDE DEF f
<1>3. /\ f \in Seq(Items) /\ DOMAIN f = 1..(N - low + 1)
      /\ \A k \in 1..(N - low + 1) : f[k] = seq[k + low - 1] /\ k + low - 1 \in DOMAIN seq
  <2> HIDE DEF low, N
  <2>1. \A k \in 1..(N - low + 1) : k + low - 1 \in DOMAIN seq
    BY <1>1
  <2>2. f \in Seq(Items) /\ Len(f) = N - low + 1 /\ \A k \in 1..(N - low + 1) : f[k] = seq[k + low - 1]
    BY <1>1, <1>2
  <2> QED BY <2>1, <2>2
<1>4. \A p \in DOMAIN seq : p >= low => \E k \in DOMAIN f : f[k] = seq[p]
  <2> SUFFICES ASSUME NEW p \in DOMAIN seq, p >= low PROVE \E k \in DOMAIN f : f[k] = seq[p]
    OBVIOUS
  <2> HIDE DEF low, N
  <2>1. p - low + 1 \in 1..(N - low + 1) /\ (p - low + 1) + low - 1 = p
    BY <1>1
  <2> QED BY <1>3, <2>1
<1>5. InOrder(f, used, kept)
  <2> HIDE DEF low, N
  <2>1. ASSUME NEW k \in DOMAIN f, NEW l \in DOMAIN f, k < l
        PROVE  f[k].session # f[l].session /\ Before(used, f[k].session, f[l].session)
    <3> DEFINE i == k + low - 1  j == l + low - 1
    <3>1. i \in DOMAIN seq /\ j \in DOMAIN seq /\ f[k] = seq[i] /\ f[l] = seq[j]
      BY <1>3
    <3>2. i < j
      BY <1>1, <1>3, <2>1
    <3> HIDE DEF i, j
    <3> QED BY <3>1, <3>2 DEF InOrder
  <2>2. ASSUME NEW k \in DOMAIN f PROVE Among(used, f[k].session) /\ f[k].context = kept[f[k].session].context
    BY <1>3 DEF InOrder
  <2> QED BY <1>3, <2>1, <2>2 DEF InOrder
<1>6. ASSUME NEW p \in DOMAIN seq, Cardinality(After(used, seq[p].session)) < n PROVE p >= low
  <2> DEFINE later == After(used, seq[p].session)  map == [q \in (p + 1)..N |-> seq[q].session]
  <2>1. \A q \in (p + 1)..N : q \in DOMAIN seq /\ p < q
    BY <1>1
  <2>2. \A q \in (p + 1)..N : seq[q].session \in later
    <3>0. \A q \in DOMAIN seq : seq[q] \in Items
      BY <1>1
    <3>1. \A q \in (p + 1)..N : seq[q].session \in Sessions
      BY <2>1, <3>0 DEF Items
    <3>2. \A q \in (p + 1)..N : Before(used, seq[p].session, seq[q].session)
      BY <2>1 DEF InOrder
    <3> QED BY <3>1, <3>2 DEF After
  <2>3. ASSUME NEW q \in (p + 1)..N, NEW r \in (p + 1)..N, seq[q].session = seq[r].session PROVE q = r
    <3>1. q \in DOMAIN seq /\ r \in DOMAIN seq /\ q \in Int /\ r \in Int
      BY <2>1
    <3>2. ~(q < r) /\ ~(r < q)
      BY <2>3, <3>1 DEF InOrder
    <3> QED BY <3>1, <3>2
  <2>4. map \in Injection((p + 1)..N, later)
    <3> HIDE DEF later, N
    <3>1. map \in [(p + 1)..N -> later]
      BY <2>2
    <3>2. \A q, r \in (p + 1)..N : map[q] = map[r] => q = r
      BY <2>3
    <3>3. DOMAIN map = (p + 1)..N
      OBVIOUS
    <3> HIDE DEF map
    <3> QED BY <3>1, <3>2, <3>3 DEF Injection, IsInjective
  <2>5. IsFiniteSet(later) /\ Cardinality(later) \in Nat /\ Cardinality(later) < n
    BY <1>6, FewAfter
  <2>6. Cardinality((p + 1)..N) <= Cardinality(later)
    BY <2>4, <2>5, FS_Injection
  <2>7. p \in 1..N /\ p + 1 \in Int /\ N \in Int
    BY <1>1
  <2>8. Cardinality((p + 1)..N) = IF p + 1 > N THEN 0 ELSE N - (p + 1) + 1
    BY <2>7, FS_Interval
  <2> HIDE DEF later, N
  <2> QED BY <2>5, <2>6, <2>7, <2>8, <1>1
<1>7. \E k \in DOMAIN f : f[k] = seq[N]
  BY <1>1, <1>4
<1> QED BY <1>4, <1>5, <1>6, <1>7 DEF f

\* What is left when the expired contexts are dropped.
LEMMA UnexpiredHolds ==
  ASSUME DialogueAssumption, NEW seq, NEW used, NEW kept, InOrder(seq, used, kept), NEW time \in Nat
  PROVE  LET f == Dialogue!Unexpired(seq, time) IN
         /\ InOrder(f, used, kept)
         /\ \A k \in DOMAIN f : time <= f[k].context.updated + TTL
         /\ \A i \in DOMAIN seq : time <= seq[i].context.updated + TTL => \E k \in DOMAIN f : f[k] = seq[i]
<1> DEFINE I == {i \in DOMAIN seq : time <= seq[i].context.updated + TTL}  f == Dialogue!Unexpired(seq, time)
<1>1. f = Dialogue!Chosen(seq, I)
  BY DEF Dialogue!Unexpired
<1>2. /\ I \subseteq DOMAIN seq /\ seq \in Seq(Items) /\ \A i \in I : time <= seq[i].context.updated + TTL
      /\ \A i \in DOMAIN seq : time <= seq[i].context.updated + TTL => i \in I
  BY DEF InOrder
<1> HIDE DEF I, f
<1>3. Filters(Items, seq, I, f) /\ InOrder(f, used, kept)
  BY <1>1, <1>2, Filtered, FilteredInOrder
<1>4. ASSUME NEW k \in DOMAIN f PROVE time <= f[k].context.updated + TTL
  <2>1. PICK i \in I : f[k] = seq[i]
    BY <1>3 DEF Filters
  <2> QED BY <1>2, <2>1
<1>5. ASSUME NEW i \in DOMAIN seq, time <= seq[i].context.updated + TTL PROVE \E k \in DOMAIN f : f[k] = seq[i]
  BY <1>2, <1>3, <1>5 DEF Filters
<1> QED BY <1>3, <1>4, <1>5 DEF f

\* A turn that goes on leaves the others alone.
LEMMA OneTurn ==
  ASSUME DialogueInv, UNCHANGED now, NEW t \in Turns, NEW stage, Dialogue!Goto(t, stage),
         DOMAIN turn' = Turns, \A u \in Turns : u # t => turn'[u] = turn[u], TurnHolds(t)'
  PROVE  DOMAIN pc' = Turns /\ \A u \in Turns : TurnHolds(u)'
<1>1. DOMAIN pc' = Turns /\ \A u \in Turns : u # t => pc'[u] = pc[u]
  BY DEF Dialogue!Goto, DialogueInv
<1>2. ASSUME NEW u \in Turns, u # t PROVE TurnHolds(u)'
  BY <1>1, <1>2 DEF TurnHolds, DialogueInv
<1> QED BY <1>1, <1>2

LEMMA GetHolds ==
  ASSUME DialogueAssumption, DialogueInv, NEW t \in Turns, Dialogue!Get(t)
  PROVE  DialogueInv'
<1> DEFINE s == turn[t].session  time == turn[t].heard  live == Dialogue!Unexpired(items, time)
<1>1. /\ turn[t] \in Heard /\ time \in Nat /\ time <= now /\ s \in Sessions
      /\ turn[t].prior # Nothing => time <= turn[t].prior.updated + TTL
  BY DEF Dialogue!Get, DialogueInv, TurnHolds, Heard
<1>2. /\ InOrder(live, recent, stored)
      /\ \A k \in DOMAIN live : time <= live[k].context.updated + TTL
      /\ \A i \in DOMAIN items : time <= items[i].context.updated + TTL => \E k \in DOMAIN live : live[k] = items[i]
  BY <1>1, UnexpiredHolds DEF DialogueInv
<1>3. UNCHANGED <<now, stored>> /\ now \in Nat /\ recent \in Seq(Sessions) /\ pc' = [pc EXCEPT ![t] = "answer"]
  BY DEF Dialogue!Get, Dialogue!Goto, DialogueInv
<1> HIDE DEF s, time, live
<1>4. ASSUME NEW r \in Sessions, stored[r] # Nothing, now <= stored[r].context.updated + TTL,
             Cardinality(After(recent, r)) < MaxSessions
      PROVE  \E k \in DOMAIN live : live[k].session = r
  <2>1. PICK i \in DOMAIN items : items[i].session = r
    BY <1>4 DEF DialogueInv, Complete
  <2>2. items[i].context = stored[r].context /\ stored[r].context.updated \in Nat
    BY <1>4, <2>1 DEF DialogueInv, InOrder, Kept, Contexts
  <2>3. time <= items[i].context.updated + TTL
    BY <1>1, <1>3, <1>4, <2>2 DEF DialogueAssumption
  <2> QED BY <1>2, <2>1, <2>3
<1>5. CASE items' = live /\ UNCHANGED <<turn, recent>>
  <2>1. InOrder(items', recent', stored') /\ Complete(items', now', recent', stored')
    BY <1>2, <1>3, <1>4, <1>5 DEF Complete
  <2>2. TurnHolds(t)'
    BY <1>1, <1>3, <1>5 DEF TurnHolds, DialogueInv, time
  <2>3. DOMAIN pc' = Turns /\ \A u \in Turns : TurnHolds(u)'
    BY <1>3, <1>5, <2>2, OneTurn DEF Dialogue!Goto, DialogueInv
  <2> QED BY <1>3, <1>5, <2>1, <2>3 DEF DialogueInv
<1>6. CASE \E i \in DOMAIN live : /\ live[i].session = s
                                /\ items' = Append(Dialogue!Without(live, s), live[i])
                                /\ Dialogue!Inherit(t, live[i].context) /\ Dialogue!Use(s)
  <2>1. PICK i \in DOMAIN live : /\ live[i].session = s
                                /\ items' = Append(Dialogue!Without(live, s), live[i])
                                /\ Dialogue!Inherit(t, live[i].context) /\ Dialogue!Use(s)
    BY <1>6
  <2> DEFINE e == live[i]
  <2>2. e \in Items /\ e.session = s /\ e.context = stored[s].context /\ e.context \in Contexts
    <3>1. live \in Seq(Items) /\ live[i].context = stored[live[i].session].context
      BY <1>2 DEF InOrder
    <3>2. live[i] \in Items
      BY <3>1
    <3> QED BY <2>1, <3>1, <3>2 DEF Items
  <2>3. time <= e.context.updated + TTL
    BY <1>2
  <2> HIDE DEF e
  <2>4. items' = Renewed(live, e) /\ Dialogue!Use(e.session)
    BY <2>1, <2>2 DEF Renewed, e
  <2>5. HasRenewed(live, e, Renewed(live, e), recent', stored)
    <3>1. e.context = stored[e.session].context /\ \A r \in Sessions : r # e.session => stored[r] = stored[r]
      BY <2>2
    <3> QED BY <1>2, <1>3, <2>2, <2>4, <3>1, RenewedInOrder
  <2>6. InOrder(items', recent', stored')
    BY <1>3, <2>4, <2>5 DEF HasRenewed
  <2>7. recent' \in Seq(Sessions)
    BY <1>1, <1>3, <2>1, UsedLast
  <2>8. ASSUME NEW r \in Sessions, stored[r] # Nothing, now <= stored[r].context.updated + TTL,
               Cardinality(After(recent', r)) < MaxSessions
        PROVE  \E k \in DOMAIN items' : items'[k].session = r
    <3>1. CASE r = s
      <4>1. Len(items') \in DOMAIN items' /\ items'[Len(items')] = e
        BY <2>4, <2>5, <2>6 DEF InOrder, HasRenewed
      <4> QED BY <2>2, <3>1, <4>1
    <3>2. CASE r # s
      <4>1. MaxSessions \in Nat
        BY DEF DialogueAssumption
      <4>2. Cardinality(After(recent, r)) < MaxSessions
        BY <1>1, <1>3, <2>1, <2>8, <3>2, <4>1, FitsBefore
      <4>3. PICK k \in DOMAIN live : live[k].session = r
        BY <1>4, <2>8, <4>2
      <4> QED BY <2>2, <2>4, <2>5, <3>2, <4>3 DEF HasRenewed
    <3> QED BY <3>1, <3>2
  <2>9. Complete(items', now', recent', stored')
    BY <1>3, <2>8 DEF Complete
  <2>10. /\ DOMAIN turn' = Turns /\ \A u \in Turns : u # t => turn'[u] = turn[u]
         /\ turn'[t] = turn[t] \/ turn'[t] = [turn[t] EXCEPT !.prior = e.context]
    BY <2>1 DEF Dialogue!Inherit, DialogueInv, e
  <2>11. TurnHolds(t)'
    <3>1. pc'[t] # "idle"
      BY <1>3 DEF DialogueInv
    <3>2. CASE turn'[t] = turn[t]
      BY <1>1, <1>3, <3>1, <3>2 DEF TurnHolds, time
    <3>3. CASE turn'[t] = [turn[t] EXCEPT !.prior = e.context]
      <4>1. /\ turn'[t] \in Heard /\ turn'[t].heard = time /\ turn'[t].prior = e.context
        BY <1>1, <2>2, <3>3 DEF Heard, time
      <4> QED BY <1>1, <1>3, <2>3, <3>1, <4>1 DEF TurnHolds
    <3> QED BY <2>10, <3>2, <3>3
  <2>12. DOMAIN pc' = Turns /\ \A u \in Turns : TurnHolds(u)'
    BY <1>3, <2>10, <2>11, OneTurn DEF Dialogue!Goto
  <2> QED BY <1>3, <2>6, <2>7, <2>9, <2>10, <2>12 DEF DialogueInv
<1>7. Dialogue!Find(live, s) = {i \in DOMAIN live : live[i].session = s}
  BY DEF Dialogue!Find
<1> QED BY <1>5, <1>6, <1>7 DEF Dialogue!Get, s, time, live

LEMMA RememberHolds ==
  ASSUME DialogueAssumption, DialogueInv, NEW t \in Turns, Dialogue!Remember(t)
  PROVE  DialogueInv'
<1> DEFINE s == turn[t].session  context == [topic |-> Dialogue!TopicOf(turn[t]), updated |-> now]
           live == Dialogue!Unexpired(items, now)  e == [session |-> s, context |-> context]
           kept == [context |-> context, asked |-> turn[t].heard]
           all == Renewed(live, e)
<1>1. turn[t] \in Heard /\ s \in Sessions /\ now \in Nat /\ recent \in Seq(Sessions) /\ pc[t] = "remember"
  BY DEF Dialogue!Remember, DialogueInv, TurnHolds, Heard
<1>2. context \in Contexts /\ e \in Items /\ kept \in Kept /\ e.session = s /\ e.context = context /\ kept.context = context
  <2>1. Dialogue!TopicOf(turn[t]) \in Topics \cup {Unclear}
    BY <1>1 DEF Dialogue!TopicOf, Heard, Contexts
  <2> QED BY <1>1, <2>1 DEF Contexts, Items, Kept, Heard
<1>3. /\ InOrder(live, recent, stored)
      /\ \A i \in DOMAIN items : now <= items[i].context.updated + TTL => \E k \in DOMAIN live : live[k] = items[i]
  BY <1>1, UnexpiredHolds DEF DialogueInv
<1>4. /\ items' = Dialogue!Newest(all, MaxSessions) /\ Dialogue!Use(s) /\ stored' = [stored EXCEPT ![s] = kept]
      /\ Dialogue!Finish(t) /\ UNCHANGED now
  BY DEF Dialogue!Remember, Renewed
<1> HIDE DEF live, context, s, kept, all
<1>5. /\ DOMAIN stored' = Sessions /\ stored'[s] = kept /\ \A r \in Sessions : r # s => stored'[r] = stored[r]
      /\ \A r \in Sessions : stored'[r] # Nothing => stored'[r] \in Kept
  BY <1>1, <1>2, <1>4 DEF DialogueInv
<1> HIDE DEF e
<1>6. /\ InOrder(all, recent', stored') /\ all[Len(all)] = e /\ Len(all) \in Nat \ {0}
      /\ \A i \in DOMAIN live : live[i].session # s => \E k \in DOMAIN all : all[k] = live[i]
  <2>1. Dialogue!Use(e.session) /\ e.context = stored'[e.session].context
    BY <1>2, <1>4, <1>5
  <2>2. \A r \in Sessions : r # e.session => stored'[r] = stored[r]
    BY <1>2, <1>5
  <2>3. HasRenewed(live, e, Renewed(live, e), recent', stored')
    BY <1>1, <1>2, <1>3, <2>1, <2>2, RenewedInOrder
  <2> QED BY <1>2, <2>3 DEF HasRenewed, all
<1>7. recent' \in Seq(Sessions) /\ MaxSessions \in Nat \ {0}
  BY <1>1, <1>4, UsedLast DEF DialogueAssumption
<1>8. /\ InOrder(items', recent', stored') /\ \E k \in DOMAIN items' : items'[k] = e
      /\ \A p \in DOMAIN all : Cardinality(After(recent', all[p].session)) < MaxSessions =>
            \E k \in DOMAIN items' : items'[k] = all[p]
  BY <1>4, <1>6, <1>7, NewestKeeps
<1>9. ASSUME NEW r \in Sessions, stored'[r] # Nothing, now <= stored'[r].context.updated + TTL,
             Cardinality(After(recent', r)) < MaxSessions
      PROVE  \E k \in DOMAIN items' : items'[k].session = r
  <2>1. CASE r = s
    BY <1>2, <1>8, <2>1
  <2>2. CASE r # s
    <3>1. stored'[r] = stored[r] /\ stored[r] \in Kept
      BY <1>5, <1>9, <2>2
    <3>2. Cardinality(After(recent, r)) < MaxSessions
      BY <1>1, <1>4, <1>7, <1>9, <2>2, FitsBefore
    <3>3. PICK i \in DOMAIN items : items[i].session = r
      BY <1>9, <3>1, <3>2 DEF DialogueInv, Complete
    <3>4. items[i].context = stored[r].context
      BY <3>3 DEF DialogueInv, InOrder
    <3>5. PICK k \in DOMAIN live : live[k] = items[i]
      BY <1>3, <1>9, <3>1, <3>4
    <3>6. PICK p \in DOMAIN all : all[p] = items[i]
      BY <1>6, <2>2, <3>3, <3>5
    <3> QED BY <1>8, <1>9, <3>3, <3>6
  <2> QED BY <2>1, <2>2
<1>10. Complete(items', now', recent', stored')
  BY <1>4, <1>9 DEF Complete
<1>11. DOMAIN turn' = Turns /\ turn'[t] = Nothing /\ (\A u \in Turns : u # t => turn'[u] = turn[u]) /\ Dialogue!Goto(t, "idle")
  BY <1>4 DEF Dialogue!Finish, DialogueInv
<1>12. TurnHolds(t)'
  BY <1>11 DEF TurnHolds, Dialogue!Goto, DialogueInv
<1>13. DOMAIN pc' = Turns /\ \A u \in Turns : TurnHolds(u)'
  BY <1>4, <1>11, <1>12, OneTurn
<1> QED BY <1>1, <1>4, <1>5, <1>7, <1>8, <1>10, <1>11, <1>13 DEF DialogueInv

LEMMA DialogueStepHolds ==
  ASSUME DialogueAssumption, DialogueInv, [Dialogue!Next]_(Dialogue!vars)
  PROVE  DialogueInv'
<1>1. ASSUME NEW t \in Turns, NEW stage, stage # "idle", pc[t] # "idle",
             Dialogue!Goto(t, stage), UNCHANGED <<now, items, turn, recent, stored>>
      PROVE  DialogueInv'
  <2>1. TurnHolds(t)'
    BY <1>1 DEF TurnHolds, Dialogue!Goto, DialogueInv
  <2>2. DOMAIN pc' = Turns /\ \A u \in Turns : TurnHolds(u)'
    BY <1>1, <2>1, OneTurn DEF DialogueInv
  <2> QED BY <1>1, <2>2 DEF DialogueInv
<1>2. ASSUME NEW t \in Turns, NEW s \in Sessions, Dialogue!Hear(t, s) PROVE DialogueInv'
  <2>1. PICK u \in Dialogue!Utterances :
           u.session = s /\ turn' = [turn EXCEPT ![t] = [session |-> s, question |-> u.question, heard |-> now, prior |-> Nothing]]
    BY <1>2 DEF Dialogue!Hear
  <2>2. UNCHANGED <<now, items, recent, stored>> /\ Dialogue!Goto(t, "get")
    BY <1>2 DEF Dialogue!Hear
  <2>3. DOMAIN turn' = Turns /\ (\A v \in Turns : v # t => turn'[v] = turn[v])
        /\ turn'[t] = [session |-> s, question |-> u.question, heard |-> now, prior |-> Nothing]
    BY <2>1 DEF DialogueInv
  <2>4. now \in Nat /\ u.question \in Topics \cup {FollowUp}
    BY <2>1 DEF DialogueInv, Dialogue!Utterances
  <2>5. TurnHolds(t)'
    <3>1. turn'[t] \in Heard /\ turn'[t].heard = now' /\ turn'[t].prior = Nothing /\ now' \in Nat
      BY <2>2, <2>3, <2>4 DEF Heard
    <3>2. pc'[t] # "idle"
      BY <2>2 DEF Dialogue!Goto, DialogueInv
    <3> QED BY <3>1, <3>2 DEF TurnHolds
  <2>6. DOMAIN pc' = Turns /\ \A v \in Turns : TurnHolds(v)'
    BY <2>2, <2>3, <2>5, OneTurn
  <2> QED BY <2>2, <2>3, <2>6 DEF DialogueInv
<1>3. ASSUME NEW t \in Turns, Dialogue!Forget(t) PROVE DialogueInv'
  <2>1. UNCHANGED <<now, items, recent, stored>> /\ Dialogue!Goto(t, "idle") /\ turn' = [turn EXCEPT ![t] = Nothing]
    BY <1>3 DEF Dialogue!Forget, Dialogue!Finish
  <2>2. DOMAIN turn' = Turns /\ turn'[t] = Nothing /\ \A u \in Turns : u # t => turn'[u] = turn[u]
    BY <2>1 DEF DialogueInv
  <2>3. TurnHolds(t)'
    BY <2>1, <2>2 DEF TurnHolds, Dialogue!Goto, DialogueInv
  <2>4. DOMAIN pc' = Turns /\ \A u \in Turns : TurnHolds(u)'
    BY <2>1, <2>2, <2>3, OneTurn
  <2> QED BY <2>1, <2>2, <2>4 DEF DialogueInv
<1>4. CASE Dialogue!Tick
  <2>1. now' = now + 1 /\ UNCHANGED <<items, pc, turn, recent, stored>> /\ now \in Nat
    BY <1>4 DEF Dialogue!Tick, DialogueInv
  <2>2. Complete(items', now', recent', stored')
    <3>1. \A s \in Sessions : stored[s] # Nothing => stored[s].context.updated \in Nat
      BY DEF DialogueInv, Kept, Contexts
    <3> QED BY <2>1, <3>1 DEF DialogueInv, Complete, DialogueAssumption
  <2>3. \A t \in Turns : TurnHolds(t)'
    BY <2>1 DEF DialogueInv, TurnHolds, Heard
  <2> QED BY <2>1, <2>2, <2>3 DEF DialogueInv
<1>5. CASE UNCHANGED Dialogue!vars
  BY <1>5 DEF Dialogue!vars, DialogueInv, TurnHolds
<1>6. ASSUME NEW t \in Turns, Dialogue!Answer(t) PROVE DialogueInv'
  BY <1>1, <1>6 DEF Dialogue!Answer
<1> QED BY <1>2, <1>3, <1>4, <1>5, <1>6, GetHolds, RememberHolds DEF Dialogue!Next

\* No interleaving of turns, expiry and eviction makes the store forget a session
\* it has room for, or give it the context of another: for any number of sessions
\* and turns, any capacity and any lifetime of a context (DialogueStateStore).
THEOREM ContextsKept == ASSUME DialogueAssumption PROVE ServicesSpec => []RecentIsKept
<1> DEFINE Inv == focus = "dialogue" => DialogueInv
<1>1. ServicesInit => Inv
  BY ServicesStarts, DialogueInitHolds
<1>2. Inv /\ [ServicesNext]_allVars => Inv'
  BY ServicesSteps, DialogueStepHolds
<1>3. DialogueInv => Dialogue!RecentIsKept
  <2> SUFFICES ASSUME DialogueInv, NEW s \in Sessions, stored[s] # Nothing, now <= stored[s].context.updated + TTL,
                      Dialogue!Fits(s)
               PROVE  [session |-> s, context |-> stored[s].context] \in {items[i] : i \in DOMAIN items}
    BY DEF Dialogue!RecentIsKept
  <2>1. Dialogue!Later(s) = After(recent, s)
    BY DEF Dialogue!Later, After, Before
  <2>2. Cardinality(After(recent, s)) < MaxSessions
    BY <2>1, SameCountOfSessions DEF Dialogue!Fits
  <2>3. PICK i \in DOMAIN items : items[i].session = s
    BY <2>2 DEF DialogueInv, Complete
  <2>4. items[i] \in Items /\ items[i].context = stored[s].context
    BY <2>3 DEF DialogueInv, InOrder
  <2>5. items[i] = [session |-> s, context |-> stored[s].context]
    BY <2>3, <2>4 DEF Items
  <2> QED BY <2>5
<1>4. Inv => RecentIsKept
  BY <1>3 DEF RecentIsKept
<1> QED BY <1>1, <1>2, <1>4, PTL DEF ServicesSpec

\* A follow-up never takes over a context older than its lifetime, counted to the
\* moment it was asked (DialogueStateStore.get).
THEOREM FollowUpsFresh == ASSUME DialogueAssumption PROVE ServicesSpec => []FollowUpIsFresh
<1> DEFINE Inv == focus = "dialogue" => DialogueInv
<1>1. ServicesInit => Inv
  BY ServicesStarts, DialogueInitHolds
<1>2. Inv /\ [ServicesNext]_allVars => Inv'
  BY ServicesSteps, DialogueStepHolds
<1>3. Inv => FollowUpIsFresh
  BY DEF DialogueInv, TurnHolds, FollowUpIsFresh, Dialogue!FollowUpIsFresh
<1> QED BY <1>1, <1>2, <1>3, PTL DEF ServicesSpec

----------------------------------------------------------------------------
(* PreventionReports: what is answered without the provider.               *)

ReportsInv == ask \in Asks /\ reply \in {Reports!Unanswered, Reports!Answer(ask)}

LEMMA ReportsStepHolds ==
  /\ Reports!Init => ReportsInv
  /\ ReportsInv /\ [Reports!Next]_(Reports!vars) => ReportsInv'
<1>1. Reports!Init => ReportsInv
  BY DEF Reports!Init, ReportsInv
<1>2. ASSUME ReportsInv, [Reports!Next]_(Reports!vars) PROVE ReportsInv'
  <2>1. ask' = ask /\ reply' \in {reply, Reports!Answer(ask)}
    BY <1>2 DEF Reports!Next, Reports!vars
  <2>2. ASSUME NEW a, ask = a PROVE Reports!Answer(ask)' = Reports!Answer(a)
    BY <2>1, <2>2
  <2> QED BY <1>2, <2>1, <2>2 DEF ReportsInv
<1> QED BY <1>1, <1>2

\* Points are whole values at times; no two of a series for drift share theirs.
Point == [value : Int, time : Int]
TimesApart(points) == \A i, j \in 1..Len(points) : points[i].time = points[j].time => i = j
DriftFields == {"op", "metric", "asset", "periods", "result", "raised", "points"}
PreventionAssumption ==
    /\ LocalPoints \in Nat
    /\ \A a \in Asks :
          /\ a.op = "detect" => a.points \in Seq(Point) /\ {"raised", "points"} \subseteq DOMAIN a
          /\ a.op = "drift" => a.points \in Seq(Point) /\ TimesApart(a.points) /\ DriftFields \subseteq DOMAIN a

LEMMA TotalIsSum == ASSUME NEW s PROVE Reports!Total(s) = SumOver(s, DOMAIN s)
BY DEF Reports!Total, Reports!MapThenSumSet, Reports!MapThenFoldSet, SumOver, SumBody

LEMMA TotalNumber ==
  ASSUME NEW n \in Nat, NEW s, DOMAIN s = 1..n, \A i \in 1..n : s[i] \in Int
  PROVE  Reports!Total(s) \in Int
<1> DEFINE D == 1..n
<1>1. IsFiniteSet(D) /\ DOMAIN s = D /\ \A i \in D : s[i] \in Int
  BY FS_Interval
<1> HIDE DEF D
<1>2. SumOver(s, D) \in Int
  BY <1>1, SumType
<1> QED BY <1>1, <1>2, TotalIsSum

LEMMA TotalNegated ==
  ASSUME NEW n \in Nat, NEW s, NEW t, DOMAIN s = 1..n, DOMAIN t = 1..n, \A i \in 1..n : s[i] \in Int /\ t[i] = -s[i]
  PROVE  Reports!Total(t) = -Reports!Total(s)
<1> DEFINE D == 1..n
<1>1. IsFiniteSet(D) /\ DOMAIN s = D /\ DOMAIN t = D /\ \A i \in D : s[i] \in Int /\ t[i] = -s[i]
  BY FS_Interval
<1> HIDE DEF D
<1>2. SumOver(t, D) = -SumOver(s, D)
  BY <1>1, SumNegated
<1> QED BY <1>1, <1>2, TotalIsSum

\* A list of n numbers.
Numbers(n, s) == n \in Nat /\ s = [i \in 1..n |-> s[i]] /\ \A i \in 1..n : s[i] \in Int

LEMMA NumbersAre == ASSUME NEW n, NEW s, Numbers(n, s) PROVE n \in Nat /\ DOMAIN s = 1..n /\ Len(s) = n
<1>1. n \in Nat /\ s = [i \in 1..n |-> s[i]] /\ \A i \in 1..n : s[i] \in Int
  BY DEF Numbers
<1>2. s \in Seq(Int) /\ DOMAIN s = 1..n
  BY <1>1
<1> QED BY <1>1, <1>2

LEMMA Products ==
  /\ \A a, b \in Int : a * b \in Int /\ a * (-b) = -(a * b) /\ (-a) * (-b) = a * b
  /\ \A a, b, c \in Int : a * (-b) - c * (-b) = -(a * b - c * b)
OBVIOUS

LEMMA SpreadNumber ==
  ASSUME NEW n, NEW s, NEW t, Numbers(n, s), Numbers(n, t)
  PROVE  Reports!Spread(s, t) \in Int
<1> DEFINE st == [i \in DOMAIN s |-> s[i] * t[i]]
<1>1. n \in Nat /\ DOMAIN s = 1..n /\ DOMAIN t = 1..n /\ Len(s) = n /\ \A i \in 1..n : s[i] \in Int /\ t[i] \in Int
  BY NumbersAre DEF Numbers
<1>2. DOMAIN st = 1..n /\ \A i \in 1..n : st[i] \in Int
  BY <1>1
<1> HIDE DEF st
<1>3. Reports!Total(st) \in Int /\ Reports!Total(s) \in Int /\ Reports!Total(t) \in Int
  BY <1>1, <1>2, TotalNumber
<1>4. Reports!Spread(s, t) = n * Reports!Total(st) - Reports!Total(s) * Reports!Total(t)
  BY <1>1 DEF Reports!Spread, st
<1> QED BY <1>1, <1>3, <1>4

\* A spread turns round with the sign of the values on one side.
LEMMA SpreadNegated ==
  ASSUME NEW n, NEW s, NEW t, NEW u, Numbers(n, s), Numbers(n, t), Numbers(n, u), \A i \in 1..n : u[i] = -t[i]
  PROVE  Reports!Spread(s, u) = -Reports!Spread(s, t) /\ Reports!Spread(u, u) = Reports!Spread(t, t)
<1> DEFINE st == [i \in DOMAIN s |-> s[i] * t[i]]
           su == [i \in DOMAIN s |-> s[i] * u[i]]
           tt == [i \in DOMAIN t |-> t[i] * t[i]]
           uu == [i \in DOMAIN u |-> u[i] * u[i]]
<1>1. /\ n \in Nat /\ DOMAIN s = 1..n /\ DOMAIN t = 1..n /\ DOMAIN u = 1..n /\ Len(s) = n /\ Len(t) = n /\ Len(u) = n
      /\ \A i \in 1..n : s[i] \in Int /\ t[i] \in Int /\ u[i] = -t[i]
  BY NumbersAre DEF Numbers
<1>2. DOMAIN st = 1..n /\ DOMAIN su = 1..n /\ \A i \in 1..n : st[i] \in Int /\ su[i] = -st[i]
  <2>1. ASSUME NEW i \in 1..n PROVE s[i] * t[i] \in Int /\ s[i] * u[i] = -(s[i] * t[i])
    BY <1>1, Products
  <2> QED BY <1>1, <2>1
<1>3. uu = tt /\ DOMAIN tt = 1..n /\ \A i \in 1..n : tt[i] \in Int
  <2>1. ASSUME NEW i \in 1..n PROVE t[i] * t[i] \in Int /\ u[i] * u[i] = t[i] * t[i]
    BY <1>1, Products
  <2> QED BY <1>1, <2>1
<1>4. /\ Reports!Spread(s, t) = n * Reports!Total(st) - Reports!Total(s) * Reports!Total(t)
      /\ Reports!Spread(s, u) = n * Reports!Total(su) - Reports!Total(s) * Reports!Total(u)
      /\ Reports!Spread(t, t) = n * Reports!Total(tt) - Reports!Total(t) * Reports!Total(t)
      /\ Reports!Spread(u, u) = n * Reports!Total(uu) - Reports!Total(u) * Reports!Total(u)
  BY <1>1 DEF Reports!Spread
<1> HIDE DEF st, su, tt, uu
<1>5. Reports!Total(su) = -Reports!Total(st) /\ Reports!Total(u) = -Reports!Total(t)
  BY <1>1, <1>2, TotalNegated
<1>6. /\ Reports!Total(st) \in Int /\ Reports!Total(s) \in Int /\ Reports!Total(t) \in Int /\ Reports!Total(tt) \in Int
  BY <1>1, <1>2, <1>3, TotalNumber
<1>7. ASSUME NEW a \in Int, NEW b \in Int, NEW c \in Int, NEW d \in Int, NEW e \in Int
      PROVE  e * (-a) - b * (-c) = -(e * a - b * c) /\ e * d - (-c) * (-c) = e * d - c * c
  OBVIOUS
<1>8. n \in Int
  BY <1>1
<1> QED BY <1>3, <1>4, <1>5, <1>6, <1>7, <1>8

\* A drift of a sorted series whose values are the others' negatives.
LEMMA DriftTurns ==
  ASSUME NEW n \in Nat, NEW p \in Seq(Point), NEW q \in Seq(Point), Len(p) = n, Len(q) = n,
         \A i \in 1..n : q[i].value = -p[i].value, NEW metric
  PROVE  LET d == Reports!LinearDrift(metric, p) e == Reports!LinearDrift(metric, q) IN
         /\ d.direction \in {"improving", "degrading", "stable"}
         /\ d.drift <=> d.direction # "stable"
         /\ e.direction = Reports!Opposite[d.direction]
<1> DEFINE xs == [i \in DOMAIN p |-> i]
           ys == [i \in DOMAIN p |-> p[i].value]
           zs == [i \in DOMAIN q |-> q[i].value]
           sxx == Reports!Spread(xs, xs)
           sxy == Reports!Spread(xs, ys)
           syy == Reports!Spread(ys, ys)
<1>1. DOMAIN p = 1..n /\ DOMAIN q = 1..n /\ \A i \in 1..n : p[i].value \in Int
  <2>1. \A i \in 1..n : p[i] \in Point
    OBVIOUS
  <2> QED BY <2>1 DEF Point
<1>2. Numbers(n, xs) /\ Numbers(n, ys) /\ Numbers(n, zs) /\ \A i \in 1..n : zs[i] = -ys[i]
  BY <1>1 DEF Numbers
<1>3. Reports!Fit(xs, p).sxx = sxx /\ Reports!Fit(xs, p).sxy = sxy /\ Reports!Fit(xs, p).syy = syy
  BY DEF Reports!Fit
<1>4. Reports!Fit(xs, q).sxx = sxx /\ Reports!Fit(xs, q).sxy = Reports!Spread(xs, zs) /\ Reports!Fit(xs, q).syy = Reports!Spread(zs, zs)
  BY DEF Reports!Fit
<1> HIDE DEF xs, ys, zs
<1>5. Reports!Spread(xs, zs) = -sxy /\ Reports!Spread(zs, zs) = syy
  BY <1>2, SpreadNegated
<1>6. sxx \in Int /\ sxy \in Int /\ syy \in Int
  BY <1>2, SpreadNumber
<1> HIDE DEF sxx, sxy, syy
<1> DEFINE drift == sxx # 0 /\ sxy # 0 /\ 10 * sxy * sxy > sxx * syy
<1>7. /\ Reports!LinearDrift(metric, p).drift = drift
      /\ Reports!LinearDrift(metric, p).direction = IF drift THEN Reports!NormalizeDriftDirection(metric, "", sxy) ELSE "stable"
  BY <1>3 DEF Reports!LinearDrift, xs
<1>8. Reports!LinearDrift(metric, q).direction = IF drift THEN Reports!NormalizeDriftDirection(metric, "", -sxy) ELSE "stable"
  <2>1. [i \in DOMAIN q |-> i] = xs
    BY <1>1 DEF xs
  <2>2. 10 * (-sxy) * (-sxy) = 10 * sxy * sxy /\ (-sxy # 0 <=> sxy # 0)
    BY <1>6
  <2> DEFINE turned == sxx # 0 /\ -sxy # 0 /\ 10 * (-sxy) * (-sxy) > sxx * syy
  <2>3. Reports!LinearDrift(metric, q).direction = IF turned THEN Reports!NormalizeDriftDirection(metric, "", -sxy) ELSE "stable"
    BY <1>4, <1>5, <2>1 DEF Reports!LinearDrift
  <2> QED BY <2>2, <2>3
<1>9. sxy # 0 => /\ Reports!NormalizeDriftDirection(metric, "", sxy) \in {"improving", "degrading"}
                 /\ Reports!NormalizeDriftDirection(metric, "", -sxy)
                       = Reports!Opposite[Reports!NormalizeDriftDirection(metric, "", sxy)]
  BY <1>6 DEF Reports!NormalizeDriftDirection, Reports!Opposite
<1>10. drift => sxy # 0
  OBVIOUS
<1> HIDE DEF drift
<1>11. CASE drift
  BY <1>7, <1>8, <1>9, <1>10, <1>11
<1>12. CASE ~drift
  BY <1>7, <1>8, <1>12 DEF Reports!Opposite
<1> QED BY <1>11, <1>12

LEMMA ListOf ==
  ASSUME NEW n \in Nat, NEW S, NEW f, f = [i \in 1..n |-> f[i]], \A i \in 1..n : f[i] \in S
  PROVE  f \in Seq(S) /\ Len(f) = n /\ DOMAIN f = 1..n
OBVIOUS

\* The series in the order of its times.
TimeKeys(points) == [i \in 1..Len(points) |-> points[i].time]

LEMMA ByTimeIs ==
  ASSUME NEW points \in Seq(Point)
  PROVE  /\ Reports!ByTime(points) = Arranged(points, ByKey(Len(points), TimeKeys(points)))
         /\ DOMAIN points = 1..Len(points) /\ Len(points) \in Nat
         /\ \A i \in 1..Len(points) : points[i] \in Point /\ TimeKeys(points)[i] \in Int
         /\ StrictOrder(1..Len(points), ByKey(Len(points), TimeKeys(points)))
<1> DEFINE n == Len(points)
           D == 1..n
           k == TimeKeys(points)
<1>1. DOMAIN points = D /\ n \in Nat
  OBVIOUS
<1>2. ASSUME NEW i \in D PROVE points[i] \in Point /\ k[i] \in Int /\ k[i] = points[i].time
  <2>1. points[i] \in Point
    OBVIOUS
  <2> QED BY <2>1 DEF Point, TimeKeys
<1>3. {p \in D \X D : points[p[1]].time < points[p[2]].time \/ (~(points[p[2]].time < points[p[1]].time) /\ p[1] < p[2])}
        = ByKey(n, k)
  BY <1>2 DEF ByKey
<1>4. Reports!ByTime(points) = Reports!Arranged(points, ByKey(n, k))
  BY <1>1, <1>3 DEF Reports!ByTime, Reports!Sorted
<1>5. Reports!ByTime(points) = Arranged(points, ByKey(n, k))
  <2> HIDE DEF k
  <2> QED BY <1>4 DEF Reports!Arranged, Arranged, Cardinality, Reports!Cardinality
<1>6. StrictOrder(1..n, ByKey(n, k))
  <2>1. \A i \in 1..n : k[i] \in Int
    BY <1>2
  <2> HIDE DEF k, n
  <2> QED BY <1>1, <2>1, KeysOrder
<1> QED BY <1>1, <1>2, <1>5, <1>6

\* The same whichever end the points began at.
LEMMA SortedReversed ==
  ASSUME NEW points \in Seq(Point), TimesApart(points)
  PROVE  Reports!ByTime(Reports!Reverse(points)) = Reports!ByTime(points)
<1> DEFINE n == Len(points)
           rev == Reports!Reverse(points)
<1>1. n \in Nat /\ \A i \in 1..n : n + 1 - i \in 1..n /\ n + 1 - (n + 1 - i) = i /\ points[i] \in Point
  OBVIOUS
<1>2. rev = [i \in 1..n |-> points[(n - i) + 1]] /\ \A i \in 1..n : (n - i) + 1 = n + 1 - i
  BY <1>1 DEF Reports!Reverse
<1> HIDE DEF rev
<1>3. rev \in Seq(Point) /\ Len(rev) = n
  BY <1>1, <1>2
<1>4. \A i \in 1..n : rev[n + 1 - i] = points[i] /\ TimeKeys(rev)[n + 1 - i] = TimeKeys(points)[i]
  BY <1>1, <1>2, <1>3 DEF TimeKeys
<1>5. \A i, j \in 1..n : TimeKeys(points)[i] = TimeKeys(points)[j] => i = j
  BY DEF TimeKeys, TimesApart
<1>6. DOMAIN rev = 1..n /\ DOMAIN points = 1..n /\ \A i \in 1..n : TimeKeys(points)[i] \in Int
  BY <1>2, ByTimeIs
<1>7. Reversed(n, points, TimeKeys(points), rev, TimeKeys(rev))
  BY <1>1, <1>4, <1>5, <1>6 DEF Reversed
<1>8. Arranged(rev, ByKey(n, TimeKeys(rev))) = Arranged(points, ByKey(n, TimeKeys(points)))
  BY <1>7, ArrangedReversed
<1>9. Reports!ByTime(rev) = Arranged(rev, ByKey(n, TimeKeys(rev)))
  BY <1>3, ByTimeIs
<1>10. Reports!ByTime(points) = Arranged(points, ByKey(n, TimeKeys(points)))
  BY ByTimeIs
<1> QED BY <1>8, <1>9, <1>10 DEF rev

\* Sorting leaves as many points, and goes by their times, not their values.
LEMMA SortedTurned ==
  ASSUME NEW points \in Seq(Point)
  PROVE  LET p == Reports!ByTime(points) q == Reports!ByTime(Reports!Reflected(points)) IN
         /\ p \in Seq(Point) /\ q \in Seq(Point) /\ Len(p) = Len(points) /\ Len(q) = Len(points) /\ Len(points) \in Nat
         /\ \A i \in 1..Len(points) : q[i].value = -p[i].value
<1> DEFINE n == Len(points)
           turned == Reports!Reflected(points)
           before == ByKey(n, TimeKeys(points))
           p == Reports!ByTime(points)
           q == Reports!ByTime(turned)
<1>1. n \in Nat /\ DOMAIN points = 1..n /\ \A i \in 1..n : points[i] \in Point
  OBVIOUS
<1>2. turned = [i \in 1..n |-> [points[i] EXCEPT !.value = -points[i].value]]
  BY DEF Reports!Reflected
<1>3. ASSUME NEW i \in 1..n
      PROVE  turned[i] \in Point /\ turned[i].value = -points[i].value /\ turned[i].time = points[i].time
  BY <1>1, <1>2 DEF Point
<1> HIDE DEF turned
<1>4. turned \in Seq(Point) /\ Len(turned) = n /\ DOMAIN turned = 1..n
  <2>1. turned = [i \in 1..n |-> turned[i]]
    BY <1>2
  <2> QED BY <1>1, <1>3, <2>1, ListOf
<1>5. TimeKeys(turned) = TimeKeys(points)
  BY <1>3, <1>4 DEF TimeKeys
<1>6. p = Arranged(points, before) /\ StrictOrder(1..n, before)
  BY ByTimeIs
<1>7. q = Arranged(turned, before)
  BY <1>4, <1>5, ByTimeIs
<1> HIDE DEF before, p, q, n
<1>8. /\ DOMAIN p = 1..n /\ DOMAIN q = 1..n
      /\ \A k \in 1..n : \E i \in 1..n : p[k] = points[i] /\ q[k] = turned[i]
  <2>1. Alike(n, points, turned, before)
    BY <1>1, <1>4, <1>6 DEF Alike
  <2> QED BY <1>6, <1>7, <2>1, ArrangedAlike
<1>9. \A k \in 1..n : p[k] \in Point /\ q[k] \in Point /\ q[k].value = -p[k].value
  BY <1>1, <1>3, <1>8
<1>10. p = [k \in 1..n |-> p[k]] /\ q = [k \in 1..n |-> q[k]]
  BY <1>6, <1>7, <1>8 DEF Arranged
<1>11. p \in Seq(Point) /\ q \in Seq(Point) /\ Len(p) = n /\ Len(q) = n
  BY <1>1, <1>9, <1>10, ListOf
<1> QED BY <1>1, <1>9, <1>11 DEF p, q, n, turned

\* The sense of the metric turns a drift round, and does not find it.
LEMMA MetricTurns ==
  ASSUME NEW m, NEW other, m \in Reports!HigherIsBetter <=> other \notin Reports!HigherIsBetter, NEW points
  PROVE  Reports!LinearDrift(other, points).direction = Reports!Opposite[Reports!LinearDrift(m, points).direction]
<1> DEFINE fit == Reports!Fit([i \in DOMAIN points |-> i], points)
           drift == fit.sxx # 0 /\ fit.sxy # 0 /\ 10 * fit.sxy * fit.sxy > fit.sxx * fit.syy
<1>1. \A x : Reports!LinearDrift(x, points).direction = IF drift THEN Reports!NormalizeDriftDirection(x, "", fit.sxy) ELSE "stable"
  BY DEF Reports!LinearDrift
<1>2. drift => fit.sxy # 0
  OBVIOUS
<1> HIDE DEF drift, fit
<1>3. fit.sxy # 0 => Reports!NormalizeDriftDirection(other, "", fit.sxy)
                        = Reports!Opposite[Reports!NormalizeDriftDirection(m, "", fit.sxy)]
  BY DEF Reports!NormalizeDriftDirection, Reports!Opposite
<1>4. CASE drift
  BY <1>1, <1>2, <1>3, <1>4
<1>5. CASE ~drift
  <2>1. Reports!LinearDrift(other, points).direction = "stable" /\ Reports!LinearDrift(m, points).direction = "stable"
    BY <1>1, <1>5
  <2> QED BY <2>1 DEF Reports!Opposite
<1> QED BY <1>4, <1>5

LEMMA LocalDriftSound == ASSUME PreventionAssumption, ReportsInv PROVE Reports!LocalDriftIsSound
<1> DEFINE other == IF ask.metric \in Reports!HigherIsBetter THEN "energy_total" ELSE "oee"
           alone == Reports!Unreached(ask)
           back == [alone EXCEPT !.points = Reports!Reverse(@)]
           turned == [alone EXCEPT !.points = Reports!Reflected(@)]
           measured == [alone EXCEPT !.metric = other]
<1> SUFFICES ASSUME ask \in Asks, reply # Reports!Unanswered, ask.op = "drift",
                    Reports!Failed(ask) \/ Reports!Relevant(ask) = {}
             PROVE  /\ reply.drift <=> reply.direction # "stable"
                    /\ Reports!CheckDrift(back) = reply
                    /\ Reports!CheckDrift(turned).direction = Reports!Opposite[reply.direction]
                    /\ Reports!CheckDrift(measured).direction = Reports!Opposite[reply.direction]
  BY DEF Reports!LocalDriftIsSound
<1>1. ask.points \in Seq(Point) /\ TimesApart(ask.points) /\ DriftFields \subseteq DOMAIN ask /\ LocalPoints \in Nat
  BY DEF PreventionAssumption
<1>2. /\ back.raised = "unreachable" /\ back.metric = ask.metric /\ back.points = Reports!Reverse(ask.points)
      /\ turned.raised = "unreachable" /\ turned.metric = ask.metric /\ turned.points = Reports!Reflected(ask.points)
      /\ measured.raised = "unreachable" /\ measured.metric = other /\ measured.points = ask.points
  BY <1>1 DEF DriftFields, Reports!Unreached
<1> HIDE DEF back, turned, measured
<1>3. ASSUME NEW a, a.raised = "unreachable" PROVE Reports!CheckDrift(a) = Reports!LocalDrift(a)
  BY <1>3 DEF Reports!CheckDrift, Reports!Failed, Reports!ConnectionErrors
<1>4. reply = Reports!CheckDrift(ask)
  BY DEF ReportsInv, Reports!Answer
<1>5. reply = Reports!LocalDrift(ask)
  BY <1>4 DEF Reports!CheckDrift
<1> DEFINE sorted == Reports!ByTime(ask.points)
           mirror == Reports!ByTime(Reports!Reflected(ask.points))
           few == Len(ask.points) < LocalPoints
           none == [ok |-> TRUE, drift |-> FALSE, direction |-> "stable", analyzed |-> 0]
<1>6. reply = IF few THEN none ELSE Reports!LinearDrift(ask.metric, sorted)
  BY <1>5 DEF Reports!LocalDrift
<1>7. Reports!CheckDrift(back) = IF few THEN none ELSE Reports!LinearDrift(ask.metric, sorted)
  <2>1. Len(Reports!Reverse(ask.points)) = Len(ask.points)
    BY <1>1 DEF Reports!Reverse
  <2>2. Reports!ByTime(back.points) = sorted
    BY <1>1, <1>2, SortedReversed
  <2> QED BY <1>2, <1>3, <2>1, <2>2 DEF Reports!LocalDrift
<1>8. Reports!CheckDrift(turned) = IF few THEN none ELSE Reports!LinearDrift(ask.metric, mirror)
  <2>1. Len(Reports!Reflected(ask.points)) = Len(ask.points)
    BY <1>1 DEF Reports!Reflected
  <2> QED BY <1>2, <1>3, <2>1 DEF Reports!LocalDrift
<1>9. Reports!CheckDrift(measured) = IF few THEN none ELSE Reports!LinearDrift(other, sorted)
  BY <1>2, <1>3 DEF Reports!LocalDrift
<1>10. CASE few
  BY <1>6, <1>7, <1>8, <1>9, <1>10 DEF Reports!Opposite
<1>11. CASE ~few
  <2>1. /\ sorted \in Seq(Point) /\ mirror \in Seq(Point) /\ Len(sorted) = Len(ask.points) /\ Len(mirror) = Len(ask.points)
        /\ Len(ask.points) \in Nat /\ \A i \in 1..Len(ask.points) : mirror[i].value = -sorted[i].value
    BY <1>1, SortedTurned
  <2>2. ask.metric \in Reports!HigherIsBetter <=> other \notin Reports!HigherIsBetter
    BY DEF Reports!HigherIsBetter
  <2> HIDE DEF sorted, mirror, other, few
  <2>3. /\ Reports!LinearDrift(ask.metric, sorted).drift <=> Reports!LinearDrift(ask.metric, sorted).direction # "stable"
        /\ Reports!LinearDrift(ask.metric, mirror).direction = Reports!Opposite[Reports!LinearDrift(ask.metric, sorted).direction]
    BY <2>1, DriftTurns
  <2>4. Reports!LinearDrift(other, sorted).direction = Reports!Opposite[Reports!LinearDrift(ask.metric, sorted).direction]
    BY <2>2, MetricTurns
  <2> QED BY <1>6, <1>7, <1>8, <1>9, <1>11, <2>3, <2>4
<1> QED BY <1>10, <1>11

\* The deviation of the last point is measured against the mean of those before it,
\* and its size and theirs are those of the mirrored series.
LEMMA AnomalyMirrored ==
  ASSUME NEW a, a.points \in Seq(Point), NEW b, b.points = Reports!Reflected(a.points), b.threshold = a.threshold
  PROVE  /\ Reports!LocalAnomaly(b).anomalous = Reports!LocalAnomaly(a).anomalous
         /\ Reports!LocalAnomaly(b).severity = Reports!LocalAnomaly(a).severity
<1> DEFINE n == Len(a.points) - 1
           before == [i \in 1..n |-> a.points[i].value]
           mirror == [i \in 1..n |-> b.points[i].value]
           last == a.points[n + 1].value
           off == n * last - Reports!Total(before)
           var == Reports!Spread(before, before)
           reaches(halves) == IF var = 0 THEN off # 0 /\ halves <= 2 * (a.threshold + 1)
                              ELSE 4 * off * off >= halves * halves * var
           opposite == n * b.points[n + 1].value - Reports!Total(mirror)
           reached(halves) == IF Reports!Spread(mirror, mirror) = 0 THEN opposite # 0 /\ halves <= 2 * (b.threshold + 1)
                              ELSE 4 * opposite * opposite >= halves * halves * Reports!Spread(mirror, mirror)
<1>1. Len(b.points) = Len(a.points) /\ Len(a.points) \in Nat
  BY DEF Reports!Reflected
<1>2. CASE Len(a.points) < 3
  BY <1>1, <1>2 DEF Reports!LocalAnomaly
<1>3. CASE ~(Len(a.points) < 3)
  <2>1. n \in Nat /\ n + 1 \in 1..Len(a.points)
    BY <1>1, <1>3
  <2>2. \A i \in 1..(n + 1) : a.points[i].value \in Int /\ b.points[i].value = -a.points[i].value
    <3>1. 1..(n + 1) = 1..Len(a.points)
      BY <1>1
    <3>2. \A i \in 1..Len(a.points) : a.points[i] \in Point /\ b.points[i] = [a.points[i] EXCEPT !.value = -a.points[i].value]
      BY DEF Reports!Reflected
    <3> HIDE DEF n
    <3> QED BY <3>1, <3>2 DEF Point
  <2> HIDE DEF n
  <2>3. Numbers(n, before) /\ Numbers(n, mirror) /\ \A i \in 1..n : mirror[i] = -before[i]
    BY <2>1, <2>2 DEF Numbers
  <2> HIDE DEF before, mirror
  <2>4. Reports!Total(mirror) = -Reports!Total(before) /\ Reports!Total(before) \in Int
    BY <2>3, TotalNegated, TotalNumber DEF Numbers
  <2>5. Reports!Spread(mirror, mirror) = var
    BY <2>3, SpreadNegated
  <2>6. opposite = -off /\ off \in Int
    BY <2>1, <2>2, <2>4
  <2> HIDE DEF off, opposite, var
  <2>7. 4 * opposite * opposite = 4 * off * off /\ (opposite # 0 <=> off # 0)
    <3>1. \A x \in Int : 4 * (-x) * (-x) = 4 * x * x /\ (-x # 0 <=> x # 0)
      OBVIOUS
    <3> QED BY <2>6, <3>1
  <2>8. \A halves : reached(halves) <=> reaches(halves)
    BY <2>5, <2>7
  <2>9. Reports!LocalAnomaly(a) =
          IF ~reaches(2 * a.threshold) THEN Reports!Normal
          ELSE [ok |-> TRUE, anomalous |-> TRUE, kind |-> IF off >= 0 THEN "spike" ELSE "dip",
                severity |-> Reports!Severity(Reports!Max({h \in 0..8 : reaches(h)}))]
    BY <1>3 DEF Reports!LocalAnomaly, off, var, before, n
  <2>10. Reports!LocalAnomaly(b) =
          IF ~reached(2 * b.threshold) THEN Reports!Normal
          ELSE [ok |-> TRUE, anomalous |-> TRUE, kind |-> IF opposite >= 0 THEN "spike" ELSE "dip",
                severity |-> Reports!Severity(Reports!Max({h \in 0..8 : reached(h)}))]
    BY <1>1, <1>3 DEF Reports!LocalAnomaly, opposite, mirror, n
  <2> HIDE DEF reaches, reached
  <2>11. {h \in 0..8 : reached(h)} = {h \in 0..8 : reaches(h)}
    BY <2>8
  <2>12. CASE reaches(2 * a.threshold)
    <3>1. reached(2 * b.threshold)
      BY <2>8, <2>12
    <3> DEFINE size == Reports!Severity(Reports!Max({h \in 0..8 : reaches(h)}))
    <3>2. size = Reports!Severity(Reports!Max({h \in 0..8 : reached(h)}))
      BY <2>11
    <3> HIDE DEF size
    <3>3. Reports!LocalAnomaly(a).anomalous /\ Reports!LocalAnomaly(a).severity = size
      BY <2>9, <2>12 DEF size
    <3>4. Reports!LocalAnomaly(b).anomalous /\ Reports!LocalAnomaly(b).severity = size
      BY <2>10, <3>1, <3>2
    <3>5. Reports!LocalAnomaly(a).anomalous = TRUE /\ Reports!LocalAnomaly(b).anomalous = TRUE
      BY <2>9, <2>10, <2>12, <3>1
    <3> QED BY <3>3, <3>4, <3>5
  <2>13. CASE ~reaches(2 * a.threshold)
    <3>1. ~reached(2 * b.threshold)
      BY <2>8, <2>13
    <3>2. Reports!LocalAnomaly(a) = Reports!Normal /\ Reports!LocalAnomaly(b) = Reports!Normal
      BY <2>9, <2>10, <2>13, <3>1
    <3> QED BY <3>2
  <2> QED BY <2>12, <2>13
<1> QED BY <1>2, <1>3

LEMMA LocalAnomalySound == ASSUME PreventionAssumption, ReportsInv PROVE Reports!LocalAnomalyIsSound
<1> DEFINE turned == [ask EXCEPT !.points = Reports!Reflected(@)]
<1> SUFFICES ASSUME ask \in Asks, reply # Reports!Unanswered, ask.op = "detect"
             PROVE  /\ reply.anomalous <=> reply.severity # "none"
                    /\ Reports!Failed(ask) =>
                          /\ Reports!DetectAnomaly(turned).anomalous = reply.anomalous
                          /\ Reports!DetectAnomaly(turned).severity = reply.severity
  BY DEF Reports!LocalAnomalyIsSound
<1>1. reply = Reports!DetectAnomaly(ask)
  BY DEF ReportsInv, Reports!Answer
<1>2. \A h : Reports!Severity(h) # "none"
  BY DEF Reports!Severity
<1>3. reply.anomalous <=> reply.severity # "none"
  <2>1. \/ reply = Reports!Normal
        \/ \E k, s : s # "none" /\ reply = [ok |-> TRUE, anomalous |-> TRUE, kind |-> k, severity |-> s]
    <3>1. CASE Reports!Failed(ask)
      BY <1>1, <1>2, <3>1 DEF Reports!DetectAnomaly, Reports!LocalAnomaly
    <3>2. CASE ~Reports!Failed(ask)
      BY <1>1, <3>2 DEF Reports!DetectAnomaly, Reports!ParseAnomaly
    <3> QED BY <3>1, <3>2
  <2> QED BY <2>1 DEF Reports!Normal
<1>4. ASSUME Reports!Failed(ask)
      PROVE  /\ Reports!DetectAnomaly(turned).anomalous = reply.anomalous
             /\ Reports!DetectAnomaly(turned).severity = reply.severity
  <2>1. ask.points \in Seq(Point) /\ {"raised", "points"} \subseteq DOMAIN ask
    BY DEF PreventionAssumption
  <2>2. turned.points = Reports!Reflected(ask.points) /\ turned.threshold = ask.threshold /\ turned.raised = ask.raised
    BY <2>1
  <2> HIDE DEF turned
  <2>3. Reports!Failed(turned)
    BY <1>4, <2>2 DEF Reports!Failed
  <2>4. reply = Reports!LocalAnomaly(ask) /\ Reports!DetectAnomaly(turned) = Reports!LocalAnomaly(turned)
    BY <1>1, <1>4, <2>3 DEF Reports!DetectAnomaly
  <2> QED BY <2>1, <2>2, <2>4, AnomalyMirrored
<1> QED BY <1>3, <1>4

\* FallbackIsSound: whatever the series, a drift found without the provider, or with
\* none of its rows, depends on the values at their times only, and turns round with
\* their sign and with the sense of the metric; an anomaly found without the provider
\* does not depend on the sign.
THEOREM FallbacksAreSound == ASSUME PreventionAssumption PROVE ServicesSpec => []FallbackIsSound
<1>1. ServicesInit => (focus = "prevention" => ReportsInv)
  BY ServicesStarts, ReportsStepHolds
<1>2. (focus = "prevention" => ReportsInv) /\ [ServicesNext]_allVars => (focus = "prevention" => ReportsInv)'
  BY ServicesSteps, ReportsStepHolds
<1>3. (focus = "prevention" => ReportsInv) => FallbackIsSound
  BY LocalDriftSound, LocalAnomalySound DEF FallbackIsSound
<1> QED BY <1>1, <1>2, <1>3, PTL DEF ServicesSpec

============================================================================
