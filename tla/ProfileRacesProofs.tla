-------------------------- MODULE ProfileRacesProofs --------------------------
(***************************************************************************)
(* Theorems about ProfileRaces for any number of profiles, configurations, *)
(* setting families and clients: type correctness, the containment of      *)
(* every inconsistency to names whose deletion was raced, and that the     *)
(* calls of a lone client implement ProfileRegistry.                       *)
(***************************************************************************)
EXTENDS MCProfileRaces, TLAPS

\* Active names that are not JSON literals are read back as written.
PlainNames == ReadBack = [p \in Profiles |-> p]

\* What the locals of a call hold at each stage.
StageOK ==
  \A c \in Clients :
    /\ pc[c] # "idle" => call[c] \in Calls
    /\ pc[c] \in {"store", "save_check", "auto_lookup", "auto_create",
                  "auto_update"} => call[c].cfg \in Configs
    /\ pc[c] \in {"store", "sweep_list", "sweep", "clear_active",
                  "activate_check", "activate_store", "auto_lookup",
                  "auto_create", "auto_update"} => call[c].p \in Profiles
    /\ pc[c] = "scoped_write" => call[c].kind \in Kinds

TypeInv == HTypeOK /\ StageOK

LEMMA CallFields ==
  ASSUME NEW x \in Calls
  PROVE  /\ x.p \in Names
         /\ x.cfg \in Configs \union {Absent}
         /\ x.auto \in BOOLEAN
         /\ x.kind \in Kinds \union {Absent}
         /\ x.sweep \subseteq SweptKinds
  BY DEF Calls

LEMMA ActiveNameTyped ==
  TypeOK => ActiveName \in Names \union {Unconfigured}
  BY StoreAssumption DEF TypeOK, ActiveName, Names

\* Starting a call from typed locals keeps the control state typed.
LEMMA StartTyped ==
  ASSUME TypeInv, NEW c \in Clients, NEW stage \in Stages \ {"idle"},
         NEW x \in Calls, Start(c, stage, x),
         stage \in {"store", "save_check", "auto_lookup"} => x.cfg \in Configs,
         stage \in {"store", "sweep_list", "activate_store", "auto_lookup"}
           => x.p \in Profiles,
         stage = "scoped_write" => x.kind \in Kinds,
         stage \in {"store", "save_check", "auto_lookup", "sweep_list",
                    "activate_store", "scoped_write"}
  PROVE  /\ pc' \in [Clients -> Stages]
         /\ call' \in [Clients -> Calls \union {NoCall}]
         /\ \A d \in Clients : (pc'[d] = "idle") <=> (call'[d] = NoCall)
         /\ StageOK'
  BY StoreAssumption
     DEF TypeInv, HTypeOK, TypeOK, StageOK, Start, Goto, Stages

\* So does returning from one.
LEMMA ReturnTyped ==
  ASSUME TypeInv, NEW c \in Clients, Return(c)
  PROVE  /\ pc' \in [Clients -> Stages]
         /\ call' \in [Clients -> Calls \union {NoCall}]
         /\ \A d \in Clients : (pc'[d] = "idle") <=> (call'[d] = NoCall)
         /\ StageOK'
  BY StoreAssumption
     DEF TypeInv, HTypeOK, TypeOK, StageOK, Return, Goto, Stages

\* And so does moving on with the same locals.
LEMMA GotoTyped ==
  ASSUME TypeInv, NEW c \in Clients, NEW stage \in Stages \ {"idle"},
         pc[c] # "idle", Goto(c, stage), UNCHANGED call,
         stage \in {"store", "auto_create", "auto_update"}
           => call[c].cfg \in Configs,
         stage # "save_check", stage # "auto_lookup", stage # "scoped_write",
         call[c].p \in Profiles
  PROVE  /\ pc' \in [Clients -> Stages]
         /\ call' \in [Clients -> Calls \union {NoCall}]
         /\ \A d \in Clients : (pc'[d] = "idle") <=> (call'[d] = NoCall)
         /\ StageOK'
  BY DEF TypeInv, HTypeOK, TypeOK, StageOK, Goto, Stages

-----------------------------------------------------------------------------
LEMMA TypeInit == HInit => TypeInv
  BY StoreAssumption
     DEF HInit, Init, TypeInv, HTypeOK, TypeOK, StageOK, Stages

LEMMA TypeStep == TypeInv /\ [HNext]_hvars => TypeInv'
<1> SUFFICES ASSUME TypeInv, [HNext]_hvars
             PROVE  TypeInv'
  OBVIOUS
<1> USE DEF RowsUnchanged
<1>1. CASE UNCHANGED hvars
  BY <1>1 DEF hvars, vars, TypeInv, HTypeOK, TypeOK, StageOK
<1>2. CASE HNext
  <2>0. raced' \subseteq Names
    BY <1>2 DEF HNext, Overlapping, TypeInv, HTypeOK
  <2> SUFFICES TypeOK' /\ StageOK'
                 /\ \A c \in Clients : (pc'[c] = "idle") <=> (call'[c] = NoCall)
    BY <2>0 DEF TypeInv, HTypeOK
  <2>1. PICK c \in Clients :
          \/ \E p \in Profiles, cfg \in Configs :
               CreateProfile(c, p, cfg) \/ UpdateProfile(c, p, cfg)
          \/ \E p \in Profiles : DeleteRow(c, p) \/ SetActive(c, p)
          \/ \E cfg \in Configs : SaveConfig(c, cfg)
          \/ \E k \in Kinds : BeginScopedWrite(c, k) \/ DeleteScoped(c, k)
          \/ StoreProfile(c) \/ ListScoped(c) \/ ReadActiveAfterDelete(c)
          \/ ClearActive(c) \/ SetActiveUnconfigured(c)
          \/ AutoActivateCheck(c) \/ StoreActive(c) \/ AutoLookup(c)
          \/ SaveCheck(c) \/ SaveRefused(c) \/ WriteScoped(c)
    BY <1>2 DEF HNext, Next
  <2>2. /\ profile \in [Profiles -> Configs \union {Absent}]
        /\ activeRow \in Profiles \union {Absent}
        /\ scoped \subseteq Kinds \X Names
        /\ StageOK
        /\ pc \in [Clients -> Stages]
        /\ call \in [Clients -> Calls \union {NoCall}]
    BY DEF TypeInv, HTypeOK, TypeOK
  <2>3. Profiles \subseteq Names
    BY DEF Names
  <2>4. ASSUME NEW p \in Profiles, NEW cfg \in Configs,
               CreateProfile(c, p, cfg) \/ UpdateProfile(c, p, cfg)
        PROVE  TypeInv'
    <3> DEFINE x == Locals(p, cfg, FALSE, Absent)
    <3>1. x \in Calls /\ x.p = p /\ x.cfg = cfg
      BY <2>3 DEF Locals, Calls
    <3>2. Start(c, "store", x) /\ UNCHANGED <<profile, activeRow, scoped>>
      BY <2>4 DEF CreateProfile, UpdateProfile
    <3> HIDE DEF x
    <3>3. QED
      BY <2>0, <2>2, <3>1, <3>2, StartTyped
         DEF TypeInv, HTypeOK, TypeOK, Stages
  <2>5. ASSUME NEW p \in Profiles, DeleteRow(c, p)
        PROVE  TypeInv'
    <3> DEFINE x == Locals(p, Absent, FALSE, Absent)
    <3>1. x \in Calls /\ x.p = p
      BY <2>3 DEF Locals, Calls
    <3>2. Start(c, "sweep_list", x)
      BY <2>5 DEF DeleteRow
    <3> HIDE DEF x
    <3>3. QED
      BY <2>0, <2>2, <2>5, <3>1, <3>2, StartTyped
         DEF TypeInv, HTypeOK, TypeOK, Stages, DeleteRow
  <2>6. ASSUME NEW p \in Profiles, SetActive(c, p)
        PROVE  TypeInv'
    <3> DEFINE x == Locals(p, Absent, FALSE, Absent)
    <3>1. x \in Calls /\ x.p = p
      BY <2>3 DEF Locals, Calls
    <3>2. Start(c, "activate_store", x)
      BY <2>6 DEF SetActive
    <3> HIDE DEF x
    <3>3. QED
      BY <2>0, <2>2, <2>6, <3>1, <3>2, StartTyped
         DEF TypeInv, HTypeOK, TypeOK, Stages, SetActive
  <2>7. ASSUME NEW cfg \in Configs, SaveConfig(c, cfg)
        PROVE  TypeInv'
    <3>1. CASE ActiveName = Unconfigured
      <4> DEFINE x == Locals(AutoName, cfg, TRUE, Absent)
      <4>1. x \in Calls /\ x.p = AutoName /\ x.cfg = cfg
        BY <2>3, StoreAssumption DEF Locals, Calls
      <4>2. Start(c, "auto_lookup", x)
        BY <2>7, <3>1 DEF SaveConfig
      <4> HIDE DEF x
      <4>3. QED
        BY <2>0, <2>2, <2>7, <4>1, <4>2, StartTyped, StoreAssumption
           DEF TypeInv, HTypeOK, TypeOK, Stages, SaveConfig
    <3>2. CASE ActiveName # Unconfigured
      <4> DEFINE x == Locals(ActiveName, cfg, FALSE, Absent)
      <4>1. x \in Calls /\ x.cfg = cfg
        BY <3>2, ActiveNameTyped DEF Locals, Calls, TypeInv, HTypeOK
      <4>2. Start(c, "save_check", x)
        BY <2>7, <3>2 DEF SaveConfig
      <4> HIDE DEF x
      <4>3. QED
        BY <2>0, <2>2, <2>7, <4>1, <4>2, StartTyped
           DEF TypeInv, HTypeOK, TypeOK, Stages, SaveConfig
    <3>3. QED
      BY <3>1, <3>2
  <2>8. ASSUME NEW k \in Kinds, BeginScopedWrite(c, k)
        PROVE  TypeInv'
    <3> DEFINE x == Locals(ActiveName, Absent, FALSE, k)
    <3>1. ActiveName \in Names
      BY <2>8, ActiveNameTyped DEF BeginScopedWrite, TypeInv, HTypeOK
    <3>2. x \in Calls /\ x.kind = k
      BY <3>1 DEF Locals, Calls
    <3>3. Start(c, "scoped_write", x)
      BY <2>8 DEF BeginScopedWrite
    <3> HIDE DEF x
    <3>4. QED
      BY <2>0, <2>2, <2>8, <3>2, <3>3, StartTyped
         DEF TypeInv, HTypeOK, TypeOK, Stages, BeginScopedWrite
  <2>9. ASSUME NEW k \in Kinds, DeleteScoped(c, k)
        PROVE  TypeInv'
    <3>1. call[c] \in Calls /\ call[c].sweep \ {k} \subseteq SweptKinds
      BY <2>2, <2>9, CallFields DEF DeleteScoped, StageOK
    <3>2. [call[c] EXCEPT !.sweep = @ \ {k}] \in Calls
      BY <3>1 DEF Calls
    <3>3. call' \in [Clients -> Calls \union {NoCall}]
      BY <2>2, <2>9, <3>2 DEF DeleteScoped
    <3>4. \A d \in Clients : (pc'[d] = "idle") <=> (call'[d] = NoCall)
      BY <2>2, <2>9, <3>2, StoreAssumption DEF DeleteScoped, TypeInv, HTypeOK
    <3>5. StageOK'
      BY <2>2, <2>9, <3>1, <3>2 DEF DeleteScoped, StageOK, Calls
    <3>6. QED
      BY <2>0, <2>2, <2>9, <3>3, <3>4, <3>5
         DEF DeleteScoped, TypeInv, HTypeOK, TypeOK
  <2>10. CASE StoreProfile(c)
    <3>1. /\ call[c].p \in Profiles
          /\ call[c].cfg \in Configs
      BY <2>2, <2>10 DEF StoreProfile, StageOK
    <3>2. TypeOK' /\ StageOK'
            /\ \A d \in Clients : (pc'[d] = "idle") <=> (call'[d] = NoCall)
      <4>1. CASE call[c].auto
        BY <2>2, <2>10, <3>1, <4>1, GotoTyped DEF StoreProfile, TypeOK, Stages
      <4>2. CASE ~call[c].auto
        BY <2>2, <2>10, <3>1, <4>2, ReturnTyped DEF StoreProfile, TypeOK
      <4>3. QED
        BY <4>1, <4>2
    <3>3. QED
      BY <2>0, <3>2 DEF TypeInv, HTypeOK
  <2>11. CASE ListScoped(c)
    <3> DEFINE found == {k \in SweptKinds : <<k, call[c].p>> \in scoped}
    <3>1. call[c] \in Calls /\ call[c].p \in Profiles
      BY <2>2, <2>11 DEF ListScoped, StageOK
    <3>2. [call[c] EXCEPT !.sweep = found] \in Calls
      BY <3>1 DEF Calls
    <3>3. call' = [call EXCEPT ![c] = [call[c] EXCEPT !.sweep = found]]
      BY <2>2, <2>11 DEF ListScoped
    <3>4. pc' = [pc EXCEPT ![c] = "sweep"]
      BY <2>11 DEF ListScoped, Goto
    <3> HIDE DEF found
    <3>5. call' \in [Clients -> Calls \union {NoCall}]
      BY <2>2, <3>2, <3>3
    <3>6. \A d \in Clients : (pc'[d] = "idle") <=> (call'[d] = NoCall)
      BY <2>2, <3>2, <3>3, <3>4, <2>11, StoreAssumption
         DEF ListScoped, TypeInv, HTypeOK
    <3>7. StageOK'
      BY <2>2, <3>1, <3>2, <3>3, <3>4 DEF StageOK, Calls
    <3>8. QED
      BY <2>0, <2>2, <2>11, <3>4, <3>5, <3>6, <3>7
         DEF ListScoped, TypeInv, HTypeOK, TypeOK, Stages
  <2>12. CASE ReadActiveAfterDelete(c)
    <3>1. CASE ActiveName = call[c].p
      BY <2>0, <2>2, <2>12, <3>1, GotoTyped
         DEF ReadActiveAfterDelete, TypeInv, HTypeOK, TypeOK, Stages, StageOK
    <3>2. CASE ActiveName # call[c].p
      BY <2>0, <2>2, <2>12, <3>2, ReturnTyped
         DEF ReadActiveAfterDelete, TypeInv, HTypeOK, TypeOK
    <3>3. QED
      BY <3>1, <3>2
  <2>13. CASE ClearActive(c)
    BY <2>0, <2>2, <2>13, ReturnTyped DEF ClearActive, TypeInv, HTypeOK, TypeOK
  <2>14. CASE SetActiveUnconfigured(c)
    BY <2>0, <2>2, <2>14
       DEF SetActiveUnconfigured, TypeInv, HTypeOK, TypeOK, StageOK
  <2>15. CASE AutoActivateCheck(c)
    <3>1. CASE Exists(call[c].p)
      BY <2>0, <2>2, <2>15, <3>1, GotoTyped
         DEF AutoActivateCheck, TypeInv, HTypeOK, TypeOK, Stages, StageOK
    <3>2. CASE ~Exists(call[c].p)
      BY <2>0, <2>2, <2>15, <3>2, ReturnTyped
         DEF AutoActivateCheck, TypeInv, HTypeOK, TypeOK
    <3>3. QED
      BY <3>1, <3>2
  <2>16. CASE StoreActive(c)
    BY <2>0, <2>2, <2>16, ReturnTyped
       DEF StoreActive, TypeInv, HTypeOK, TypeOK, StageOK
  <2>17. CASE AutoLookup(c)
    <3>1. PICK s \in {"auto_update", "auto_create"} : Goto(c, s)
      BY <2>17 DEF AutoLookup
    <3>2. QED
      BY <2>0, <2>2, <2>17, <3>1, GotoTyped
         DEF AutoLookup, TypeInv, HTypeOK, TypeOK, Stages, StageOK
  <2>18. CASE SaveCheck(c)
    <3>1. call[c].p \in Profiles /\ call[c].cfg \in Configs
      BY <2>2, <2>18 DEF SaveCheck, StageOK, Exists
    <3>2. QED
      BY <2>0, <2>2, <2>18, <3>1, GotoTyped
         DEF SaveCheck, TypeInv, HTypeOK, TypeOK, Stages
  <2>19. CASE SaveRefused(c)
    BY <2>0, <2>2, <2>19, ReturnTyped DEF SaveRefused, TypeInv, HTypeOK, TypeOK
  <2>20. CASE WriteScoped(c)
    <3>1. call[c].kind \in Kinds /\ call[c].p \in Names
      BY <2>2, <2>20, CallFields DEF WriteScoped, StageOK
    <3>2. QED
      BY <2>0, <2>2, <2>20, <3>1, ReturnTyped
         DEF WriteScoped, TypeInv, HTypeOK, TypeOK
  <2>21. QED
    BY <2>1, <2>4, <2>5, <2>6, <2>7, <2>8, <2>9, <2>10, <2>11, <2>12, <2>13,
       <2>14, <2>15, <2>16, <2>17, <2>18, <2>19, <2>20
       DEF TypeInv, HTypeOK
<1>3. QED
  BY <1>1, <1>2

(***************************************************************************)
(* Type correctness of the store, its callers' locals included.            *)
(***************************************************************************)
THEOREM TypeCorrect == HSpec => []HTypeOK
<1>1. HSpec => []TypeInv
  BY TypeInit, TypeStep, PTL DEF HSpec
<1>2. TypeInv => HTypeOK
  BY DEF TypeInv
<1>3. QED
  BY <1>1, <1>2, PTL
-----------------------------------------------------------------------------
\* Client c is about to remove the scoped rows s.
Sweeping(c, s) ==
  /\ pc[c] \in {"sweep_list", "sweep"}
  /\ call[c].p = s[2]
  /\ pc[c] = "sweep" => s[1] \in call[c].sweep

(***************************************************************************)
(* The strengthening that makes containment inductive: it also speaks of   *)
(* the states inside a call.  A name that is active, or owns a swept row,  *)
(* without existing is either raced or being deleted right now; and a      *)
(* client about to write a name that does not exist has been raced.        *)
(***************************************************************************)
OverlapRecorded == Overlapping \subseteq raced

WritersRaced ==
  \A c \in Clients :
    pc[c] \in {"activate_store", "scoped_write"} =>
      Exists(call[c].p) \/ call[c].p \in raced

ActiveAccounted ==
  activeRow # Absent =>
    Exists(activeRow) \/ activeRow \in raced \/ Deleting(activeRow) # {}

OrphansAccounted ==
  \A s \in scoped :
    s[1] \in SweptKinds =>
      \/ Exists(s[2])
      \/ s[2] \in raced
      \/ \E c \in Clients : Sweeping(c, s)

IInv ==
  TypeInv /\ OverlapRecorded /\ WritersRaced /\ ActiveAccounted
    /\ OrphansAccounted
LEMMA ActiveNamePlain ==
  ASSUME PlainNames, TypeOK
  PROVE  ActiveName = IF activeRow = Absent THEN Unconfigured ELSE activeRow
  BY DEF PlainNames, TypeOK, ActiveName

\* Two calls on one name, one of them its deletion: the name is raced.
LEMMA OverlapRaces ==
  ASSUME HNext, NEW n \in Names, NEW c \in Clients, NEW d \in Clients, c # d,
         pc'[c] \in DeleteStages, call'[c].p = n,
         pc'[d] # "idle", call'[d].p = n
  PROVE  n \in raced'
  BY DEF HNext, Overlapping, Deleting, Using

LEMMA OverlapKept == HNext => OverlapRecorded' /\ raced \subseteq raced'
  BY DEF HNext, OverlapRecorded

(***************************************************************************)
(* A step that leaves the rows alone, or only adds profile rows, and after *)
(* which its client is not about to write an unraced name that does not    *)
(* exist, keeps the invariant if the client was not deleting before.       *)
(***************************************************************************)
LEMMA QuietStep ==
  ASSUME IInv, HNext, NEW c \in Clients, TypeInv',
         UNCHANGED <<activeRow, scoped>>,
         \A p \in Profiles : profile[p] # Absent => profile'[p] # Absent,
         \A d \in Clients \ {c} : pc'[d] = pc[d] /\ call'[d] = call[d],
         pc[c] \notin DeleteStages,
         pc'[c] \in {"activate_store", "scoped_write"} =>
           Exists(call[c].p)' \/ call'[c].p \in raced'
  PROVE  IInv'
<1>1. \A n \in Names : Exists(n) => Exists(n)'
  BY DEF Exists
<1>2. OverlapRecorded' /\ raced \subseteq raced'
  BY OverlapKept
<1>3. WritersRaced'
  <2> SUFFICES ASSUME NEW d \in Clients,
                      pc'[d] \in {"activate_store", "scoped_write"}
               PROVE  Exists(call[d].p)' \/ call'[d].p \in raced'
    BY DEF WritersRaced
  <2> SUFFICES ASSUME d # c
               PROVE  Exists(call[d].p)' \/ call'[d].p \in raced'
    OBVIOUS
  <2>1. pc[d] \in {"activate_store", "scoped_write"} /\ call'[d] = call[d]
    OBVIOUS
  <2>2. Exists(call[d].p) \/ call[d].p \in raced
    BY <2>1 DEF IInv, WritersRaced
  <2>3. call[d].p \in Names
    BY <2>1, CallFields DEF IInv, TypeInv, StageOK
  <2>4. QED
    BY <1>1, <1>2, <2>1, <2>2, <2>3 DEF Exists
<1>4. ActiveAccounted'
  <2> SUFFICES ASSUME activeRow # Absent
               PROVE  \/ Exists(activeRow)' \/ activeRow \in raced'
                      \/ Deleting(activeRow)' # {}
    BY DEF ActiveAccounted
  <2>1. activeRow \in Names
    BY DEF IInv, TypeInv, HTypeOK, TypeOK, Names
  <2>2. CASE Exists(activeRow) \/ activeRow \in raced
    BY <1>1, <1>2, <2>1, <2>2 DEF Exists
  <2>3. CASE Deleting(activeRow) # {}
    <3>1. PICK d \in Clients :
            pc[d] \in DeleteStages /\ call[d].p = activeRow
      BY <2>3 DEF Deleting
    <3>2. QED
      BY <3>1 DEF Deleting
  <2>4. QED
    BY <2>2, <2>3 DEF IInv, ActiveAccounted
<1>5. OrphansAccounted'
  <2> SUFFICES ASSUME NEW s \in scoped, s[1] \in SweptKinds
               PROVE  \/ Exists(s[2])' \/ s[2] \in raced'
                      \/ \E d \in Clients : Sweeping(d, s)'
    BY DEF OrphansAccounted
  <2>1. s[2] \in Names
    BY DEF IInv, TypeInv, HTypeOK, TypeOK
  <2>2. CASE Exists(s[2]) \/ s[2] \in raced
    BY <1>1, <1>2, <2>1, <2>2 DEF Exists
  <2>3. CASE \E d \in Clients : Sweeping(d, s)
    <3>1. PICK d \in Clients : Sweeping(d, s)
      BY <2>3
    <3>2. d # c
      BY <3>1 DEF Sweeping, DeleteStages
    <3>3. QED
      BY <3>1, <3>2 DEF Sweeping
  <2>4. QED
    BY <2>2, <2>3 DEF IInv, OrphansAccounted
<1>6. QED
  BY <1>2, <1>3, <1>4, <1>5 DEF IInv
LEMMA InitInv == HInit => IInv
<1> SUFFICES ASSUME HInit
             PROVE  IInv
  OBVIOUS
<1>1. TypeInv
  BY TypeInit
<1>2. OverlapRecorded /\ WritersRaced /\ ActiveAccounted /\ OrphansAccounted
  BY DEF HInit, Init, OverlapRecorded, Overlapping, Deleting, DeleteStages,
         WritersRaced, ActiveAccounted, OrphansAccounted
<1>3. QED
  BY <1>1, <1>2 DEF IInv

\* Starting a write of the active name: if the name does not exist, it was
\* raced before or its deletion in progress races it now.
LEMMA BeginScopedWriteInv ==
  ASSUME PlainNames, IInv, HNext, TypeInv',
         NEW c \in Clients, NEW k \in Kinds, BeginScopedWrite(c, k)
  PROVE  IInv'
<1> DEFINE n == activeRow
<1>1. /\ n \in Profiles /\ n \in Names /\ n # Absent
      /\ ActiveName = n
  BY ActiveNamePlain
     DEF BeginScopedWrite, IInv, TypeInv, HTypeOK, TypeOK, Names
<1>2. /\ pc[c] = "idle" /\ pc' = [pc EXCEPT ![c] = "scoped_write"]
      /\ call' = [call EXCEPT ![c] = Locals(n, Absent, FALSE, k)]
      /\ UNCHANGED <<profile, activeRow, scoped>>
  BY <1>1 DEF BeginScopedWrite, Start, Goto, RowsUnchanged
<1>3. call'[c].p = n /\ pc'[c] = "scoped_write"
  BY <1>2 DEF Locals, IInv, TypeInv, HTypeOK, TypeOK
<1>4. \A d \in Clients \ {c} : pc'[d] = pc[d] /\ call'[d] = call[d]
  BY <1>2 DEF IInv, TypeInv, HTypeOK, TypeOK
<1>5. Exists(n)' \/ n \in raced'
  <2>1. CASE Exists(n) \/ n \in raced
    BY <1>2, <2>1, OverlapKept DEF Exists
  <2>2. CASE Deleting(n) # {}
    <3>1. PICK d \in Clients : pc[d] \in DeleteStages /\ call[d].p = n
      BY <2>2 DEF Deleting
    <3>2. d # c
      BY <1>2, <3>1 DEF DeleteStages
    <3>3. pc'[d] \in DeleteStages /\ call'[d].p = n
      BY <1>4, <3>1, <3>2
    <3>4. QED
      BY <1>1, <1>3, <3>2, <3>3, OverlapRaces
  <2>3. QED
    BY <1>1, <2>1, <2>2 DEF IInv, ActiveAccounted
<1>6. Exists(call[c].p)' \/ call'[c].p \in raced'
  BY <1>2, <1>3, <1>5 DEF Exists
<1>7. pc[c] \notin DeleteStages /\ UNCHANGED <<profile, activeRow, scoped>>
  BY <1>2 DEF DeleteStages
<1> HIDE DEF n
<1>8. QED
  BY <1>4, <1>6, <1>7, QuietStep

LEMMA DeleteRowInv ==
  ASSUME IInv, HNext, TypeInv',
         NEW c \in Clients, NEW n \in Profiles, DeleteRow(c, n)
  PROVE  IInv'
<1>1. /\ pc[c] = "idle" /\ pc' = [pc EXCEPT ![c] = "sweep_list"]
      /\ call' = [call EXCEPT ![c] = Locals(n, Absent, FALSE, Absent)]
      /\ profile' = [profile EXCEPT ![n] = Absent]
      /\ UNCHANGED <<activeRow, scoped>>
  BY DEF DeleteRow, Start, Goto
<1>2. /\ call'[c].p = n /\ pc'[c] = "sweep_list" /\ n \in Names
      /\ \A d \in Clients \ {c} : pc'[d] = pc[d] /\ call'[d] = call[d]
  BY <1>1 DEF Locals, IInv, TypeInv, HTypeOK, TypeOK, Names
<1>3. \A m \in Names \ {n} : Exists(m) => Exists(m)'
  BY <1>1 DEF Exists, IInv, TypeInv, HTypeOK, TypeOK
<1>4. OverlapRecorded' /\ raced \subseteq raced'
  BY OverlapKept
<1>5. WritersRaced'
  <2> SUFFICES ASSUME NEW d \in Clients,
                      pc'[d] \in {"activate_store", "scoped_write"}
               PROVE  Exists(call[d].p)' \/ call'[d].p \in raced'
    BY DEF WritersRaced
  <2>1. /\ d # c /\ pc[d] = pc'[d] /\ call'[d] = call[d]
        /\ pc[d] # "idle"
    BY <1>2
  <2>2. call[d].p \in Names
    BY <2>1, CallFields DEF IInv, TypeInv, StageOK
  <2>3. Exists(call[d].p) \/ call[d].p \in raced
    BY <2>1 DEF IInv, WritersRaced
  <2>4. CASE call[d].p = n
    BY <1>2, <2>1, <2>4, OverlapRaces DEF DeleteStages
  <2>5. CASE call[d].p # n
    BY <1>3, <1>4, <2>1, <2>2, <2>3, <2>5 DEF Exists
  <2>6. QED
    BY <2>4, <2>5
<1>6. ActiveAccounted'
  <2> SUFFICES ASSUME activeRow # Absent
               PROVE  \/ Exists(activeRow)' \/ activeRow \in raced'
                      \/ Deleting(activeRow)' # {}
    BY <1>1 DEF ActiveAccounted
  <2>1. activeRow \in Names
    BY DEF IInv, TypeInv, HTypeOK, TypeOK, Names
  <2>2. CASE activeRow = n
    BY <1>1, <1>2, <2>2 DEF Deleting, DeleteStages
  <2>3. CASE Deleting(activeRow) # {}
    <3>1. PICK d \in Clients :
            pc[d] \in DeleteStages /\ call[d].p = activeRow
      BY <2>3 DEF Deleting
    <3>2. d # c
      BY <1>1, <3>1 DEF DeleteStages
    <3>3. QED
      BY <1>1, <1>2, <3>1, <3>2 DEF Deleting
  <2>4. CASE activeRow # n /\ (Exists(activeRow) \/ activeRow \in raced)
    BY <1>1, <1>3, <1>4, <2>1, <2>4 DEF Exists
  <2>5. QED
    BY <2>2, <2>3, <2>4 DEF IInv, ActiveAccounted
<1>7. OrphansAccounted'
  <2> SUFFICES ASSUME NEW s \in scoped, s[1] \in SweptKinds
               PROVE  \/ Exists(s[2])' \/ s[2] \in raced'
                      \/ \E d \in Clients : Sweeping(d, s)'
    BY <1>1 DEF OrphansAccounted
  <2>1. s[2] \in Names
    BY DEF IInv, TypeInv, HTypeOK, TypeOK
  <2>2. CASE s[2] = n
    BY <1>2, <2>2 DEF Sweeping
  <2>3. CASE \E d \in Clients : Sweeping(d, s)
    <3>1. PICK d \in Clients : Sweeping(d, s)
      BY <2>3
    <3>2. d # c
      BY <1>1, <3>1 DEF Sweeping
    <3>3. QED
      BY <1>2, <3>1, <3>2 DEF Sweeping
  <2>4. CASE s[2] # n /\ (Exists(s[2]) \/ s[2] \in raced)
    BY <1>3, <1>4, <2>1, <2>4 DEF Exists
  <2>5. QED
    BY <2>2, <2>3, <2>4 DEF IInv, OrphansAccounted
<1>8. QED
  BY <1>4, <1>5, <1>6, <1>7 DEF IInv
(***************************************************************************)
(* The steps that leave the profile rows alone and after which their client*)
(* is not about to write: the writers of other clients are as they were.   *)
(***************************************************************************)
LEMMA WritersKept ==
  ASSUME IInv, HNext, NEW c \in Clients, UNCHANGED profile,
         \A d \in Clients \ {c} : pc'[d] = pc[d] /\ call'[d] = call[d],
         pc'[c] \notin {"activate_store", "scoped_write"}
  PROVE  WritersRaced'
  BY OverlapKept DEF IInv, WritersRaced, Exists

\* What accounts for a name n before the step, another client's deletion of
\* it included, still does after it.
LEMMA OthersAccount ==
  ASSUME IInv, HNext, NEW c \in Clients, UNCHANGED profile, NEW n,
         \A d \in Clients \ {c} : pc'[d] = pc[d] /\ call'[d] = call[d]
  PROVE  /\ Exists(n) => Exists(n)'
         /\ n \in raced => n \in raced'
         /\ \A d \in Deleting(n) \ {c} : d \in Deleting(n)'
         /\ \A s \in scoped, d \in Clients \ {c} :
              Sweeping(d, s) => Sweeping(d, s)'
  BY OverlapKept DEF Exists, Deleting, Sweeping

LEMMA SweepInv ==
  ASSUME IInv, HNext, TypeInv', NEW c \in Clients,
         \/ ListScoped(c)
         \/ \E k \in Kinds : DeleteScoped(c, k)
  PROVE  IInv'
<1>1. /\ UNCHANGED <<profile, activeRow>>
      /\ scoped' \subseteq scoped
      /\ pc[c] \in {"sweep_list", "sweep"} /\ pc'[c] = "sweep"
      /\ \A d \in Clients \ {c} : pc'[d] = pc[d] /\ call'[d] = call[d]
  BY DEF ListScoped, DeleteScoped, RowsUnchanged, Goto,
         IInv, TypeInv, HTypeOK, TypeOK
<1>2. call[c] \in Calls
  BY <1>1 DEF IInv, TypeInv, StageOK
<1>3. call'[c].p = call[c].p
  BY <1>2 DEF ListScoped, DeleteScoped, IInv, TypeInv, HTypeOK, TypeOK, Calls
<1>4. \A s \in scoped' : s[1] \in SweptKinds /\ Sweeping(c, s) => Sweeping(c, s)'
  <2> SUFFICES ASSUME NEW s \in scoped', s[1] \in SweptKinds, Sweeping(c, s)
               PROVE  s[1] \in call'[c].sweep
    BY <1>1, <1>3 DEF Sweeping
  <2>1. s \in scoped /\ call[c].p = s[2] /\ s = <<s[1], s[2]>>
    BY <1>1 DEF Sweeping, IInv, TypeInv, HTypeOK, TypeOK
  <2>2. CASE ListScoped(c)
    <3>1. call'[c].sweep = {k \in SweptKinds : <<k, call[c].p>> \in scoped}
      BY <1>2, <2>2 DEF ListScoped, IInv, TypeInv, HTypeOK, TypeOK, Calls
    <3>2. QED
      BY <2>1, <3>1
  <2>3. ASSUME NEW k \in Kinds, DeleteScoped(c, k)
        PROVE  s[1] \in call'[c].sweep
    <3>1. call'[c].sweep = call[c].sweep \ {k}
      BY <1>2, <2>3 DEF DeleteScoped, IInv, TypeInv, HTypeOK, TypeOK, Calls
    <3>2. s[1] # k
      BY <2>1, <2>3 DEF DeleteScoped
    <3>3. s[1] \in call[c].sweep
      BY <2>3 DEF DeleteScoped, Sweeping
    <3>4. QED
      BY <3>1, <3>2, <3>3
  <2>4. QED
    BY <2>2, <2>3
<1>5. WritersRaced'
  BY <1>1, WritersKept
<1>6. ActiveAccounted'
  BY <1>1, <1>3, OthersAccount
     DEF ActiveAccounted, Deleting, DeleteStages, IInv
<1>7. OrphansAccounted'
  BY <1>1, <1>4, OthersAccount DEF OrphansAccounted, IInv
<1>8. QED
  BY <1>5, <1>6, <1>7, OverlapKept DEF IInv

\* The end of a deletion: the swept rows are gone, and so is the active name
\* if it was the deleted one.
LEMMA DeleteDoneInv ==
  ASSUME PlainNames, IInv, HNext, TypeInv', NEW c \in Clients,
         ReadActiveAfterDelete(c) \/ ClearActive(c)
  PROVE  IInv'
<1>1. /\ UNCHANGED <<profile, scoped>>
      /\ pc[c] \in {"sweep", "clear_active"}
      /\ pc'[c] \in {"idle", "clear_active"}
      /\ \A d \in Clients \ {c} : pc'[d] = pc[d] /\ call'[d] = call[d]
  BY DEF ReadActiveAfterDelete, ClearActive, RowsUnchanged, Goto, Return,
         IInv, TypeInv, HTypeOK, TypeOK
<1>2. \A s \in scoped : ~Sweeping(c, s)
  BY <1>1 DEF ReadActiveAfterDelete, ClearActive, Sweeping
<1>3. WritersRaced'
  BY <1>1, WritersKept
<1>4. ActiveAccounted'
  <2>1. CASE ClearActive(c)
    BY <2>1 DEF ClearActive, ActiveAccounted
  <2>2. CASE ReadActiveAfterDelete(c) /\ activeRow # Absent
    <3>1. ActiveName = activeRow /\ UNCHANGED activeRow
      BY <2>2, ActiveNamePlain
         DEF IInv, TypeInv, HTypeOK, ReadActiveAfterDelete, RowsUnchanged
    <3>2. CASE call[c].p = activeRow
      <4>1. pc'[c] = "clear_active" /\ call'[c].p = activeRow
        BY <2>2, <3>1, <3>2
           DEF ReadActiveAfterDelete, Goto, IInv, TypeInv, HTypeOK, TypeOK
      <4>2. QED
        BY <3>1, <4>1 DEF ActiveAccounted, Deleting, DeleteStages
    <3>3. CASE call[c].p # activeRow
      <4>1. c \notin Deleting(activeRow)
        BY <3>3 DEF Deleting
      <4>2. QED
        BY <1>1, <2>2, <3>1, <4>1, OthersAccount DEF ActiveAccounted, IInv
    <3>4. QED
      BY <3>2, <3>3
  <2>3. CASE ReadActiveAfterDelete(c) /\ activeRow = Absent
    BY <2>3 DEF ReadActiveAfterDelete, RowsUnchanged, ActiveAccounted
  <2>4. QED
    BY <2>1, <2>2, <2>3
<1>5. OrphansAccounted'
  BY <1>1, <1>2, OthersAccount DEF OrphansAccounted, IInv
<1>6. QED
  BY <1>3, <1>4, <1>5, OverlapKept DEF IInv

\* A write of the active row or of a scoped row names a profile that exists,
\* or a raced one.
LEMMA WriteInv ==
  ASSUME IInv, HNext, TypeInv', NEW c \in Clients,
         StoreActive(c) \/ WriteScoped(c) \/ SetActiveUnconfigured(c)
  PROVE  IInv'
<1> DEFINE n == call[c].p
<1>1. /\ UNCHANGED profile
      /\ pc[c] \notin DeleteStages /\ pc'[c] = "idle"
      /\ \A d \in Clients \ {c} : pc'[d] = pc[d] /\ call'[d] = call[d]
  BY DEF StoreActive, WriteScoped, SetActiveUnconfigured, Goto, Return,
         IInv, TypeInv, HTypeOK, TypeOK, DeleteStages
<1>2. ~SetActiveUnconfigured(c) => Exists(n) \/ n \in raced
  BY DEF StoreActive, WriteScoped, IInv, WritersRaced
<1>3. WritersRaced'
  BY <1>1, WritersKept
<1>4. \/ activeRow' = activeRow
      \/ activeRow' = Absent
      \/ StoreActive(c) /\ activeRow' = n
  <2>1. WriteScoped(c) => activeRow' = activeRow
    BY DEF WriteScoped
  <2>2. SetActiveUnconfigured(c) => activeRow' = Absent
    BY DEF SetActiveUnconfigured
  <2>3. StoreActive(c) => activeRow' = n
    BY DEF StoreActive
  <2>4. QED
    BY <2>1, <2>2, <2>3
<1>5. \A m : c \notin Deleting(m)
  BY <1>1 DEF Deleting
<1>6. ActiveAccounted'
  <2>1. CASE activeRow' = activeRow
    BY <1>1, <1>5, <2>1, OthersAccount DEF ActiveAccounted, IInv
  <2>2. CASE activeRow' = Absent
    BY <2>2 DEF ActiveAccounted
  <2>3. CASE StoreActive(c) /\ activeRow' = n
    <3>1. Exists(n) \/ n \in raced
      BY <2>3 DEF StoreActive, IInv, WritersRaced
    <3>2. QED
      BY <1>1, <2>3, <3>1, OthersAccount DEF ActiveAccounted, Exists
  <2>4. QED
    BY <1>4, <2>1, <2>2, <2>3
<1>7. OrphansAccounted'
  <2> SUFFICES ASSUME NEW s \in scoped', s[1] \in SweptKinds
               PROVE  \/ Exists(s[2])' \/ s[2] \in raced'
                      \/ \E d \in Clients : Sweeping(d, s)'
    BY DEF OrphansAccounted
  <2>1. CASE s \in scoped
    BY <1>1, <2>1, OthersAccount
       DEF OrphansAccounted, IInv, Sweeping, DeleteStages
  <2>2. CASE WriteScoped(c) /\ s[2] = n
    <3>1. Exists(n) \/ n \in raced
      BY <2>2 DEF WriteScoped, IInv, WritersRaced
    <3>2. QED
      BY <1>1, <2>2, <3>1, OthersAccount DEF Exists
  <2>3. QED
    BY <2>1, <2>2 DEF StoreActive, WriteScoped, SetActiveUnconfigured
<1>8. QED
  BY <1>3, <1>6, <1>7, OverlapKept DEF IInv
\* The calls that read, and the upsert of a profile row.
LEMMA QuietActions ==
  ASSUME IInv, HNext, TypeInv', NEW c \in Clients,
         \/ \E p \in Profiles, cfg \in Configs :
              CreateProfile(c, p, cfg) \/ UpdateProfile(c, p, cfg)
         \/ \E p \in Profiles : SetActive(c, p)
         \/ \E cfg \in Configs : SaveConfig(c, cfg)
         \/ StoreProfile(c) \/ AutoActivateCheck(c) \/ AutoLookup(c)
         \/ SaveCheck(c) \/ SaveRefused(c)
  PROVE  IInv'
<1> USE DEF IInv, TypeInv, HTypeOK, TypeOK
<1>1. UNCHANGED <<activeRow, scoped>>
  BY DEF CreateProfile, UpdateProfile, SetActive, SaveConfig, StoreProfile,
         AutoActivateCheck, AutoLookup, SaveCheck, SaveRefused, RowsUnchanged
<1>2. \A d \in Clients \ {c} : pc'[d] = pc[d] /\ call'[d] = call[d]
  BY DEF CreateProfile, UpdateProfile, SetActive, SaveConfig, StoreProfile,
         AutoActivateCheck, AutoLookup, SaveCheck, SaveRefused,
         Start, Goto, Return
<1>3. pc[c] \notin DeleteStages
  BY DEF CreateProfile, UpdateProfile, SetActive, SaveConfig, StoreProfile,
         AutoActivateCheck, AutoLookup, SaveCheck, SaveRefused,
         Start, DeleteStages
<1>4. \A p \in Profiles : profile[p] # Absent => profile'[p] # Absent
  <2>1. CASE StoreProfile(c)
    <3>1. call[c].cfg \in Configs
      BY <2>1 DEF StoreProfile, StageOK
    <3>2. profile' = [profile EXCEPT ![call[c].p] = call[c].cfg]
      BY <2>1 DEF StoreProfile
    <3>3. QED
      BY <3>1, <3>2, StoreAssumption
  <2>2. CASE ~StoreProfile(c)
    BY <2>2 DEF CreateProfile, UpdateProfile, SetActive, SaveConfig,
         AutoActivateCheck, AutoLookup, SaveCheck, SaveRefused, RowsUnchanged
  <2>3. QED
    BY <2>1, <2>2
<1>5. pc'[c] \in {"activate_store", "scoped_write"} =>
        Exists(call[c].p)' \/ call'[c].p \in raced'
  <2>1. ASSUME NEW p \in Profiles, SetActive(c, p)
        PROVE  Exists(call[c].p)'
    <3>1. call'[c].p = p
      BY <2>1 DEF SetActive, Start, Locals
    <3>2. QED
      BY <2>1, <3>1 DEF SetActive, Exists, RowsUnchanged
  <2>2. CASE AutoActivateCheck(c)
    <3>1. CASE Exists(call[c].p)
      BY <2>2, <3>1 DEF AutoActivateCheck, Exists, RowsUnchanged
    <3>2. CASE ~Exists(call[c].p)
      BY <2>2, <3>2 DEF AutoActivateCheck, Return, Goto
    <3>3. QED
      BY <3>1, <3>2
  <2>3. CASE \/ \E p \in Profiles, cfg \in Configs :
                  CreateProfile(c, p, cfg) \/ UpdateProfile(c, p, cfg)
             \/ \E cfg \in Configs : SaveConfig(c, cfg)
    BY <2>3 DEF CreateProfile, UpdateProfile, SaveConfig, Start, Goto
  <2>4. CASE StoreProfile(c) \/ AutoLookup(c) \/ SaveCheck(c) \/ SaveRefused(c)
    BY <2>4 DEF StoreProfile, AutoLookup, SaveCheck, SaveRefused, Goto, Return
  <2>5. QED
    BY <2>1, <2>2, <2>3, <2>4
<1>6. QED
  BY <1>1, <1>2, <1>3, <1>4, <1>5, QuietStep

LEMMA StepInv ==
  ASSUME PlainNames, IInv, [HNext]_hvars
  PROVE  IInv'
<1>1. TypeInv'
  BY TypeStep DEF IInv
<1>2. CASE UNCHANGED hvars
  BY <1>1, <1>2
     DEF hvars, vars, IInv, OverlapRecorded, Overlapping, Deleting, Using,
         WritersRaced, ActiveAccounted, OrphansAccounted, Sweeping, Exists
<1>3. CASE HNext
  <2>1. PICK c \in Clients :
          \/ \E p \in Profiles, cfg \in Configs :
               CreateProfile(c, p, cfg) \/ UpdateProfile(c, p, cfg)
          \/ \E p \in Profiles : DeleteRow(c, p) \/ SetActive(c, p)
          \/ \E cfg \in Configs : SaveConfig(c, cfg)
          \/ \E k \in Kinds : BeginScopedWrite(c, k) \/ DeleteScoped(c, k)
          \/ StoreProfile(c) \/ ListScoped(c) \/ ReadActiveAfterDelete(c)
          \/ ClearActive(c) \/ SetActiveUnconfigured(c)
          \/ AutoActivateCheck(c) \/ StoreActive(c) \/ AutoLookup(c)
          \/ SaveCheck(c) \/ SaveRefused(c) \/ WriteScoped(c)
    BY <1>3 DEF HNext, Next
  <2>2. QED
    BY <1>1, <1>3, <2>1, QuietActions, BeginScopedWriteInv, DeleteRowInv,
       SweepInv, DeleteDoneInv, WriteInv
<1>4. QED
  BY <1>2, <1>3

LEMMA Inductive ==
  ASSUME PlainNames
  PROVE  HSpec => []IInv
<1>1. HInit => IInv
  BY InitInv
<1>2. IInv /\ [HNext]_hvars => IInv'
  BY StepInv
<1>3. QED
  BY <1>1, <1>2, PTL DEF HSpec

(***************************************************************************)
(* For any number of clients: at rest, only a name whose deletion was      *)
(* raced can be active without existing.                                   *)
(***************************************************************************)
THEOREM ActiveContained ==
  ASSUME PlainNames
  PROVE  HSpec => []ActiveRaceContained
<1>1. IInv => ActiveRaceContained
  <2> SUFFICES ASSUME IInv, AllIdle, activeRow # Absent
               PROVE  Exists(activeRow) \/ activeRow \in raced
    BY ActiveNamePlain
       DEF ActiveRaceContained, IInv, TypeInv, HTypeOK
  <2>1. Deleting(activeRow) = {}
    BY DEF AllIdle, Deleting, DeleteStages
  <2>2. QED
    BY <2>1 DEF IInv, ActiveAccounted
<1>2. QED
  BY <1>1, Inductive, PTL

(***************************************************************************)
(* For any number of clients: at rest, only a raced name can own swept     *)
(* settings without existing.                                              *)
(***************************************************************************)
THEOREM OrphansContained ==
  ASSUME PlainNames
  PROVE  HSpec => []OrphansRaceContained
<1>1. IInv => OrphansRaceContained
  BY DEF OrphansRaceContained, AllIdle, IInv, OrphansAccounted, Sweeping
<1>2. QED
  BY <1>1, Inductive, PTL

(***************************************************************************)
(* With a single client nothing is ever raced, so the active profile       *)
(* always exists between calls.                                            *)
(***************************************************************************)
THEOREM OneClientActiveExists ==
  ASSUME PlainNames, \A c, d \in Clients : c = d
  PROVE  HSpec => []ActiveExists
<1>1. raced = {} /\ [HNext]_hvars => (raced = {})'
  BY DEF HNext, hvars, Overlapping, Deleting, Using
<1>2. HSpec => [](raced = {})
  BY <1>1, PTL DEF HSpec, HInit
<1>3. ActiveRaceContained /\ raced = {} => ActiveExists
  BY DEF ActiveRaceContained, ActiveExists
<1>4. QED
  BY <1>2, <1>3, ActiveContained, PTL

(***************************************************************************)
(* A name that was never raced starts without swept settings: whoever owns *)
(* the row in the way is being deleted, which races the creation.          *)
(***************************************************************************)
THEOREM CleanBirth ==
  ASSUME PlainNames
  PROVE  HSpec => BornClean
<1> DEFINE Clean(p) ==
      profile[p] = Absent /\ profile'[p] # Absent =>
        \A k \in SweptKinds : <<k, p>> \notin scoped'
<1>1. ASSUME IInv, HNext
      PROVE  \A p \in Profiles \ raced' : Clean(p)
  <2> SUFFICES ASSUME NEW p \in Profiles, p \notin raced',
                      profile[p] = Absent, profile'[p] # Absent,
                      NEW k \in SweptKinds, <<k, p>> \in scoped'
               PROVE  FALSE
    OBVIOUS
  <2>1. PICK c \in Clients : StoreProfile(c) /\ call[c].p = p
    BY <1>1 DEF HNext, Next, CreateProfile, UpdateProfile, DeleteRow, SetActive,
         SaveConfig, BeginScopedWrite, DeleteScoped, StoreProfile, ListScoped,
         ReadActiveAfterDelete, ClearActive, SetActiveUnconfigured,
         AutoActivateCheck, StoreActive, AutoLookup, SaveCheck, SaveRefused,
         WriteScoped, RowsUnchanged, IInv, TypeInv, HTypeOK, TypeOK
  <2>2. <<k, p>> \in scoped /\ p \in Names /\ p \notin raced
    BY <1>1, <2>1, OverlapKept DEF StoreProfile, Names
  <2>3. PICK d \in Clients : Sweeping(d, <<k, p>>)
    BY <1>1, <2>2 DEF IInv, OrphansAccounted, Exists
  <2>4. d # c /\ d \in Deleting(p) /\ c \in Using(p)
    BY <2>1, <2>3 DEF Sweeping, StoreProfile, Deleting, DeleteStages, Using
  <2>5. QED
    BY <1>1, <2>2, <2>4 DEF IInv, OverlapRecorded, Overlapping
<1>2. IInv /\ [HNext]_hvars => [\A p \in Profiles \ raced' : Clean(p)]_hvars
  BY <1>1
<1>3. QED
  BY <1>2, Inductive, PTL DEF HSpec, BornClean

----------------------------------------------------------------------------
(* One client's calls are the operations of ProfileRegistry.               *)

\* Nobody else has a call in progress.
Alone == TypeInv /\ Lone \in Clients /\ \A d \in Clients \ {Lone} : pc[d] = "idle"

\* What the stages of a lone call know of the rows: a deleted profile is gone, and
\* of its settings only those listed are left; a profile about to be activated is
\* there; a configuration saved without an active profile still finds none; and a
\* setting is written for the active profile.
LoneStage ==
  LET p == call[Lone].p IN
  /\ pc[Lone] \in DeleteStages => profile[p] = Absent
  /\ pc[Lone] = "sweep" =>
       \A s \in scoped : s[1] \in SweptKinds /\ s[2] = p => s[1] \in call[Lone].sweep
  /\ pc[Lone] = "clear_active" =>
       ActiveName = p /\ \A s \in scoped : s[1] \in SweptKinds => s[2] # p
  /\ pc[Lone] \in {"activate_check", "activate_store"} => Exists(p)
  /\ pc[Lone] # "idle" /\ call[Lone].auto =>
       /\ p = AutoName
       /\ pc[Lone] \in {"auto_lookup", "auto_create", "auto_update", "store"} => ActiveName = Unconfigured
       /\ pc[Lone] \notin DeleteStages \cup {"save_check", "scoped_write"}
  /\ pc[Lone] \in {"auto_lookup", "auto_create", "auto_update", "activate_check"} => call[Lone].auto
  /\ pc[Lone] = "scoped_write" => p = ActiveName

LoneInv == TypeInv /\ (solo /\ Clients # {} => Alone /\ LoneStage)

\* How the registry is seen while one client has a call in progress.
LoneView ==
  /\ AbstractActive =
       IF pc[Lone] \in DeleteStages /\ call[Lone].p = ActiveName THEN Unconfigured
       ELSE IF pc[Lone] \in {"activate_check", "activate_store"} /\ call[Lone].auto THEN AutoName
       ELSE ActiveName
  /\ AbstractScoped =
       {s \in scoped : s[1] \in SweptKinds /\ (pc[Lone] \in DeleteStages => s[2] # call[Lone].p)}

LEMMA AloneView == Alone => LoneView
<1> SUFFICES ASSUME Alone PROVE LoneView
  OBVIOUS
<1>1. \A d \in Clients : d # Lone => pc[d] = "idle" /\ call[d] = NoCall
  BY DEF Alone, TypeInv, HTypeOK
<1>2. SomeCall(DeleteStages) = IF pc[Lone] \in DeleteStages THEN {Lone} ELSE {}
  BY <1>1 DEF SomeCall, DeleteStages, Alone
<1>3. (\E c \in Clients : call[c] # NoCall /\ call[c].auto /\ pc[c] \in {"activate_check", "activate_store"})
      <=> call[Lone].auto /\ pc[Lone] \in {"activate_check", "activate_store"}
  BY <1>1 DEF Alone, TypeInv, HTypeOK
<1>4. AbstractScoped =
       {s \in scoped : s[1] \in SweptKinds /\ (pc[Lone] \in DeleteStages => s[2] # call[Lone].p)}
  BY <1>2 DEF AbstractScoped
<1> QED BY <1>2, <1>3, <1>4 DEF LoneView, AbstractActive

LEMMA LoneInit == RacesInit => LoneInv
<1> SUFFICES ASSUME RacesInit PROVE LoneInv
  OBVIOUS
<1>1. TypeInv
  BY TypeInit DEF RacesInit
<1>2. \A c \in Clients : pc[c] = "idle"
  BY DEF RacesInit, HInit, Init
<1>3. Clients # {} => Lone \in Clients
  BY DEF Lone
<1> QED BY <1>1, <1>2, <1>3 DEF LoneInv, Alone, LoneStage, DeleteStages

\* A step of a lone client is one of its own, but for a reset of the active name
\* that any client could have made.
LEMMA LoneActs ==
  ASSUME solo, Alone, RacesNext
  PROVE  LET c == Lone IN
    \/ \E p \in Profiles, cfg \in Configs :
         CreateProfile(c, p, cfg) \/ UpdateProfile(c, p, cfg)
    \/ \E p \in Profiles : DeleteRow(c, p) \/ SetActive(c, p)
    \/ \E cfg \in Configs : SaveConfig(c, cfg)
    \/ \E k \in Kinds : BeginScopedWrite(c, k) \/ DeleteScoped(c, k)
    \/ StoreProfile(c) \/ ListScoped(c) \/ ReadActiveAfterDelete(c) \/ ClearActive(c)
    \/ SetActiveUnconfigured(c)
    \/ AutoActivateCheck(c) \/ StoreActive(c) \/ AutoLookup(c) \/ SaveCheck(c) \/ SaveRefused(c) \/ WriteScoped(c)
<1>1. PICK c \in Clients :
    \/ \E p \in Profiles, cfg \in Configs :
         CreateProfile(c, p, cfg) \/ UpdateProfile(c, p, cfg)
    \/ \E p \in Profiles : DeleteRow(c, p) \/ SetActive(c, p)
    \/ \E cfg \in Configs : SaveConfig(c, cfg)
    \/ \E k \in Kinds : BeginScopedWrite(c, k) \/ DeleteScoped(c, k)
    \/ StoreProfile(c) \/ ListScoped(c) \/ ReadActiveAfterDelete(c) \/ ClearActive(c)
    \/ SetActiveUnconfigured(c)
    \/ AutoActivateCheck(c) \/ StoreActive(c) \/ AutoLookup(c) \/ SaveCheck(c) \/ SaveRefused(c) \/ WriteScoped(c)
  BY Zenon DEF RacesNext, HNext, Next
<1>2. CASE c = Lone
  BY <1>1, <1>2
<1>3. CASE c # Lone
  <2>1. /\ pc[c] = "idle" /\ pc'[c] = "idle" /\ pc \in [Clients -> Stages]
        /\ SetActiveUnconfigured(Lone) \/ ~SetActiveUnconfigured(c)
    BY <1>3 DEF RacesNext, Alone, TypeInv, HTypeOK, TypeOK
  <2>2. \A stage, x : stage # "idle" => ~Start(c, stage, x)
    BY <2>1 DEF Start, Goto
  <2>3. \/ SetActiveUnconfigured(c)
        \/ \E stage, x : stage # "idle" /\ Start(c, stage, x)
    BY <1>1, <2>1 DEF CreateProfile, UpdateProfile, DeleteRow, SetActive, SaveConfig, BeginScopedWrite, DeleteScoped,
       StoreProfile, ListScoped, ReadActiveAfterDelete, ClearActive, AutoActivateCheck, StoreActive, AutoLookup,
       SaveCheck, SaveRefused, WriteScoped
  <2> QED BY <2>1, <2>2, <2>3
<1> QED BY <1>2, <1>3

\* What each transaction of a lone client is to the registry.
LEMMA LoneSteps ==
  ASSUME PlainNames, Alone, LoneStage, LoneView, LoneView', TypeInv',
         NEW c, c = Lone
  PROVE  LET Done == LoneStage' /\ (Registry!Next \/ UNCHANGED Registry!vars) IN
    /\ \A p \in Profiles, cfg \in Configs : CreateProfile(c, p, cfg) \/ UpdateProfile(c, p, cfg) => Done
    /\ \A p \in Profiles : DeleteRow(c, p) \/ SetActive(c, p) => Done
    /\ \A cfg \in Configs : SaveConfig(c, cfg) => Done
    /\ \A k \in Kinds : BeginScopedWrite(c, k) \/ DeleteScoped(c, k) => Done
    /\ StoreProfile(c) \/ ListScoped(c) \/ ReadActiveAfterDelete(c) \/ ClearActive(c) => Done
    /\ SetActiveUnconfigured(c) => Done
    /\ AutoActivateCheck(c) \/ StoreActive(c) \/ AutoLookup(c) \/ SaveCheck(c) \/ SaveRefused(c) => Done
    /\ WriteScoped(c) => Done
<1> DEFINE Done == LoneStage' /\ (Registry!Next \/ UNCHANGED Registry!vars)
<1> USE DEF DeleteStages, Exists, Locals
<1>0. /\ c \in Clients /\ pc \in [Clients -> Stages] /\ call \in [Clients -> Calls \cup {NoCall}]
      /\ profile \in [Profiles -> Configs \cup {Absent}] /\ Absent \notin Configs
      /\ activeRow \in Profiles \cup {Absent} /\ Absent \notin Profiles /\ Unconfigured \notin Profiles
      /\ ActiveName = IF activeRow = Absent THEN Unconfigured ELSE activeRow
      /\ ActiveName' = IF activeRow' = Absent THEN Unconfigured ELSE activeRow'
      /\ activeRow' \in Profiles \cup {Absent}
  <2>1. /\ c \in Clients /\ pc \in [Clients -> Stages] /\ call \in [Clients -> Calls \cup {NoCall}]
        /\ profile \in [Profiles -> Configs \cup {Absent}]
        /\ activeRow \in Profiles \cup {Absent}
        /\ activeRow' \in Profiles \cup {Absent}
    BY DEF Alone, TypeInv, HTypeOK, TypeOK
  <2>2. Absent \notin Configs /\ Absent \notin Profiles /\ Unconfigured \notin Profiles
    BY StoreAssumption DEF Names
  <2> QED BY <2>1, <2>2 DEF ActiveName, PlainNames
<1>start. ASSUME NEW stage, NEW x, Start(c, stage, x), UNCHANGED <<activeRow, scoped>>
      PROVE  pc[c] = "idle" /\ pc'[c] = stage /\ call'[c] = x /\ ActiveName' = ActiveName
  BY <1>0, <1>start DEF Start, Goto
<1>return. ASSUME Return(c) PROVE pc'[c] = "idle" /\ LoneStage'
  BY <1>0, <1>return DEF Return, Goto, LoneStage
<1>1. ASSUME NEW p \in Profiles, NEW cfg \in Configs, CreateProfile(c, p, cfg) \/ UpdateProfile(c, p, cfg)
      PROVE  Done
  <2>1. /\ pc[c] = "idle" /\ pc'[c] = "store" /\ call'[c] = Locals(p, cfg, FALSE, Absent) /\ ActiveName' = ActiveName
        /\ profile' = profile /\ scoped' = scoped
    BY <1>1, <1>start DEF CreateProfile, UpdateProfile, RowsUnchanged
  <2>2. LoneStage'
    BY <2>1 DEF LoneStage
  <2> QED BY <2>1, <2>2 DEF LoneView, Registry!vars
<1>2. ASSUME NEW p \in Profiles, DeleteRow(c, p) PROVE Done
  <2>1. /\ pc[c] = "idle" /\ pc'[c] = "sweep_list" /\ call'[c] = Locals(p, Absent, FALSE, Absent)
        /\ ActiveName' = ActiveName
        /\ profile[p] # Absent /\ profile' = [profile EXCEPT ![p] = Absent] /\ scoped' = scoped
    BY <1>2, <1>start DEF DeleteRow
  <2>2. LoneStage'
    BY <2>1, <1>0 DEF LoneStage
  <2>3. AbstractActive = ActiveName /\ AbstractActive' = IF ActiveName = p THEN Unconfigured ELSE ActiveName
    BY <2>1 DEF LoneView
  <2>4. AbstractScoped' = {s \in AbstractScoped : s[2] # p}
    BY <2>1 DEF LoneView
  <2>5. Registry!Delete(p)
    BY <2>1, <2>3, <2>4 DEF Registry!Delete
  <2> QED BY <2>2, <2>5 DEF Registry!Next
<1>3. ASSUME NEW p \in Profiles, SetActive(c, p) PROVE Done
  <2>1. /\ pc[c] = "idle" /\ pc'[c] = "activate_store" /\ call'[c] = Locals(p, Absent, FALSE, Absent)
        /\ ActiveName' = ActiveName /\ Exists(p)
        /\ profile' = profile /\ scoped' = scoped
    BY <1>3, <1>start DEF SetActive, RowsUnchanged
  <2>2. LoneStage'
    BY <2>1 DEF LoneStage
  <2> QED BY <2>1, <2>2 DEF LoneView, Registry!vars
<1>4. ASSUME NEW cfg \in Configs, SaveConfig(c, cfg) PROVE Done
  <2>1. /\ pc[c] = "idle" /\ ActiveName' = ActiveName /\ profile' = profile /\ scoped' = scoped
        /\ \/ ActiveName = Unconfigured /\ pc'[c] = "auto_lookup" /\ call'[c] = Locals(AutoName, cfg, TRUE, Absent)
           \/ pc'[c] = "save_check" /\ call'[c] = Locals(ActiveName, cfg, FALSE, Absent)
    BY <1>4, <1>start DEF SaveConfig, RowsUnchanged
  <2>2. LoneStage'
    BY <2>1 DEF LoneStage
  <2> QED BY <2>1, <2>2 DEF LoneView, Registry!vars
<1>5. ASSUME NEW k \in Kinds, BeginScopedWrite(c, k) PROVE Done
  <2>1. /\ pc[c] = "idle" /\ pc'[c] = "scoped_write" /\ call'[c] = Locals(ActiveName, Absent, FALSE, k)
        /\ ActiveName' = ActiveName /\ profile' = profile /\ scoped' = scoped
    BY <1>5, <1>start DEF BeginScopedWrite, RowsUnchanged
  <2>2. LoneStage'
    BY <2>1 DEF LoneStage
  <2> QED BY <2>1, <2>2 DEF LoneView, Registry!vars
<1>6. ASSUME NEW k \in Kinds, DeleteScoped(c, k) PROVE Done
  <2>1. /\ pc[c] = "sweep" /\ pc' = pc /\ profile' = profile /\ activeRow' = activeRow
        /\ scoped' = scoped \ {<<k, call[c].p>>} /\ call[c] \in Calls
        /\ call'[c] = [call[c] EXCEPT !.sweep = @ \ {k}] /\ ActiveName' = ActiveName
        /\ call[c].sweep \subseteq SweptKinds /\ k \in call[c].sweep
        /\ scoped \subseteq Kinds \X Names
    BY <1>6, <1>0, CallFields DEF DeleteScoped, Alone, TypeInv, HTypeOK, TypeOK, StageOK
  <2>2. call'[c].p = call[c].p /\ call'[c].auto = call[c].auto /\ call'[c].sweep = call[c].sweep \ {k}
    BY <2>1 DEF Calls
  <2>3. \A s \in scoped' : s[1] \in SweptKinds /\ s[2] = call[c].p => s[1] \in call'[c].sweep
    BY <2>1, <2>2 DEF LoneStage
  <2>4. LoneStage'
    BY <2>1, <2>2, <2>3 DEF LoneStage
  <2>5. AbstractScoped' = AbstractScoped
    BY <2>1, <2>2 DEF LoneView
  <2>6. AbstractActive' = AbstractActive
    BY <2>1, <2>2 DEF LoneView
  <2> QED BY <2>1, <2>4, <2>5, <2>6 DEF Registry!vars
<1>7. ASSUME StoreProfile(c) PROVE Done
  <2>1. /\ pc[c] = "store" /\ activeRow' = activeRow /\ scoped' = scoped /\ ActiveName' = ActiveName
        /\ profile' = [profile EXCEPT ![call[c].p] = call[c].cfg]
        /\ call[c].p \in Profiles /\ call[c].cfg \in Configs /\ call[c].auto \in BOOLEAN
    BY <1>7, <1>0, CallFields DEF StoreProfile, Alone, TypeInv, StageOK
  <2>2. CASE call[c].auto
    <3>1. pc'[c] = "activate_check" /\ call' = call
      BY <2>2, <1>7, <1>0 DEF StoreProfile, Goto
    <3>2. call[c].p = AutoName /\ ActiveName = Unconfigured
      BY <2>1, <2>2 DEF LoneStage
    <3>3. LoneStage'
      BY <2>1, <2>2, <3>1, <3>2, <1>0 DEF LoneStage
    <3>4. AbstractActive = Unconfigured /\ AbstractActive' = AutoName /\ AbstractScoped' = AbstractScoped
      BY <2>1, <2>2, <3>1, <3>2 DEF LoneView
    <3>5. Registry!SaveConfig(call[c].cfg)
      BY <2>1, <3>2, <3>4 DEF Registry!SaveConfig
    <3> QED BY <2>1, <3>3, <3>5 DEF Registry!Next
  <2>3. CASE ~call[c].auto
    <3>1. pc'[c] = "idle" /\ LoneStage'
      BY <2>3, <1>7, <1>return DEF StoreProfile
    <3>2. AbstractActive' = AbstractActive /\ AbstractScoped' = AbstractScoped
      BY <2>1, <3>1 DEF LoneView
    <3>3. Registry!Create(call[c].p, call[c].cfg) \/ Registry!Update(call[c].p, call[c].cfg)
      BY <2>1, <3>2 DEF Registry!Create, Registry!Update
    <3> QED BY <2>1, <3>1, <3>3 DEF Registry!Next
  <2> QED BY <2>1, <2>2, <2>3
<1>8. ASSUME ListScoped(c) PROVE Done
  <2>1. /\ pc[c] = "sweep_list" /\ pc'[c] = "sweep" /\ profile' = profile /\ scoped' = scoped
        /\ ActiveName' = ActiveName /\ call[c] \in Calls
        /\ call'[c] = [call[c] EXCEPT !.sweep = {k \in SweptKinds : <<k, call[c].p>> \in scoped}]
    BY <1>8, <1>0 DEF ListScoped, Goto, RowsUnchanged, Alone, TypeInv, StageOK
  <2>2. /\ call'[c].p = call[c].p /\ call'[c].auto = call[c].auto
        /\ call'[c].sweep = {k \in SweptKinds : <<k, call[c].p>> \in scoped}
    BY <2>1 DEF Calls
  <2>3. \A s \in scoped : s = <<s[1], s[2]>>
    BY DEF Alone, TypeInv, HTypeOK, TypeOK
  <2>4. LoneStage'
    BY <2>1, <2>2, <2>3 DEF LoneStage
  <2>5. AbstractScoped' = AbstractScoped /\ AbstractActive' = AbstractActive
    BY <2>1, <2>2 DEF LoneView
  <2> QED BY <2>1, <2>4, <2>5 DEF Registry!vars
<1>9. ASSUME ReadActiveAfterDelete(c) PROVE Done
  <2>1. /\ pc[c] = "sweep" /\ call[c].sweep = {} /\ profile' = profile /\ scoped' = scoped /\ ActiveName' = ActiveName
    BY <1>9, <1>0 DEF ReadActiveAfterDelete, RowsUnchanged
  <2>2. \A s \in scoped : s[1] \in SweptKinds => s[2] # call[c].p
    BY <2>1 DEF LoneStage
  <2>3. CASE ActiveName = call[c].p
    <3>1. pc'[c] = "clear_active" /\ call' = call
      BY <2>3, <1>9, <1>0 DEF ReadActiveAfterDelete, Goto
    <3>2. LoneStage'
      BY <2>1, <2>2, <2>3, <3>1 DEF LoneStage
    <3> QED BY <2>1, <3>1, <3>2 DEF LoneView, Registry!vars
  <2>4. CASE ActiveName # call[c].p
    <3>1. pc'[c] = "idle" /\ LoneStage'
      BY <2>4, <1>9, <1>return DEF ReadActiveAfterDelete
    <3>2. AbstractActive' = AbstractActive /\ AbstractScoped' = AbstractScoped
      BY <2>1, <2>2, <2>4, <3>1 DEF LoneView
    <3> QED BY <2>1, <3>1, <3>2 DEF Registry!vars
  <2> QED BY <2>3, <2>4
<1>10. ASSUME ClearActive(c) PROVE Done
  <2>1. /\ pc[c] = "clear_active" /\ activeRow' = Absent /\ ActiveName' = Unconfigured /\ profile' = profile
        /\ scoped' = scoped /\ pc'[c] = "idle" /\ LoneStage'
    BY <1>10, <1>return, <1>0 DEF ClearActive
  <2>2. ActiveName = call[c].p /\ \A s \in scoped : s[1] \in SweptKinds => s[2] # call[c].p
    BY <2>1 DEF LoneStage
  <2>3. AbstractActive = Unconfigured /\ AbstractActive' = Unconfigured /\ AbstractScoped' = AbstractScoped
    BY <2>1, <2>2 DEF LoneView
  <2> QED BY <2>1, <2>3 DEF Registry!vars
<1>11. ASSUME SetActiveUnconfigured(c) PROVE Done
  <2>1. /\ pc[c] = "idle" /\ pc' = pc /\ call' = call /\ profile' = profile /\ scoped' = scoped
        /\ ActiveName' = Unconfigured
    BY <1>11, <1>0 DEF SetActiveUnconfigured
  <2>2. LoneStage'
    BY <2>1 DEF LoneStage
  <2>3. AbstractActive' = Unconfigured /\ AbstractScoped' = AbstractScoped
    BY <2>1 DEF LoneView
  <2>4. Registry!Deactivate
    BY <2>1, <2>3 DEF Registry!Deactivate
  <2> QED BY <2>2, <2>4 DEF Registry!Next
<1>12. ASSUME AutoActivateCheck(c) PROVE Done
  <2>1. /\ pc[c] = "activate_check" /\ profile' = profile /\ scoped' = scoped /\ ActiveName' = ActiveName /\ Exists(call[c].p)
    BY <1>12, <1>0 DEF AutoActivateCheck, RowsUnchanged, LoneStage
  <2>2. pc'[c] = "activate_store" /\ call' = call
    BY <2>1, <1>12, <1>0 DEF AutoActivateCheck, Goto
  <2>3. LoneStage'
    BY <2>1, <2>2 DEF LoneStage
  <2> QED BY <2>1, <2>2, <2>3 DEF LoneView, Registry!vars
<1>13. ASSUME StoreActive(c) PROVE Done
  <2>1. /\ pc[c] = "activate_store" /\ activeRow' = call[c].p /\ profile' = profile /\ scoped' = scoped
        /\ pc'[c] = "idle" /\ LoneStage' /\ Exists(call[c].p) /\ call[c].auto \in BOOLEAN
    BY <1>13, <1>return, CallFields DEF StoreActive, LoneStage, Alone, TypeInv, StageOK
  <2>2. ActiveName' = call[c].p
    BY <2>1, <1>0
  <2>3. AbstractActive' = call[c].p /\ AbstractScoped' = AbstractScoped
    BY <2>1, <2>2 DEF LoneView
  <2>4. CASE call[c].auto
    <3>1. call[c].p = AutoName
      BY <2>1, <2>4 DEF LoneStage
    <3> QED BY <2>1, <2>3, <2>4, <3>1 DEF LoneView, Registry!vars
  <2>5. CASE ~call[c].auto
    <3>1. Registry!Activate(call[c].p)
      BY <2>1, <2>3 DEF Registry!Activate
    <3> QED BY <2>1, <3>1 DEF Registry!Next
  <2> QED BY <2>4, <2>5
<1>14. ASSUME AutoLookup(c) PROVE Done
  <2>1. /\ pc[c] = "auto_lookup" /\ pc'[c] \in {"auto_update", "auto_create"} /\ call' = call
        /\ profile' = profile /\ scoped' = scoped /\ ActiveName' = ActiveName
    BY <1>14, <1>0 DEF AutoLookup, Goto, RowsUnchanged
  <2>2. LoneStage'
    BY <2>1 DEF LoneStage
  <2> QED BY <2>1, <2>2 DEF LoneView, Registry!vars
<1>15. ASSUME SaveCheck(c) PROVE Done
  <2>1. /\ pc[c] \in {"save_check", "auto_update", "auto_create"} /\ pc'[c] = "store" /\ call' = call
        /\ profile' = profile /\ scoped' = scoped /\ ActiveName' = ActiveName
    BY <1>15, <1>0 DEF SaveCheck, Goto, RowsUnchanged
  <2>2. LoneStage'
    BY <2>1 DEF LoneStage
  <2> QED BY <2>1, <2>2 DEF LoneView, Registry!vars
<1>16. ASSUME SaveRefused(c) PROVE Done
  <2>1. /\ pc[c] \in {"save_check", "auto_update", "auto_create"} /\ pc'[c] = "idle" /\ LoneStage'
        /\ profile' = profile /\ scoped' = scoped /\ ActiveName' = ActiveName
    BY <1>16, <1>0, <1>return DEF SaveRefused, RowsUnchanged
  <2> QED BY <2>1 DEF LoneView, Registry!vars
<1>17. ASSUME WriteScoped(c) PROVE Done
  <2>1. /\ pc[c] = "scoped_write" /\ pc'[c] = "idle" /\ LoneStage' /\ profile' = profile /\ ActiveName' = ActiveName
        /\ scoped' = scoped \cup {<<call[c].kind, call[c].p>>} /\ call[c].p = ActiveName
    BY <1>17, <1>0, <1>return DEF WriteScoped, LoneStage
  <2>2. AbstractActive = ActiveName /\ AbstractActive' = ActiveName
    BY <2>1 DEF LoneView
  <2>3. CASE call[c].kind \in SweptKinds
    <3>1. AbstractScoped' = AbstractScoped \cup {<<call[c].kind, AbstractActive>>}
      BY <2>1, <2>2, <2>3 DEF LoneView
    <3>2. ActiveName # Unconfigured
      <4>1. call[c].p \in Names
        BY <2>1, CallFields DEF Alone, TypeInv, StageOK
      <4> QED BY <2>1, <4>1, StoreAssumption
    <3>3. Registry!WriteScoped(call[c].kind)
      BY <2>1, <2>2, <3>1, <3>2 DEF Registry!WriteScoped
    <3> QED BY <2>1, <2>3, <3>3 DEF Registry!Next
  <2>4. CASE call[c].kind \notin SweptKinds
    <3>1. AbstractScoped' = AbstractScoped
      BY <2>1, <2>4 DEF LoneView
    <3> QED BY <2>1, <2>2, <3>1 DEF Registry!vars
  <2> QED BY <2>3, <2>4
<1> QED BY <1>1, <1>2, <1>3, <1>4, <1>5, <1>6, <1>7, <1>8, <1>9, <1>10, <1>11, <1>12, <1>13, <1>14, <1>15, <1>16, <1>17

\* A step of a lone client is an operation of the registry or none, and leaves it
\* to account for the next.
LEMMA LoneStep ==
  ASSUME PlainNames, LoneInv, RacesNext
  PROVE  LoneInv' /\ (solo => Registry!Next \/ UNCHANGED Registry!vars)
<1>1. TypeInv' /\ solo' = solo
  BY TypeStep DEF LoneInv, RacesNext
<1>2. CASE ~(solo /\ Clients # {})
  <2>1. solo => FALSE
    <3>1. \E c \in Clients : TRUE
      BY DEF RacesNext, HNext, Next
    <3> QED BY <3>1, <1>2
  <2> QED BY <1>1, <2>1 DEF LoneInv
<1>3. CASE solo /\ Clients # {}
  <2>1. Alone /\ LoneStage
    BY <1>3 DEF LoneInv
  <2>2. Alone'
    BY <1>1, <1>3, <2>1 DEF Alone, RacesNext, Lone
  <2>3. LoneView
    BY <2>1, AloneView
  <2>4. Alone' => LoneView'
    BY AloneView, PTL
  <2>5. LoneStage' /\ (Registry!Next \/ UNCHANGED Registry!vars)
    <3> DEFINE Done == LoneStage' /\ (Registry!Next \/ UNCHANGED Registry!vars)
               c == Lone
    <3> HIDE DEF Done
    <3>1. /\ \A p \in Profiles, cfg \in Configs : CreateProfile(c, p, cfg) \/ UpdateProfile(c, p, cfg) => Done
          /\ \A p \in Profiles : DeleteRow(c, p) \/ SetActive(c, p) => Done
          /\ \A cfg \in Configs : SaveConfig(c, cfg) => Done
          /\ \A k \in Kinds : BeginScopedWrite(c, k) \/ DeleteScoped(c, k) => Done
          /\ StoreProfile(c) \/ ListScoped(c) \/ ReadActiveAfterDelete(c) \/ ClearActive(c) => Done
          /\ SetActiveUnconfigured(c) => Done
          /\ AutoActivateCheck(c) \/ StoreActive(c) \/ AutoLookup(c) \/ SaveCheck(c) \/ SaveRefused(c) => Done
          /\ WriteScoped(c) => Done
      BY <1>1, <2>1, <2>2, <2>3, <2>4, LoneSteps DEF Done
    <3>2. \/ \E p \in Profiles, cfg \in Configs :
               CreateProfile(c, p, cfg) \/ UpdateProfile(c, p, cfg)
          \/ \E p \in Profiles : DeleteRow(c, p) \/ SetActive(c, p)
          \/ \E cfg \in Configs : SaveConfig(c, cfg)
          \/ \E k \in Kinds : BeginScopedWrite(c, k) \/ DeleteScoped(c, k)
          \/ StoreProfile(c) \/ ListScoped(c) \/ ReadActiveAfterDelete(c) \/ ClearActive(c)
          \/ SetActiveUnconfigured(c)
          \/ AutoActivateCheck(c) \/ StoreActive(c) \/ AutoLookup(c) \/ SaveCheck(c) \/ SaveRefused(c) \/ WriteScoped(c)
      BY <1>3, <2>1, LoneActs
    <3> HIDE DEF c
    <3>3. Done
      BY <3>1, <3>2, Zenon
    <3> QED BY <3>3 DEF Done
  <2> QED BY <1>1, <2>2, <2>5 DEF LoneInv
<1> QED BY <1>2, <1>3

\* While only one client calls, the transactions its calls are made of add up to
\* the atomic operations of ProfileRegistry: from the outside the store cannot be
\* told from one that saves, deletes and activates a profile in one step
\* (ProfileMixin, profiles.py:79-209).
THEOREM LoneImplements == ASSUME PlainNames PROVE RacesSpec => LoneImplementsRegistry
<1>1. RacesInit => LoneInv
  BY LoneInit
<1>2. LoneInv /\ [RacesNext]_allVars => LoneInv'
  <2>1. LoneInv /\ UNCHANGED allVars => LoneInv'
    BY DEF allVars, hvars, vars, LoneInv, Alone, LoneStage, TypeInv, HTypeOK, TypeOK, StageOK,
       ActiveName, Exists
  <2> QED BY <2>1, LoneStep
<1>3. LoneInv /\ RacesNext => (solo => Registry!Next \/ UNCHANGED Registry!vars)
  BY LoneStep
<1>4. RacesInit => (solo => Registry!Init)
  <2> SUFFICES ASSUME RacesInit, solo PROVE Registry!Init
    OBVIOUS
  <2>1. ActiveName = Unconfigured /\ scoped = {} /\ \A c \in Clients : pc[c] = "idle" /\ call[c] = NoCall
    BY DEF RacesInit, HInit, Init, ActiveName
  <2>2. SomeCall(DeleteStages) = {}
    BY <2>1 DEF SomeCall, DeleteStages
  <2>3. AbstractActive = Unconfigured /\ AbstractScoped = {}
    BY <2>1, <2>2 DEF AbstractActive, AbstractScoped
  <2> QED BY <2>3 DEF RacesInit, HInit, Init, Registry!Init
<1>5. QED
  BY <1>1, <1>2, <1>3, <1>4, PTL DEF RacesSpec, LoneImplementsRegistry

============================================================================
