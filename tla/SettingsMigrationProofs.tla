----------------------- MODULE SettingsMigrationProofs -----------------------
(***************************************************************************)
(* Proofs about SettingsMigration.  That a serving process leaves nothing  *)
(* unmigrated holds for any number of processes; that no value and no edit *)
(* is lost holds for a process that migrates alone, which is why the       *)
(* second part assumes that all migrators are one.                         *)
(***************************************************************************)
EXTENDS MCSettingsMigration, TLAPS

Moving == {"read_global", "write_scoped", "drop_global"}

MigratedLegacy == Moving \union {"read_active", "list", "item", "serving"}

\* Once a migrator is past the legacy row, the row is gone for good.
LegacyGone == \A m \in Migrators : pc[m] \in MigratedLegacy => legacyRow = Absent

\* A migrator's listing covers every unscoped row that is left.
ListingCovers ==
  \A m \in Migrators : pc[m] \in Moving \union {"item"} =>
    /\ local[m].active \in Profiles
    /\ \A i \in Items : global[i] # Absent => i \in local[m].todo

ItemListed ==
  \A m \in Migrators : pc[m] \in Moving => local[m].item \in local[m].todo

HoldsName ==
  \A m \in Migrators :
    /\ pc[m] = "list" => local[m].active \in Profiles
    /\ pc[m] \in {"store", "activate"} => local[m].legacy \in Profiles

Progress == LegacyGone /\ ListingCovers /\ ItemListed /\ HoldsName
              /\ ServedMigrated

IInv == TypeOK /\ Progress

USE MigrationAssumption DEF Moving, MigratedLegacy

-----------------------------------------------------------------------------
(* How a step changes the control state.                                   *)

\* Each way the code updates the locals of one migrator keeps them typed.
LEMMA LocalsUpdated ==
  /\ NoLocals \in Locals
  /\ \A q \in Profiles \union {Unconfigured, Absent} :
       [NoLocals EXCEPT !.legacy = q] \in Locals
  /\ \A x \in Locals :
       /\ \A q \in Profiles \union {Absent} : [x EXCEPT !.active = q] \in Locals
       /\ \A I \in SUBSET Items : [x EXCEPT !.todo = I] \in Locals
       /\ \A i \in Items : [x EXCEPT !.item = i] \in Locals
       /\ \A v \in {"old", "none"} : [x EXCEPT !.value = v] \in Locals
  BY DEF Locals, NoLocals

\* One migrator moves; the others stay where they are.
LEMMA OneMoves ==
  ASSUME TypeOK, NEW m \in Migrators, NEW stage \in Stages, Goto(m, stage)
  PROVE  /\ pc' \in [Migrators -> Stages]
         /\ pc'[m] = stage
         /\ \A n \in Migrators : n # m => pc'[n] = pc[n]
  BY DEF TypeOK, Goto

\* One migrator's locals change; those of the others do not.
LEMMA OneChanges ==
  ASSUME TypeOK, NEW m \in Migrators, NEW x \in Locals,
         local' = [local EXCEPT ![m] = x]
  PROVE  /\ local' \in [Migrators -> Locals]
         /\ local'[m] = x
         /\ \A n \in Migrators : n # m => local'[n] = local[n]
  BY DEF TypeOK

-----------------------------------------------------------------------------
(* The invariant.                                                          *)

\* The initial states satisfy it.
LEMMA InitIInv == Init => IInv
<1> SUFFICES ASSUME Init PROVE IInv
  OBVIOUS
<1>1. TypeOK
  <2>1. /\ legacyRow \in Profiles \union {Unconfigured, Absent}
        /\ activeRow \in Profiles \union {Absent}
        /\ global \in [Items -> {"old", Absent}]
    BY DEF Init
  <2>2. profileRow \in [Profiles -> {"old", "user", Absent}]
    BY DEF Init
  <2>3. scoped \in [Profiles -> [Items -> Values]]
    BY DEF Init, Values
  <2>4. pc \in [Migrators -> Stages]
    BY DEF Init, Stages
  <2>5. local \in [Migrators -> Locals]
    BY LocalsUpdated DEF Init
  <2>6. spent \in [crashes : 0 .. MaxCrashes, edits : 0 .. MaxEdits]
    BY DEF Init
  <2> QED
    BY <2>1, <2>2, <2>3, <2>4, <2>5, <2>6 DEF TypeOK
<1>2. Progress
  BY DEF Init, Progress, LegacyGone, ListingCovers, ItemListed, HoldsName,
     ServedMigrated
<1> QED
  BY <1>1, <1>2 DEF IInv

\* Every step preserves it.
LEMMA NextIInv == IInv /\ [Next]_vars => IInv'
<1> SUFFICES ASSUME IInv, [Next]_vars PROVE IInv'
  OBVIOUS
<1> USE DEF IInv
<1>1. ASSUME NEW m \in Migrators, ReadLegacy(m) PROVE IInv'
  <2> DEFINE x == [NoLocals EXCEPT !.legacy = legacyRow]
             stage == CASE legacyRow = Absent -> "read_active"
                        [] legacyRow = Unconfigured -> "drop_legacy"
                        [] legacyRow \in Profiles -> "store"
  <2>1. x \in Locals /\ stage \in Stages /\ x.legacy = legacyRow
    BY LocalsUpdated DEF TypeOK, Stages, NoLocals
  <2>2. /\ stage \notin {"list", "item", "serving", "activate"} \union Moving
        /\ stage = "read_active" => legacyRow = Absent
        /\ stage = "store" => legacyRow \in Profiles
    BY DEF TypeOK
  <2>3. Goto(m, stage) /\ local' = [local EXCEPT ![m] = x]
    BY <1>1 DEF ReadLegacy
  <2> HIDE DEF x, stage
  <2>4. /\ pc' \in [Migrators -> Stages] /\ pc'[m] = stage
        /\ \A n \in Migrators : n # m => pc'[n] = pc[n]
    BY <1>1, <2>1, <2>3, OneMoves DEF ReadLegacy
  <2>5. /\ local' \in [Migrators -> Locals] /\ local'[m] = x
        /\ \A n \in Migrators : n # m => local'[n] = local[n]
    BY <2>1, <2>3, OneChanges
  <2>6. TypeOK'
    BY <1>1, <2>4, <2>5 DEF TypeOK, ReadLegacy
  <2>7. LegacyGone' /\ HoldsName' /\ ServedMigrated'
    BY <1>1, <2>1, <2>2, <2>4, <2>5 DEF ReadLegacy, Progress, LegacyGone, HoldsName,
       ServedMigrated
  <2>8. ListingCovers' /\ ItemListed'
    BY <1>1, <2>1, <2>2, <2>4, <2>5 DEF ReadLegacy, Progress, ListingCovers,
       ItemListed
  <2> QED
    BY <2>6, <2>7, <2>8 DEF Progress
<1>2. ASSUME NEW m \in Migrators, StoreLegacy(m) PROVE IInv'
  <2>1. "activate" \in Stages /\ local[m].legacy \in Profiles
    BY <1>2 DEF Stages, StoreLegacy, Progress, HoldsName
  <2>2. TypeOK'
    BY <1>2, <2>1, OneMoves DEF TypeOK, StoreLegacy
  <2>3. Progress'
    BY <1>2, <2>1, OneMoves DEF StoreLegacy, Progress, LegacyGone,
       ListingCovers, ItemListed, HoldsName, ServedMigrated
  <2> QED
    BY <2>2, <2>3
<1>3. ASSUME NEW m \in Migrators, ActivateLegacy(m) PROVE IInv'
  <2>1. "drop_legacy" \in Stages /\ local[m].legacy \in Profiles
    BY <1>3 DEF Stages, ActivateLegacy, Progress, HoldsName
  <2>2. TypeOK'
    BY <1>3, <2>1, OneMoves DEF TypeOK, ActivateLegacy
  <2>3. Progress'
    BY <1>3, <2>1, OneMoves DEF ActivateLegacy, Progress, LegacyGone,
       ListingCovers, ItemListed, HoldsName, ServedMigrated
  <2> QED
    BY <2>2, <2>3
<1>4. ASSUME NEW m \in Migrators, DropLegacy(m) PROVE IInv'
  <2>1. "read_active" \in Stages
    BY DEF Stages
  <2>2. TypeOK'
    BY <1>4, <2>1, OneMoves DEF TypeOK, DropLegacy
  <2>3. Progress'
    BY <1>4, <2>1, OneMoves DEF DropLegacy, Progress, LegacyGone,
       ListingCovers, ItemListed, HoldsName, ServedMigrated
  <2> QED
    BY <2>2, <2>3
<1>5. ASSUME NEW m \in Migrators, ReadActive(m) PROVE IInv'
  <2> DEFINE x == [local[m] EXCEPT !.active = activeRow]
             stage == IF activeRow = Absent THEN "serving" ELSE "list"
  <2>1. /\ x \in Locals /\ stage \in Stages /\ x.active = activeRow
    <3>1. local[m] \in Locals /\ activeRow \in Profiles \union {Absent}
      BY DEF TypeOK
    <3>2. x \in Locals
      BY <3>1, LocalsUpdated
    <3>3. x.active = activeRow
      BY <3>1 DEF Locals
    <3> QED
      BY <3>2, <3>3 DEF Stages
  <2>2. /\ stage = "serving" => x.active = Absent
        /\ stage = "list" => x.active \in Profiles
        /\ stage \in {"serving", "list"}
    BY <2>1 DEF TypeOK
  <2>3. Goto(m, stage) /\ local' = [local EXCEPT ![m] = x]
    BY <1>5 DEF ReadActive
  <2> HIDE DEF x, stage
  <2>4. /\ pc' \in [Migrators -> Stages] /\ pc'[m] = stage
        /\ \A n \in Migrators : n # m => pc'[n] = pc[n]
    BY <1>5, <2>1, <2>3, OneMoves DEF ReadActive
  <2>5. /\ local' \in [Migrators -> Locals] /\ local'[m] = x
        /\ \A n \in Migrators : n # m => local'[n] = local[n]
    BY <2>1, <2>3, OneChanges
  <2>6. TypeOK'
    BY <1>5, <2>4, <2>5 DEF TypeOK, ReadActive
  <2>7. LegacyGone' /\ HoldsName' /\ ServedMigrated'
    BY <1>5, <2>1, <2>2, <2>4, <2>5 DEF ReadActive, Progress, LegacyGone, HoldsName,
       ServedMigrated
  <2>8. ListingCovers' /\ ItemListed'
    BY <1>5, <2>1, <2>2, <2>4, <2>5 DEF ReadActive, Progress, ListingCovers,
       ItemListed
  <2> QED
    BY <2>6, <2>7, <2>8 DEF Progress
<1>6. ASSUME NEW m \in Migrators, ListGlobal(m) PROVE IInv'
  <2> DEFINE I == {i \in Items : global[i] # Absent}
             x == [local[m] EXCEPT !.todo = I]
  <2>1. /\ x \in Locals /\ "item" \in Stages
        /\ x.active = local[m].active /\ x.todo = I
    <3>1. local[m] \in Locals
      BY DEF TypeOK
    <3>2. x \in Locals
      BY <3>1, LocalsUpdated
    <3>3. x.active = local[m].active /\ x.todo = I
      BY <3>1 DEF Locals
    <3> QED
      BY <3>2, <3>3 DEF Stages
  <2>2. local' = [local EXCEPT ![m] = x]
    BY <1>6 DEF ListGlobal
  <2> HIDE DEF x
  <2>3. /\ pc' \in [Migrators -> Stages] /\ pc'[m] = "item"
        /\ \A n \in Migrators : n # m => pc'[n] = pc[n]
    BY <1>6, <2>1, <2>2, OneMoves DEF ListGlobal
  <2>4. /\ local' \in [Migrators -> Locals] /\ local'[m] = x
        /\ \A n \in Migrators : n # m => local'[n] = local[n]
    BY <2>1, <2>2, OneChanges
  <2>5. TypeOK'
    BY <1>6, <2>3, <2>4 DEF TypeOK, ListGlobal
  <2>6. LegacyGone' /\ HoldsName' /\ ServedMigrated'
    BY <1>6, <2>1, <2>3, <2>4 DEF ListGlobal, Progress, LegacyGone, HoldsName,
       ServedMigrated
  <2>7. \A i \in Items : global[i] # Absent => i \in I
    OBVIOUS
  <2> HIDE DEF I
  <2>8. ListingCovers'
    BY <1>6, <2>1, <2>3, <2>4, <2>7 DEF ListGlobal, Progress, ListingCovers,
       HoldsName
  <2>9. ItemListed'
    BY <1>6, <2>3, <2>4 DEF Progress, ItemListed
  <2> QED
    BY <2>5, <2>6, <2>8, <2>9 DEF Progress
<1>7. ASSUME NEW m \in Migrators, NEW i \in Items, CheckScoped(m, i)
      PROVE  IInv'
  <2> DEFINE x == [local[m] EXCEPT !.item = i]
             stage == IF scoped[local[m].active][i] # Absent
                      THEN "drop_global" ELSE "read_global"
  <2>1. /\ x \in Locals /\ stage \in Stages /\ stage \in Moving
        /\ x.active = local[m].active /\ x.todo = local[m].todo /\ x.item = i
    <3>1. local[m] \in Locals
      BY DEF TypeOK
    <3>2. x \in Locals
      BY <3>1, LocalsUpdated
    <3>3. x.active = local[m].active /\ x.todo = local[m].todo /\ x.item = i
      BY <3>1 DEF Locals
    <3> QED
      BY <3>2, <3>3 DEF Stages
  <2>2. Goto(m, stage) /\ local' = [local EXCEPT ![m] = x]
    BY <1>7 DEF CheckScoped
  <2> HIDE DEF x, stage
  <2>3. /\ pc' \in [Migrators -> Stages] /\ pc'[m] = stage
        /\ \A n \in Migrators : n # m => pc'[n] = pc[n]
    BY <1>7, <2>1, <2>2, OneMoves DEF CheckScoped
  <2>4. /\ local' \in [Migrators -> Locals] /\ local'[m] = x
        /\ \A n \in Migrators : n # m => local'[n] = local[n]
    BY <2>1, <2>2, OneChanges
  <2>5. TypeOK'
    BY <1>7, <2>3, <2>4 DEF TypeOK, CheckScoped
  <2>6. LegacyGone' /\ HoldsName' /\ ServedMigrated'
    BY <1>7, <2>1, <2>3, <2>4 DEF CheckScoped, Progress, LegacyGone, HoldsName,
       ServedMigrated
  <2>7. ListingCovers' /\ ItemListed'
    BY <1>7, <2>1, <2>3, <2>4 DEF CheckScoped, Progress, ListingCovers,
       ItemListed
  <2> QED
    BY <2>5, <2>6, <2>7 DEF Progress
<1>8. ASSUME NEW m \in Migrators, ReadGlobal(m) PROVE IInv'
  <2> DEFINE v == IF global[local[m].item] = Absent THEN "none" ELSE "old"
             x == [local[m] EXCEPT !.value = v]
  <2>1. /\ x \in Locals /\ "write_scoped" \in Stages
        /\ x.active = local[m].active /\ x.todo = local[m].todo
        /\ x.item = local[m].item
    <3>1. local[m] \in Locals /\ v \in {"old", "none"}
      BY DEF TypeOK
    <3>2. x \in Locals
      BY <3>1, LocalsUpdated
    <3>3. /\ x.active = local[m].active /\ x.todo = local[m].todo
          /\ x.item = local[m].item
      BY <3>1 DEF Locals
    <3> QED
      BY <3>2, <3>3 DEF Stages
  <2>2. local' = [local EXCEPT ![m] = x]
    BY <1>8 DEF ReadGlobal
  <2> HIDE DEF x
  <2>3. /\ pc' \in [Migrators -> Stages] /\ pc'[m] = "write_scoped"
        /\ \A n \in Migrators : n # m => pc'[n] = pc[n]
    BY <1>8, <2>1, <2>2, OneMoves DEF ReadGlobal
  <2>4. /\ local' \in [Migrators -> Locals] /\ local'[m] = x
        /\ \A n \in Migrators : n # m => local'[n] = local[n]
    BY <2>1, <2>2, OneChanges
  <2>5. TypeOK'
    BY <1>8, <2>3, <2>4 DEF TypeOK, ReadGlobal
  <2>6. LegacyGone' /\ HoldsName' /\ ServedMigrated'
    BY <1>8, <2>1, <2>3, <2>4 DEF ReadGlobal, Progress, LegacyGone, HoldsName,
       ServedMigrated
  <2>7. ListingCovers' /\ ItemListed'
    BY <1>8, <2>1, <2>3, <2>4 DEF ReadGlobal, Progress, ListingCovers,
       ItemListed
  <2> QED
    BY <2>5, <2>6, <2>7 DEF Progress
<1>9. ASSUME NEW m \in Migrators, WriteScoped(m) PROVE IInv'
  <2>1. /\ "drop_global" \in Stages
        /\ local[m].active \in Profiles
        /\ local[m].item \in local[m].todo
        /\ local[m] \in Locals
    BY <1>9 DEF Stages, WriteScoped, TypeOK, Progress, ListingCovers, ItemListed
  <2>2. local[m].item \in Items /\ local[m].value \in Values
    BY <2>1 DEF Locals, Values
  <2>3. scoped' \in [Profiles -> [Items -> Values]]
    BY <1>9, <2>1, <2>2 DEF WriteScoped, TypeOK
  <2>4. TypeOK'
    BY <1>9, <2>1, <2>3, OneMoves DEF TypeOK, WriteScoped
  <2>5. Progress'
    BY <1>9, <2>1, OneMoves DEF WriteScoped, Progress, LegacyGone,
       ListingCovers, ItemListed, HoldsName, ServedMigrated
  <2> QED
    BY <2>4, <2>5
<1>10. ASSUME NEW m \in Migrators, DropGlobal(m) PROVE IInv'
  <2> DEFINE i == local[m].item
             x == [local[m] EXCEPT !.todo = @ \ {i}]
  <2>1. /\ "item" \in Stages /\ local[m] \in Locals
        /\ i \in local[m].todo /\ i \in Items
    BY <1>10 DEF Stages, DropGlobal, TypeOK, Progress, ItemListed, Locals
  <2>2. /\ x \in Locals /\ x.active = local[m].active
        /\ x.todo = local[m].todo \ {i}
    BY <2>1, LocalsUpdated DEF Locals
  <2>3. local' = [local EXCEPT ![m] = x]
    BY <1>10 DEF DropGlobal
  <2>4. /\ global' \in [Items -> {"old", Absent}] /\ global'[i] = Absent
        /\ \A j \in Items : j # i => global'[j] = global[j]
    BY <1>10, <2>1 DEF DropGlobal, TypeOK
  <2> HIDE DEF x
  <2>5. TypeOK'
    BY <1>10, <2>1, <2>2, <2>3, <2>4, OneMoves, OneChanges
    DEF TypeOK, DropGlobal
  <2>6. LegacyGone' /\ HoldsName' /\ ServedMigrated'
    BY <1>10, <2>1, <2>2, <2>3, <2>4, OneMoves, OneChanges DEF DropGlobal,
       Progress, LegacyGone, HoldsName, ServedMigrated
  <2>7. ListingCovers'
    BY <1>10, <2>1, <2>2, <2>3, <2>4, OneMoves, OneChanges DEF DropGlobal,
       Progress, ListingCovers
  <2>8. ItemListed'
    BY <1>10, <2>1, <2>2, <2>3, OneMoves, OneChanges DEF DropGlobal, Progress,
       ItemListed
  <2> QED
    BY <2>5, <2>6, <2>7, <2>8 DEF Progress
<1>11. ASSUME NEW m \in Migrators, Finish(m) PROVE IInv'
  <2>1. "serving" \in Stages
    BY DEF Stages
  <2>2. TypeOK'
    BY <1>11, <2>1, OneMoves DEF TypeOK, Finish
  <2>3. Progress'
    BY <1>11, <2>1, OneMoves DEF Finish, Progress, LegacyGone, ListingCovers,
       ItemListed, HoldsName, ServedMigrated
  <2> QED
    BY <2>2, <2>3
<1>12. ASSUME NEW m \in Migrators, Crash(m) PROVE IInv'
  <2>1. "down" \in Stages /\ NoLocals \in Locals
    BY LocalsUpdated DEF Stages
  <2>2. spent' \in [crashes : 0 .. MaxCrashes, edits : 0 .. MaxEdits]
    BY <1>12 DEF Crash, TypeOK
  <2>3. TypeOK'
    BY <1>12, <2>1, <2>2, OneMoves, OneChanges DEF TypeOK, Crash
  <2>4. Progress'
    BY <1>12, <2>1, OneMoves, OneChanges DEF Crash, Progress, LegacyGone,
       ListingCovers, ItemListed, HoldsName, ServedMigrated
  <2> QED
    BY <2>3, <2>4
<1>13. CASE Edit
  <2>1. spent' \in [crashes : 0 .. MaxCrashes, edits : 0 .. MaxEdits]
    BY <1>13 DEF Edit, TypeOK
  <2>2. scoped' \in [Profiles -> [Items -> Values]]
    <3>1. CASE scoped' = scoped
      BY <3>1 DEF TypeOK
    <3>2. ASSUME activeRow # Absent, NEW i \in Items,
                 scoped' = [scoped EXCEPT ![activeRow][i] = "user"]
          PROVE  scoped' \in [Profiles -> [Items -> Values]]
      <4>1. activeRow \in Profiles /\ "user" \in Values
        BY <3>2 DEF TypeOK, Values
      <4> QED
        BY <3>2, <4>1 DEF TypeOK
    <3> QED
      BY <1>13, <3>1, <3>2 DEF Edit
  <2>3. profileRow' \in [Profiles -> {"old", "user", Absent}]
    BY <1>13 DEF Edit, TypeOK
  <2>4. TypeOK'
    BY <1>13, <2>1, <2>2, <2>3 DEF TypeOK, Edit
  <2>5. Progress'
    BY <1>13 DEF Edit, Progress, LegacyGone, ListingCovers, ItemListed,
       HoldsName, ServedMigrated
  <2> QED
    BY <2>4, <2>5
<1>14. CASE UNCHANGED vars
  BY <1>14 DEF vars, TypeOK, Progress, LegacyGone, ListingCovers, ItemListed,
     HoldsName, ServedMigrated
<1> QED
  BY <1>1, <1>2, <1>3, <1>4, <1>5, <1>6, <1>7, <1>8, <1>9, <1>10, <1>11, <1>12,
     <1>13, <1>14 DEF Next, Migrate

\* The invariant holds throughout.
LEMMA InvariantHolds == Spec => []IInv
  BY InitIInv, NextIInv, PTL DEF Spec

(***************************************************************************)
(* For any number of processes, profiles and settings, and any number of   *)
(* crashes: a process that serves has no legacy row and, if it found an    *)
(* active profile, no unscoped setting before it.                          *)
(***************************************************************************)
THEOREM ServedIsMigrated == Spec => []ServedMigrated
<1>1. IInv => ServedMigrated
  BY DEF IInv, Progress
<1> QED
  BY <1>1, InvariantHolds, PTL

-----------------------------------------------------------------------------
(* One migrator.                                                           *)

Alone == \A m, n \in Migrators : m = n

\* No process but w has started.
Lone(w) == \A m \in Migrators : m # w => pc[m] = "down"

\* An administrator can only have edited a database without legacy row.
NoEditBefore ==
  legacyRow # Absent => \A p \in Profiles : profileRow[p] # "user"

HoldsLegacy ==
  \A m \in Migrators :
    pc[m] \in {"store", "activate", "drop_legacy"} => legacyRow # Absent

\* What is listed is still there.
StillThere ==
  \A m \in Migrators : pc[m] \in Moving \union {"item"} =>
    \A i \in local[m].todo : global[i] = "old"

\* What the copy of one item has reached at each stage.
CopyStage ==
  \A m \in Migrators :
    LET row == scoped[local[m].active][local[m].item]
    IN  /\ pc[m] \in {"read_global", "write_scoped"} => row = Absent
        /\ pc[m] = "write_scoped" => local[m].value = "old"
        /\ pc[m] = "drop_global" => row \in {"old", "user"}

NoneNever ==
  \A p \in Profiles, i \in Items : scoped[p][i] # "none"

AloneInv == NoEditBefore /\ HoldsLegacy /\ StillThere /\ CopyStage /\ NoneNever

\* Initially nothing has been copied.
LEMMA InitAlone == Init => AloneInv
  BY DEF Init, AloneInv, NoEditBefore, HoldsLegacy, StillThere, CopyStage,
     NoneNever

\* Until its migration is over, a lone migrator is the only one to act, and
\* only its own writes touch the rows it works on.
LEMMA NextAlone ==
  ASSUME NEW w, Lone(w), Lone(w)', IInv, AloneInv, [Next]_vars
  PROVE  AloneInv'
<1> USE DEF Lone, IInv, AloneInv
<1>1. ASSUME NEW m \in Migrators, ReadLegacy(m) PROVE AloneInv'
  <2> DEFINE stage == CASE legacyRow = Absent -> "read_active"
                        [] legacyRow = Unconfigured -> "drop_legacy"
                        [] legacyRow \in Profiles -> "store"
  <2>1. /\ stage \in {"read_active", "drop_legacy", "store"}
        /\ stage # "read_active" => legacyRow # Absent
    BY DEF TypeOK
  <2>2. Goto(m, stage) /\ stage \in Stages
    BY <1>1, <2>1 DEF ReadLegacy, Stages
  <2> HIDE DEF stage
  <2>3. pc'[m] = stage /\ \A n \in Migrators : n # m => pc'[n] = "down"
    BY <2>1, <2>2, OneMoves
  <2> QED
    BY <1>1, <2>1, <2>3 DEF ReadLegacy, NoEditBefore, HoldsLegacy, StillThere,
       CopyStage, NoneNever
<1>2. ASSUME NEW m \in Migrators, StoreLegacy(m) PROVE AloneInv'
  <2>1. pc'[m] = "activate" /\ \A n \in Migrators : n # m => pc'[n] = "down"
    BY <1>2, OneMoves DEF StoreLegacy, Stages
  <2>2. legacyRow # Absent /\ \A p \in Profiles : profileRow'[p] # "user"
    BY <1>2 DEF StoreLegacy, HoldsLegacy, NoEditBefore, TypeOK
  <2> QED
    BY <1>2, <2>1, <2>2 DEF StoreLegacy, NoEditBefore, HoldsLegacy, StillThere,
       CopyStage, NoneNever
<1>3. ASSUME NEW m \in Migrators, ActivateLegacy(m) PROVE AloneInv'
  <2>1. pc'[m] = "drop_legacy" /\ \A n \in Migrators : n # m => pc'[n] = "down"
    BY <1>3, OneMoves DEF ActivateLegacy, Stages
  <2> QED
    BY <1>3, <2>1 DEF ActivateLegacy, NoEditBefore, HoldsLegacy, StillThere,
       CopyStage, NoneNever
<1>4. ASSUME NEW m \in Migrators, DropLegacy(m) PROVE AloneInv'
  <2>1. pc'[m] = "read_active" /\ \A n \in Migrators : n # m => pc'[n] = "down"
    BY <1>4, OneMoves DEF DropLegacy, Stages
  <2> QED
    BY <1>4, <2>1 DEF DropLegacy, NoEditBefore, HoldsLegacy, StillThere,
       CopyStage, NoneNever
<1>5. ASSUME NEW m \in Migrators, ReadActive(m) PROVE AloneInv'
  <2> DEFINE stage == IF activeRow = Absent THEN "serving" ELSE "list"
  <2>1. stage \in Stages /\ stage \in {"serving", "list"}
    BY DEF Stages
  <2>2. Goto(m, stage)
    BY <1>5 DEF ReadActive
  <2> HIDE DEF stage
  <2>3. pc'[m] = stage /\ \A n \in Migrators : n # m => pc'[n] = "down"
    BY <2>1, <2>2, OneMoves
  <2> QED
    BY <1>5, <2>1, <2>3 DEF ReadActive, NoEditBefore, HoldsLegacy, StillThere,
       CopyStage, NoneNever
<1>6. ASSUME NEW m \in Migrators, ListGlobal(m) PROVE AloneInv'
  <2> DEFINE I == {i \in Items : global[i] # Absent}
  <2>1. pc'[m] = "item" /\ \A n \in Migrators : n # m => pc'[n] = "down"
    BY <1>6, OneMoves DEF ListGlobal, Stages
  <2>2. local'[m].todo = I
    BY <1>6 DEF ListGlobal, TypeOK, Locals
  <2>3. \A i \in I : global[i] = "old"
    BY DEF TypeOK
  <2> HIDE DEF I
  <2> QED
    BY <1>6, <2>1, <2>2, <2>3 DEF ListGlobal, NoEditBefore, HoldsLegacy,
       StillThere, CopyStage, NoneNever
<1>7. ASSUME NEW m \in Migrators, NEW i \in Items, CheckScoped(m, i)
      PROVE  AloneInv'
  <2> DEFINE row == scoped[local[m].active][i]
             stage == IF row # Absent THEN "drop_global" ELSE "read_global"
  <2>1. stage \in Stages /\ Goto(m, stage)
    BY <1>7 DEF CheckScoped, Stages
  <2>2. row \in Values /\ row # "none"
    BY <1>7 DEF CheckScoped, Progress, ListingCovers, TypeOK, NoneNever
  <2>3. /\ stage \in {"drop_global", "read_global"}
        /\ stage = "read_global" => row = Absent
        /\ stage = "drop_global" => row \in {"old", "user"}
    BY <2>2 DEF Values
  <2> HIDE DEF stage
  <2>4. pc'[m] = stage /\ \A n \in Migrators : n # m => pc'[n] = "down"
    BY <1>7, <2>1, <2>3, OneMoves DEF CheckScoped
  <2>5. /\ local'[m].todo = local[m].todo /\ local'[m].item = i
        /\ local'[m].active = local[m].active
    BY <1>7 DEF CheckScoped, TypeOK, Locals
  <2>6. NoEditBefore' /\ HoldsLegacy' /\ NoneNever'
    BY <1>7, <2>3, <2>4 DEF CheckScoped, NoEditBefore, HoldsLegacy, NoneNever
  <2>7. StillThere'
    BY <1>7, <2>5 DEF CheckScoped, StillThere
  <2>8. scoped'[local'[m].active][local'[m].item] = row
    BY <1>7, <2>5 DEF CheckScoped
  <2> HIDE DEF row
  <2>9. CopyStage'
    BY <2>3, <2>4, <2>8 DEF CopyStage
  <2> QED
    BY <2>6, <2>7, <2>9
<1>8. ASSUME NEW m \in Migrators, ReadGlobal(m) PROVE AloneInv'
  <2>1. pc'[m] = "write_scoped" /\ \A n \in Migrators : n # m => pc'[n] = "down"
    BY <1>8, OneMoves DEF ReadGlobal, Stages
  <2>2. global[local[m].item] = "old"
    BY <1>8 DEF ReadGlobal, Progress, ItemListed, StillThere
  <2>3. /\ local'[m].todo = local[m].todo /\ local'[m].item = local[m].item
        /\ local'[m].active = local[m].active /\ local'[m].value = "old"
    BY <1>8, <2>2 DEF ReadGlobal, TypeOK, Locals
  <2>4. NoEditBefore' /\ HoldsLegacy' /\ NoneNever'
    BY <1>8, <2>1 DEF ReadGlobal, NoEditBefore, HoldsLegacy, NoneNever
  <2>5. StillThere'
    BY <1>8, <2>3 DEF ReadGlobal, StillThere
  <2>6. CopyStage'
    BY <1>8, <2>1, <2>3 DEF ReadGlobal, CopyStage
  <2> QED
    BY <2>4, <2>5, <2>6
<1>9. ASSUME NEW m \in Migrators, WriteScoped(m) PROVE AloneInv'
  <2>1. pc'[m] = "drop_global" /\ \A n \in Migrators : n # m => pc'[n] = "down"
    BY <1>9, OneMoves DEF WriteScoped, Stages
  <2>2. /\ local[m].active \in Profiles /\ local[m].item \in Items
        /\ local[m].value = "old"
    BY <1>9 DEF WriteScoped, Progress, ListingCovers, ItemListed, TypeOK,
       Locals, CopyStage
  <2>3. /\ scoped'[local[m].active][local[m].item] = "old"
        /\ \A p \in Profiles, j \in Items :
             scoped'[p][j] \in {scoped[p][j], "old"}
    BY <1>9, <2>2 DEF WriteScoped, TypeOK
  <2>4. NoEditBefore' /\ HoldsLegacy' /\ StillThere'
    BY <1>9, <2>1 DEF WriteScoped, NoEditBefore, HoldsLegacy, StillThere
  <2>5. NoneNever'
    BY <2>3 DEF NoneNever
  <2>6. CopyStage'
    BY <1>9, <2>1, <2>3 DEF WriteScoped, CopyStage
  <2> QED
    BY <2>4, <2>5, <2>6
<1>10. ASSUME NEW m \in Migrators, DropGlobal(m) PROVE AloneInv'
  <2> DEFINE i == local[m].item
  <2>1. pc'[m] = "item" /\ \A n \in Migrators : n # m => pc'[n] = "down"
    BY <1>10, OneMoves DEF DropGlobal, Stages
  <2>2. local'[m].todo = local[m].todo \ {i}
    BY <1>10 DEF DropGlobal, TypeOK, Locals
  <2>3. \A j \in Items : j # i => global'[j] = global[j]
    BY <1>10 DEF DropGlobal, TypeOK
  <2>4. local[m].todo \subseteq Items
    BY DEF TypeOK, Locals
  <2>5. NoEditBefore' /\ HoldsLegacy' /\ CopyStage' /\ NoneNever'
    BY <1>10, <2>1 DEF DropGlobal, NoEditBefore, HoldsLegacy, CopyStage,
       NoneNever
  <2>6. StillThere'
    BY <1>10, <2>2, <2>3, <2>4 DEF DropGlobal, StillThere
  <2> QED
    BY <2>5, <2>6
<1>11. ASSUME NEW m \in Migrators, Finish(m) PROVE AloneInv'
  <2>1. pc'[m] = "serving" /\ \A n \in Migrators : n # m => pc'[n] = "down"
    BY <1>11, OneMoves DEF Finish, Stages
  <2> QED
    BY <1>11, <2>1 DEF Finish, NoEditBefore, HoldsLegacy, StillThere,
       CopyStage, NoneNever
<1>12. ASSUME NEW m \in Migrators, Crash(m) PROVE AloneInv'
  <2>1. pc'[m] = "down" /\ \A n \in Migrators : n # m => pc'[n] = "down"
    BY <1>12, OneMoves DEF Crash, Stages
  <2> QED
    BY <1>12, <2>1 DEF Crash, NoEditBefore, HoldsLegacy, StillThere, CopyStage,
       NoneNever
<1>13. CASE Edit
  <2>1. legacyRow = Absent /\ \A n \in Migrators : pc[n] \in {"serving", "down"}
    BY <1>13 DEF Edit, Progress, LegacyGone
  <2>2. NoneNever'
    <3>1. \A p \in Profiles, i \in Items : scoped'[p][i] \in {scoped[p][i], "user"}
      BY <1>13 DEF Edit, TypeOK
    <3> QED
      BY <3>1 DEF NoneNever
  <2>3. NoEditBefore' /\ HoldsLegacy' /\ StillThere' /\ CopyStage'
    BY <1>13, <2>1 DEF Edit, NoEditBefore, HoldsLegacy, StillThere, CopyStage
  <2> QED
    BY <2>2, <2>3
<1>14. CASE UNCHANGED vars
  BY <1>14 DEF vars, NoEditBefore, HoldsLegacy, StillThere, CopyStage, NoneNever
<1> QED
  BY <1>1, <1>2, <1>3, <1>4, <1>5, <1>6, <1>7, <1>8, <1>9, <1>10, <1>11, <1>12,
     <1>13, <1>14 DEF Next, Migrate

\* Of a lone migrator it may be said which one it is.
LEMMA AloneIsLone == Alone => Lone(CHOOSE m \in Migrators : TRUE)
BY DEF Alone, Lone

LEMMA AloneHolds == ASSUME Alone PROVE Spec => [](IInv /\ AloneInv)
<1>1. Init => IInv /\ AloneInv
  BY InitIInv, InitAlone
<1>2. IInv /\ AloneInv /\ [Next]_vars => (IInv /\ AloneInv)'
  <2> SUFFICES ASSUME IInv, AloneInv, [Next]_vars PROVE AloneInv'
    BY NextIInv
  <2> DEFINE w == CHOOSE m \in Migrators : TRUE
  <2>1. Lone(w) /\ Lone(w)'
    BY Alone, AloneIsLone DEF Alone, Lone
  <2> HIDE DEF w
  <2> QED BY <2>1, NextAlone
<1> QED
  BY <1>1, <1>2, PTL DEF Spec

\* The only steps that write rows of a profile, and what they write.
LEMMA StepKeeps ==
  ASSUME NEW w, Lone(w), Lone(w)', IInv, AloneInv, [Next]_vars
  PROVE  /\ \A i \in Items : Available(i) => Available(i)'
         /\ \A p \in Profiles : profileRow[p] = "user" => profileRow'[p] = "user"
         /\ \A p \in Profiles, i \in Items :
              scoped[p][i] = "user" => scoped'[p][i] = "user"
<1> USE DEF Lone, IInv, AloneInv
<1>1. CASE UNCHANGED <<profileRow, global, scoped>>
  BY <1>1 DEF Available
<1>2. ASSUME NEW m \in Migrators, StoreLegacy(m)
      PROVE  /\ UNCHANGED <<global, scoped>>
             /\ \A p \in Profiles : profileRow[p] # "user"
  BY <1>2 DEF StoreLegacy, HoldsLegacy, NoEditBefore
<1>3. ASSUME NEW m \in Migrators, WriteScoped(m)
      PROVE  /\ UNCHANGED <<profileRow, global>>
             /\ \A p \in Profiles, i \in Items :
                  scoped[p][i] # Absent => scoped'[p][i] = scoped[p][i]
  <2>1. /\ scoped[local[m].active][local[m].item] = Absent
        /\ scoped' = [scoped EXCEPT ![local[m].active][local[m].item] =
                        local[m].value]
    BY <1>3 DEF WriteScoped, CopyStage
  <2> QED
    BY <1>3, <2>1 DEF WriteScoped, TypeOK
<1>4. ASSUME NEW m \in Migrators, DropGlobal(m)
      PROVE  /\ UNCHANGED <<profileRow, scoped>>
             /\ \A i \in Items : i # local[m].item => global'[i] = global[i]
             /\ \E p \in Profiles : scoped[p][local[m].item] \in {"old", "user"}
  <2>1. local[m].active \in Profiles
    BY <1>4 DEF DropGlobal, Progress, ListingCovers
  <2>2. scoped[local[m].active][local[m].item] \in {"old", "user"}
    BY <1>4 DEF DropGlobal, CopyStage
  <2>3. \A i \in Items : i # local[m].item => global'[i] = global[i]
    BY <1>4 DEF DropGlobal, TypeOK
  <2> QED
    BY <1>4, <2>1, <2>2, <2>3 DEF DropGlobal
<1>5. ASSUME Edit
      PROVE  /\ UNCHANGED global
             /\ \A p \in Profiles : profileRow'[p] \in {profileRow[p], "user"}
             /\ \A p \in Profiles, i \in Items :
                  scoped'[p][i] \in {scoped[p][i], "user"}
  BY <1>5 DEF Edit, TypeOK
<1>6. \/ UNCHANGED <<profileRow, global, scoped>> \/ Edit
      \/ \E m \in Migrators : StoreLegacy(m) \/ WriteScoped(m) \/ DropGlobal(m)
  BY DEF Next, Migrate, vars, ReadLegacy, ActivateLegacy, DropLegacy,
     ReadActive, ListGlobal, CheckScoped, ReadGlobal, Finish, Crash
<1> QED
  BY <1>1, <1>2, <1>3, <1>4, <1>5, <1>6 DEF Available

\* The same of migrators that are one.
LEMMA AloneKeeps ==
  ASSUME Alone, IInv, AloneInv, [Next]_vars
  PROVE  /\ \A i \in Items : Available(i) => Available(i)'
         /\ \A p \in Profiles : profileRow[p] = "user" => profileRow'[p] = "user"
         /\ \A p \in Profiles, i \in Items :
              scoped[p][i] = "user" => scoped'[p][i] = "user"
<1> DEFINE w == CHOOSE m \in Migrators : TRUE
<1>1. Lone(w) /\ Lone(w)'
  BY AloneIsLone DEF Alone, Lone
<1> HIDE DEF w
<1> QED BY <1>1, StepKeeps

(***************************************************************************)
(* For a process that migrates alone, however often it crashes: a setting  *)
(* the old database has is never lost.                                     *)
(***************************************************************************)
THEOREM AloneValuesKept == ASSUME Alone PROVE Spec => ValuesKept
<1>1. IInv /\ AloneInv /\ [Next]_vars
        => [\A i \in Items : Available(i) => Available(i)']_vars
  BY Alone, AloneKeeps
<1> QED
  BY <1>1, AloneHolds, Alone, PTL DEF Spec, ValuesKept

(***************************************************************************)
(* For a process that migrates alone, however often it crashes: repeating  *)
(* the migration overwrites nothing an administrator has entered.          *)
(***************************************************************************)
THEOREM AloneEditsKept == ASSUME Alone PROVE Spec => EditsKept
<1> DEFINE A == /\ \A p \in Profiles :
                     profileRow[p] = "user" => profileRow'[p] = "user"
                /\ \A p \in Profiles, i \in Items :
                     scoped[p][i] = "user" => scoped'[p][i] = "user"
<1>1. IInv /\ AloneInv /\ [Next]_vars => [A]_vars
  BY Alone, AloneKeeps
<1> QED
  BY <1>1, AloneHolds, Alone, PTL DEF Spec, EditsKept

-----------------------------------------------------------------------------
(* The two casts of MCSettingsMigration: the Web UI alone, or both processes *)
(* while nobody edits.                                                       *)

CastAssumption == Migrators = {web, skill}

\* While nobody edits, what an administrator entered before the migration is in
\* nobody's way: a legacy row means a database without edited profiles, and a
\* setting about to be copied has no scoped row of an administrator's.
EditsApart ==
  /\ legacyRow # Absent => \A p \in Profiles : profileRow[p] # "user"
  /\ \A m \in Migrators :
       /\ pc[m] = "store" => \A p \in Profiles : profileRow[p] # "user"
       /\ pc[m] \in {"read_global", "write_scoped"} =>
            scoped[local[m].active][local[m].item] # "user"

CastInv ==
  /\ IInv
  /\ cast \in {{web}, {web, skill}}
  /\ cast = {web} => Lone(web) /\ AloneInv
  /\ cast = Migrators => spent.edits = 0 /\ EditsApart

LEMMA CastStarts == CastInit => CastInv
<1> SUFFICES ASSUME CastInit PROVE CastInv
  OBVIOUS
<1>1. IInv /\ AloneInv
  BY InitIInv, InitAlone DEF CastInit
<1>2. Lone(web) /\ EditsApart /\ spent.edits = 0
  BY DEF CastInit, Init, Lone, EditsApart
<1> QED BY <1>1, <1>2 DEF CastInv, CastInit

\* Two processes that migrate at once keep each other's hands off the edits.
LEMMA PairStep ==
  ASSUME IInv, EditsApart, Next, spent.edits = 0, spent'.edits = 0
  PROVE  /\ EditsApart'
         /\ \A p \in Profiles : profileRow[p] = "user" => profileRow'[p] = "user"
         /\ \A p \in Profiles, i \in Items : scoped[p][i] = "user" => scoped'[p][i] = "user"
<1> DEFINE Kept == /\ EditsApart'
                   /\ \A p \in Profiles : profileRow[p] = "user" => profileRow'[p] = "user"
                   /\ \A p \in Profiles, i \in Items : scoped[p][i] = "user" => scoped'[p][i] = "user"
<1> USE DEF IInv
<1>0. ~Edit
  BY DEF Edit, TypeOK
<1>1. ASSUME NEW m \in Migrators, ReadLegacy(m) PROVE Kept
  <2> DEFINE stage == CASE legacyRow = Absent -> "read_active"
                        [] legacyRow = Unconfigured -> "drop_legacy"
                        [] legacyRow \in Profiles -> "store"
  <2>1. stage \in {"read_active", "drop_legacy", "store"} /\ (stage = "store" => legacyRow # Absent)
    BY DEF TypeOK
  <2>2. Goto(m, stage) /\ stage \in Stages
    BY <1>1, <2>1 DEF ReadLegacy, Stages
  <2> HIDE DEF stage
  <2>3. pc'[m] = stage /\ \A n \in Migrators : n # m => pc'[n] = pc[n] /\ local'[n] = local[n]
    BY <1>1, <2>2, OneMoves DEF ReadLegacy, TypeOK
  <2> QED BY <1>1, <2>1, <2>3 DEF ReadLegacy, EditsApart
<1>2. ASSUME NEW m \in Migrators, StoreLegacy(m) PROVE Kept
  <2>1. pc'[m] = "activate" /\ \A n \in Migrators : n # m => pc'[n] = pc[n]
    BY <1>2, OneMoves DEF StoreLegacy, Stages
  <2>2. \A p \in Profiles : profileRow[p] # "user" /\ profileRow'[p] # "user"
    BY <1>2 DEF StoreLegacy, EditsApart, TypeOK
  <2> QED BY <1>2, <2>1, <2>2 DEF StoreLegacy, EditsApart
<1>3. ASSUME NEW m \in Migrators, ActivateLegacy(m) \/ DropLegacy(m) \/ Finish(m) PROVE Kept
  <2>1. pc'[m] \in {"drop_legacy", "read_active", "serving"} /\ \A n \in Migrators : n # m => pc'[n] = pc[n]
    BY <1>3, OneMoves DEF ActivateLegacy, DropLegacy, Finish, Stages
  <2> QED BY <1>3, <2>1 DEF ActivateLegacy, DropLegacy, Finish, EditsApart
<1>4. ASSUME NEW m \in Migrators, ReadActive(m) \/ ListGlobal(m) \/ Crash(m) PROVE Kept
  <2>1. pc'[m] \in {"serving", "list", "item", "down"}
        /\ \A n \in Migrators : n # m => pc'[n] = pc[n] /\ local'[n] = local[n]
    BY <1>4 DEF ReadActive, ListGlobal, Crash, Goto, TypeOK
  <2> QED BY <1>4, <2>1 DEF ReadActive, ListGlobal, Crash, EditsApart
<1>5. ASSUME NEW m \in Migrators, NEW i \in Items, CheckScoped(m, i) PROVE Kept
  <2>1. /\ local'[m].active = local[m].active /\ local'[m].item = i
        /\ pc'[m] = "read_global" => scoped[local[m].active][i] = Absent
        /\ pc'[m] \in {"read_global", "drop_global"}
        /\ \A n \in Migrators : n # m => pc'[n] = pc[n] /\ local'[n] = local[n]
    BY <1>5 DEF CheckScoped, Goto, TypeOK, Locals
  <2> QED BY <1>5, <2>1 DEF CheckScoped, EditsApart
<1>6. ASSUME NEW m \in Migrators, ReadGlobal(m) PROVE Kept
  <2>1. /\ local'[m].active = local[m].active /\ local'[m].item = local[m].item /\ pc'[m] = "write_scoped"
        /\ \A n \in Migrators : n # m => pc'[n] = pc[n] /\ local'[n] = local[n]
    BY <1>6 DEF ReadGlobal, Goto, TypeOK, Locals
  <2> QED BY <1>6, <2>1 DEF ReadGlobal, EditsApart
<1>7. ASSUME NEW m \in Migrators, WriteScoped(m) PROVE Kept
  <2>1. /\ pc'[m] = "drop_global" /\ \A n \in Migrators : n # m => pc'[n] = pc[n]
        /\ local[m].value # "user"
        /\ scoped' = [scoped EXCEPT ![local[m].active][local[m].item] = local[m].value]
        /\ scoped[local[m].active][local[m].item] # "user"
    BY <1>7 DEF WriteScoped, Goto, TypeOK, Locals, EditsApart
  <2>2. \A p \in Profiles, i \in Items : scoped'[p][i] = "user" <=> scoped[p][i] = "user"
    BY <2>1 DEF TypeOK
  <2>3. \A n \in Migrators : pc[n] \in {"read_global", "write_scoped"} =>
          local[n].active \in Profiles /\ local[n].item \in Items
    BY DEF Progress, ListingCovers, ItemListed, TypeOK, Locals
  <2> QED BY <1>7, <2>1, <2>2, <2>3 DEF WriteScoped, EditsApart
<1>8. ASSUME NEW m \in Migrators, DropGlobal(m) PROVE Kept
  <2>1. pc'[m] = "item" /\ \A n \in Migrators : n # m => pc'[n] = pc[n] /\ local'[n] = local[n]
    BY <1>8 DEF DropGlobal, Goto, TypeOK
  <2> QED BY <1>8, <2>1 DEF DropGlobal, EditsApart
<1> QED BY <1>0, <1>1, <1>2, <1>3, <1>4, <1>5, <1>6, <1>7, <1>8 DEF Next, Migrate

LEMMA CastSteps ==
  ASSUME CastAssumption, CastInv, [CastNext]_castVars
  PROVE  /\ CastInv'
         /\ cast = {web} => \A i \in Items : Available(i) => Available(i)'
         /\ \A p \in Profiles : profileRow[p] = "user" => profileRow'[p] = "user"
         /\ \A p \in Profiles, i \in Items : scoped[p][i] = "user" => scoped'[p][i] = "user"
<1>0. [Next]_vars /\ cast' = cast /\ IInv'
  <2>1. [Next]_vars /\ cast' = cast
    BY DEF CastNext, castVars
  <2> QED BY <2>1, NextIInv DEF CastInv
<1>1. CASE UNCHANGED castVars
  <2>1. UNCHANGED vars
    BY <1>1 DEF castVars
  <2>2. (cast = {web} => Lone(web) /\ AloneInv) => (cast = {web} => Lone(web) /\ AloneInv)'
    BY <1>0, <2>1 DEF vars, Lone, AloneInv, NoEditBefore, HoldsLegacy, StillThere, CopyStage, NoneNever
  <2>3. (cast = Migrators => spent.edits = 0 /\ EditsApart) => (cast = Migrators => spent.edits = 0 /\ EditsApart)'
    BY <1>0, <2>1 DEF vars, EditsApart
  <2> QED BY <1>0, <2>1, <2>2, <2>3 DEF CastInv, vars, Available
<1>2. CASE CastNext
  <2>1. cast = {web} =>
          /\ Lone(web)' /\ AloneInv'
          /\ \A i \in Items : Available(i) => Available(i)'
          /\ \A p \in Profiles : profileRow[p] = "user" => profileRow'[p] = "user"
          /\ \A p \in Profiles, i \in Items : scoped[p][i] = "user" => scoped'[p][i] = "user"
    <3> SUFFICES ASSUME cast = {web}
                 PROVE  /\ Lone(web)' /\ AloneInv'
                        /\ \A i \in Items : Available(i) => Available(i)'
                        /\ \A p \in Profiles : profileRow[p] = "user" => profileRow'[p] = "user"
                        /\ \A p \in Profiles, i \in Items : scoped[p][i] = "user" => scoped'[p][i] = "user"
      OBVIOUS
    <3>1. IInv /\ AloneInv /\ Lone(web)
      BY DEF CastInv
    <3>2. Lone(web)'
      BY <1>2, <3>1 DEF Lone, CastNext
    <3>3. AloneInv'
      BY <1>0, <3>1, <3>2, NextAlone
    <3> QED BY <1>0, <3>1, <3>2, <3>3, StepKeeps
  <2>2. cast = Migrators =>
          /\ spent'.edits = 0 /\ EditsApart'
          /\ \A p \in Profiles : profileRow[p] = "user" => profileRow'[p] = "user"
          /\ \A p \in Profiles, i \in Items : scoped[p][i] = "user" => scoped'[p][i] = "user"
    BY <1>2, PairStep DEF CastNext, CastInv
  <2>3. cast = {web} \/ cast = Migrators
    BY CastAssumption DEF CastInv, CastAssumption
  <2> QED BY <1>0, <2>1, <2>2, <2>3 DEF CastInv
<1> QED BY <1>1, <1>2

(***************************************************************************)
(* Where one process migrates, however often it crashes, a setting the old *)
(* database has is never lost (profiles.py:211-267).                       *)
(***************************************************************************)
THEOREM CastValuesKept == ASSUME CastAssumption PROVE CastSpec => ValuesKeptAlone
<1>1. CastInv /\ [CastNext]_castVars => CastInv'
  BY CastSteps
<1>2. CastInv /\ [CastNext]_castVars
        => [cast = {web} => \A i \in Items : Available(i) => Available(i)']_castVars
  BY CastSteps
<1> QED
  BY CastStarts, <1>1, <1>2, PTL DEF CastSpec, ValuesKeptAlone
(***************************************************************************)
(* What an administrator has entered is not overwritten, be it that one    *)
(* process migrates while edits go on or that both migrate and nobody      *)
(* edits ("Idempotent", profiles.py:231-267).                              *)
(***************************************************************************)
THEOREM CastEditsKept == ASSUME CastAssumption PROVE CastSpec => EditsKept
<1> DEFINE A == /\ \A p \in Profiles :
                     profileRow[p] = "user" => profileRow'[p] = "user"
                /\ \A p \in Profiles, i \in Items :
                     scoped[p][i] = "user" => scoped'[p][i] = "user"
<1>1. CastInv /\ [CastNext]_castVars => CastInv'
  BY CastSteps
<1>2. CastInv /\ [CastNext]_castVars => [A]_vars
  BY CastSteps
<1> QED
  BY CastStarts, <1>1, <1>2, PTL DEF CastSpec, EditsKept

(***************************************************************************)
(* In either cast a process that serves has no legacy row and, if it found *)
(* an active profile, no unscoped setting before it.                       *)
(***************************************************************************)
THEOREM CastServedMigrated == ASSUME CastAssumption PROVE CastSpec => []ServedMigrated
<1>1. CastInv /\ [CastNext]_castVars => CastInv'
  BY CastSteps
<1>2. CastInv => ServedMigrated
  BY DEF CastInv, IInv, Progress
<1> QED
  BY CastStarts, <1>1, <1>2, PTL DEF CastSpec

============================================================================
