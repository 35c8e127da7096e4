--------------------------- MODULE Migrations_proof ---------------------------
(* Theorems about Migrations, for any files, scripts and number of callers. *)
EXTENDS Migrations, TLAPS

\* A file that can be applied is one of the versions.
LEMMA FilesAreVersions ==
    /\ Len(Files) \in Nat
    /\ \A i \in 1 .. Len(Files) : Files[i] \in Versions
BY MigrationsAssumption DEF Versions

\* A call that ended knows nothing and is nowhere: what the invariant asks of
\* calls is asked of the others only, and for them nothing has changed.
LEMMA OthersAfterEnds ==
    ASSUME TypeOK, NEW o \in Operators, Ends(o)
    PROVE  /\ pc' \in [Operators -> {"idle", "apply", "record", "delete"}]
           /\ known' \in [Operators -> SUBSET Upgradable]
           /\ pos' \in [Operators -> 1 .. Len(Files) + 1]
           /\ pc'[o] = "idle" /\ known'[o] = {} /\ pos'[o] = 1
           /\ \A p \in Operators \ {o} :
                 pc'[p] = pc[p] /\ known'[p] = known[p] /\ pos'[p] = pos[p]
BY FilesAreVersions DEF TypeOK, Ends

\* What the invariant asks of one call.
CallOk(o) ==
    /\ known[o] \subseteq ever
    /\ pc[o] = "idle" => pos[o] = 1
    /\ pc[o] = "record" => AtRecord(o)
    /\ pc[o] \in {"apply", "record"} => Behind(o)

\* A call that does not move stays as it should be while what was recorded
\* and what was applied grow.
LEMMA CallStays ==
    ASSUME NEW p \in Operators, CallOk(p), ever \subseteq ever', applied \subseteq applied',
           pc'[p] = pc[p], known'[p] = known[p], pos'[p] = pos[p]
    PROVE  CallOk(p)'
BY DEF CallOk, AtRecord, Behind, File

\* The invariant holds initially.
LEMMA MigrationsInit == Init => MigrationsInv
BY FilesAreVersions DEF Init, MigrationsInv, TypeOK, RecordsInOrder, AtRecord, Behind, Features

\* A version of the directory at which a call stands.
LEMMA FileAt ==
    ASSUME TypeOK, NEW o \in Operators, pos[o] <= Len(Files)
    PROVE  pos[o] \in 1 .. Len(Files) /\ File(o) \in Versions
BY FilesAreVersions DEF TypeOK, File

\* Recording a file before which everything was recorded keeps the order: an
\* earlier file is one of those the call has left behind, or the same file.
LEMMA OrderKept ==
    ASSUME RecordsInOrder, NEW o \in Operators, pos[o] \in 1 .. Len(Files), Behind(o),
           ever' = ever \cup {File(o)}
    PROVE  RecordsInOrder'
<1>1. SUFFICES ASSUME NEW i \in 1 .. Len(Files), NEW k \in 1 .. Len(Files), i < k,
                      Files[i] \in Upgradable, Files[k] \in ever'
               PROVE  Files[i] \in ever'
  BY DEF RecordsInOrder
<1>2. CASE Files[k] \in ever
  BY <1>1, <1>2 DEF RecordsInOrder
<1>3. CASE Files[k] = Files[pos[o]]
  <2>1. k = pos[o]
    BY <1>3, MigrationsAssumption
  <2> QED BY <1>1, <2>1, FilesAreVersions DEF Behind
<1> QED BY <1>1, <1>2, <1>3 DEF File

\* A step keeps the invariant, one case for each action.
LEMMA MigrationsStep == MigrationsInv /\ [Next]_vars => MigrationsInv'
<1> SUFFICES ASSUME MigrationsInv, [Next]_vars PROVE MigrationsInv'
  OBVIOUS
<1>0. /\ TypeOK /\ recorded \subseteq ever /\ ever \subseteq applied
      /\ \A v \in applied : "body" \notin script[v]
      /\ \A v \in applied \ effects : "undo" \in script[v]
      /\ RecordsInOrder
      /\ \A p \in Operators : CallOk(p)
  BY DEF MigrationsInv, CallOk
<1>q. ASSUME TypeOK', (recorded \subseteq ever)', (ever \subseteq applied)',
             (\A v \in applied : "body" \notin script[v])',
             (\A v \in applied \ effects : "undo" \in script[v])', RecordsInOrder',
             \A p \in Operators : CallOk(p)'
      PROVE  MigrationsInv'
  BY <1>q DEF MigrationsInv, CallOk
<1>1. CASE UNCHANGED vars
  BY <1>1 DEF vars, MigrationsInv, TypeOK, RecordsInOrder, AtRecord, Behind, File
<1>2. ASSUME NEW o \in Operators, Initialize(o) PROVE MigrationsInv'
  <2>1. TypeOK'
    BY <1>0, <1>2 DEF TypeOK, Initialize
  <2>2. \A p \in Operators \ {o} : CallOk(p)'
    BY <1>0, <1>2, CallStays DEF Initialize, TypeOK
  <2>3. CallOk(o)'
    <3>1. pos'[o] = 1 /\ known'[o] = recorded /\ ever' = ever /\ pc'[o] = "apply"
      BY <1>0, <1>2 DEF CallOk, Initialize, TypeOK
    <3> QED BY <1>0, <3>1 DEF CallOk, Behind
  <2>4. RecordsInOrder'
    BY <1>0, <1>2 DEF Initialize, RecordsInOrder
  <2> QED BY <1>0, <1>2, <2>1, <2>2, <2>3, <2>4, <1>q DEF Initialize
<1>3. ASSUME NEW o \in Operators, Skip(o) PROVE MigrationsInv'
  <2>0. pos[o] \in 1 .. Len(Files) /\ pos'[o] = pos[o] + 1 /\ pc'[o] = "apply" /\ known'[o] = known[o]
    BY <1>0, <1>3, FileAt DEF Skip, AtFile, TypeOK
  <2>1. TypeOK'
    BY <1>0, <1>3, <2>0, FilesAreVersions DEF TypeOK, Skip
  <2>2. \A p \in Operators \ {o} : CallOk(p)'
    BY <1>0, <1>3, CallStays DEF Skip, TypeOK
  <2>3. Files[pos[o]] \in Upgradable => Files[pos[o]] \in ever
    BY <1>0, <1>3 DEF Skip, Pending, File, CallOk
  <2>4. Behind(o)'
    <3>1. Behind(o)
      BY <1>0, <1>3 DEF Skip, AtFile, CallOk
    <3>2. ever' = ever
      BY <1>3 DEF Skip
    <3> QED BY <2>0, <2>3, <3>1, <3>2, FilesAreVersions DEF Behind
  <2>5. CallOk(o)'
    BY <1>0, <1>3, <2>0, <2>4 DEF CallOk, Skip
  <2>6. RecordsInOrder'
    BY <1>0, <1>3 DEF Skip, RecordsInOrder
  <2> QED BY <1>0, <1>3, <2>1, <2>2, <2>5, <2>6, <1>q DEF Skip
<1>4. ASSUME NEW o \in Operators, Upgrade(o) PROVE MigrationsInv'
  <2>0. pos[o] \in 1 .. Len(Files) /\ pos'[o] = pos[o] /\ pc'[o] = "record" /\ known'[o] = known[o]
    BY <1>0, <1>4, FileAt DEF Upgrade, AtFile, TypeOK
  <2>1. TypeOK'
    BY <1>0, <1>4 DEF TypeOK, Upgrade
  <2>2. \A p \in Operators \ {o} : CallOk(p)'
    BY <1>0, <1>4, CallStays DEF Upgrade, TypeOK
  <2>3. CallOk(o)'
    <3>1. File(o) \in applied' /\ ever' = ever
      BY <1>4 DEF Upgrade
    <3>2. Behind(o)
      BY <1>0, <1>4 DEF Upgrade, AtFile, CallOk
    <3>3. known[o] \subseteq ever
      BY <1>0 DEF CallOk
    <3> QED BY <2>0, <3>1, <3>2, <3>3 DEF CallOk, AtRecord, Behind, File
  <2>4. RecordsInOrder'
    BY <1>0, <1>4 DEF Upgrade, RecordsInOrder
  <2>5. (\A v \in applied : "body" \notin script[v])'
    BY <1>0, <1>4 DEF Upgrade, Runs
  <2> QED BY <1>0, <1>4, <2>1, <2>2, <2>3, <2>4, <2>5, <1>q DEF Upgrade
<1>5. ASSUME NEW o \in Operators, UpgradeFails(o) PROVE MigrationsInv'
  <2>1. /\ TypeOK' /\ CallOk(o)'
        /\ \A p \in Operators \ {o} : pc'[p] = pc[p] /\ known'[p] = known[p] /\ pos'[p] = pos[p]
    BY <1>0, <1>5, OthersAfterEnds DEF TypeOK, UpgradeFails, CallOk
  <2>2. \A p \in Operators \ {o} : CallOk(p)'
    BY <1>0, <1>5, <2>1, CallStays DEF UpgradeFails
  <2>3. RecordsInOrder'
    BY <1>0, <1>5 DEF UpgradeFails, RecordsInOrder
  <2>4. (\A v \in applied : "body" \notin script[v])'
    BY <1>0, <1>5 DEF UpgradeFails, Runs
  <2> QED BY <1>0, <1>5, <2>1, <2>2, <2>3, <2>4, <1>q DEF UpgradeFails
<1>6. ASSUME NEW o \in Operators, Record(o) PROVE MigrationsInv'
  <2>0. /\ pos[o] \in 1 .. Len(Files) /\ pos'[o] = pos[o] + 1 /\ pc'[o] = "apply"
        /\ known'[o] = known[o] /\ File(o) \in applied /\ Behind(o)
    BY <1>0, <1>6, FileAt DEF Record, TypeOK, CallOk, AtRecord
  <2>1. TypeOK'
    BY <1>0, <1>6, <2>0, FilesAreVersions DEF TypeOK, Record
  <2>2. \A p \in Operators \ {o} : CallOk(p)'
    BY <1>0, <1>6, CallStays DEF Record, TypeOK
  <2>3. Behind(o)'
    <3>1. ever' = ever \cup {Files[pos[o]]}
      BY <1>6 DEF Record, File
    <3> QED BY <2>0, <3>1, FilesAreVersions DEF Behind
  <2>4. CallOk(o)'
    BY <1>0, <1>6, <2>0, <2>3 DEF CallOk, Record
  <2>5. RecordsInOrder'
    BY <1>0, <1>6, <2>0, OrderKept DEF Record
  <2> QED BY <1>0, <1>6, <2>0, <2>1, <2>2, <2>4, <2>5, <1>q DEF Record
<1>7. ASSUME NEW o \in Operators, RecordFails(o) PROVE MigrationsInv'
  <2>0. /\ pos[o] \in 1 .. Len(Files) /\ File(o) \in applied /\ Behind(o)
    BY <1>0, <1>7, FileAt DEF RecordFails, TypeOK, CallOk, AtRecord
  <2>1. /\ TypeOK' /\ CallOk(o)'
        /\ \A p \in Operators \ {o} : pc'[p] = pc[p] /\ known'[p] = known[p] /\ pos'[p] = pos[p]
    BY <1>0, <1>7, <2>0, OthersAfterEnds DEF TypeOK, RecordFails, CallOk
  <2>2. \A p \in Operators \ {o} : CallOk(p)'
    BY <1>0, <1>7, <2>1, CallStays DEF RecordFails
  <2>3. RecordsInOrder'
    <3>1. CASE ever' = ever
      BY <1>0, <3>1 DEF RecordsInOrder
    <3>2. CASE ever' = ever \cup {File(o)}
      BY <1>0, <2>0, <3>2, OrderKept
    <3> QED BY <1>7, <3>1, <3>2 DEF RecordFails
  <2> QED BY <1>0, <1>7, <2>0, <2>1, <2>2, <2>3, <1>q DEF RecordFails
<1>8. ASSUME NEW o \in Operators, Downgrade(o) PROVE MigrationsInv'
  <2>0. /\ effects' \subseteq effects
        /\ \A v \in effects \ effects' : "undo" \in script[v]
    BY <1>8 DEF Downgrade
  <2>1. TypeOK'
    BY <1>0, <1>8, <2>0, FilesAreVersions DEF TypeOK, Downgrade
  <2>2. \A p \in Operators \ {o} : CallOk(p)'
    BY <1>0, <1>8, <2>0, CallStays DEF Downgrade, TypeOK
  <2>3. CallOk(o)'
    BY <1>0, <1>8 DEF CallOk, Downgrade, TypeOK
  <2>4. RecordsInOrder'
    BY <1>0, <1>8 DEF Downgrade, RecordsInOrder
  <2> QED BY <1>0, <1>8, <2>0, <2>1, <2>2, <2>3, <2>4, <1>q DEF Downgrade
<1>9. ASSUME NEW o \in Operators, Delete(o) \/ Return(o) \/ CutShort(o) PROVE MigrationsInv'
  <2>0. /\ Ends(o) /\ UNCHANGED <<script, effects, applied, ever>>
        /\ recorded' \subseteq recorded
    BY <1>9 DEF Delete, Return, CutShort
  <2>1. /\ TypeOK' /\ CallOk(o)'
        /\ \A p \in Operators \ {o} : pc'[p] = pc[p] /\ known'[p] = known[p] /\ pos'[p] = pos[p]
    BY <1>0, <2>0, OthersAfterEnds DEF TypeOK, CallOk
  <2>2. \A p \in Operators \ {o} : CallOk(p)'
    BY <1>0, <2>0, <2>1, CallStays
  <2>3. RecordsInOrder'
    BY <1>0, <2>0 DEF RecordsInOrder
  <2> QED BY <1>0, <2>0, <2>1, <2>2, <2>3, <1>q
<1> QED
  BY <1>1, <1>2, <1>3, <1>4, <1>5, <1>6, <1>7, <1>8, <1>9 DEF Next, Migrate

\* The inductive invariant (MigrationsInv) holds of every behaviour of the
\* migrations, whoever calls them, cuts them short or rolls them back.
THEOREM MigrationsInvariant == Spec => []MigrationsInv
BY MigrationsInit, MigrationsStep, PTL DEF Spec

\* What schema_migrations names has been applied (RecordedIsApplied), for any
\* number of concurrent runs (manager.py:88-95).
THEOREM RecordedOnlyAfterUpgrade == Spec => []RecordedIsApplied
<1>1. MigrationsInv => RecordedIsApplied
  BY DEF MigrationsInv, RecordedIsApplied
<1> QED BY <1>1, MigrationsInvariant, PTL

\* No version is recorded before an earlier one that can be applied
\* (RecordsInOrder; manager.py:146), whatever runs at once or fails.
THEOREM RecordedInOrder == Spec => []RecordsInOrder
<1>1. MigrationsInv => RecordsInOrder
  BY DEF MigrationsInv
<1> QED BY <1>1, MigrationsInvariant, PTL

\* Nothing is recorded on or behind a version whose script is taken apart
\* (NothingPastFailure; manager.py:146, 001_initial_schema.py:33), in however
\* many runs.
THEOREM NothingRecordedPastFailure == Spec => []NothingPastFailure
<1>1. MigrationsInv => NothingPastFailure
  <2> SUFFICES ASSUME MigrationsInv,
                      NEW i \in 1 .. Len(Files), NEW k \in 1 .. Len(Files), i <= k,
                      Files[i] \in Upgradable, "body" \in script[Files[i]], Files[k] \in ever
               PROVE  FALSE
    BY DEF NothingPastFailure
  <2>1. Files[i] \in ever
    BY FilesAreVersions DEF MigrationsInv, RecordsInOrder
  <2> QED BY <2>1 DEF MigrationsInv
<1> QED BY <1>1, MigrationsInvariant, PTL
=============================================================================
