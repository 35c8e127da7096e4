------------------------------ MODULE Migrations ------------------------------
(***************************************************************************)
(* database/migrations: the files of the directory are applied in the      *)
(* order of their names, and the table schema_migrations names those that  *)
(* were.  The upgrade is one transaction and the record another.  Nothing  *)
(* in the process calls run_migrations: operators start it by hand, two of *)
(* them perhaps at once, and may cut it short.                             *)
(*                                                                         *)
(* A version may have no upgrade function: the directory's own manager.py  *)
(* is taken for a migration (manager.py:55).  Of an SQL script the model   *)
(* keeps what decides whether it runs: "body" says that a statement holds  *)
(* a ";" inside its text, as the function in schema.sql:73 does, so that   *)
(* split(";") cuts it in two and the server refuses the halves; "once"     *)
(* says that a statement fails when its effect is already there, as the    *)
(* triggers of schema.sql:82 do, which lack IF NOT EXISTS.  "undo" says    *)
(* that the downgrade takes the effects back; that of 001_initial_schema   *)
(* does nothing yet, the place for it is 001_initial_schema.py:48.         *)
(***************************************************************************)
EXTENDS Integers, Sequences, FiniteSets

CONSTANTS Files,       \* versions of the directory, sorted by name
          Upgradable,  \* those whose module has an upgrade function
          Operators    \* who may call run_migrations or rollback_migration

Versions == {Files[i] : i \in 1 .. Len(Files)}

ASSUME MigrationsAssumption ==
    /\ Files \in Seq(Versions)
    /\ \A i, k \in 1 .. Len(Files) : Files[i] = Files[k] => i = k
    /\ Upgradable \subseteq Versions

VARIABLES script,    \* what is known of each version's script; never changes
          effects,   \* versions whose effects are in the database
          recorded,  \* table schema_migrations
          pc,        \* where each operator's call stands
          known,     \* MigrationManager._applied_migrations, as initialize read it
          pos,       \* the file the call has come to
          applied,   \* history: versions whose upgrade took place at some time
          ever       \* history: versions that were recorded at some time

vars == <<script, effects, recorded, pc, known, pos, applied, ever>>

Features == {"body", "once", "undo"}

TypeOK ==
    /\ script \in [Upgradable -> SUBSET Features]
    /\ effects \in SUBSET Upgradable
    /\ recorded \in SUBSET Upgradable
    /\ applied \in SUBSET Upgradable
    /\ ever \in SUBSET Upgradable
    /\ pc \in [Operators -> {"idle", "apply", "record", "delete"}]
    /\ known \in [Operators -> SUBSET Upgradable]
    /\ pos \in [Operators -> 1 .. Len(Files) + 1]

Init ==
    /\ script \in [Upgradable -> SUBSET Features]
    /\ effects = {} /\ recorded = {} /\ applied = {} /\ ever = {}
    /\ pc = [o \in Operators |-> "idle"]
    /\ known = [o \in Operators |-> {}]
    /\ pos = [o \in Operators |-> 1]

\* The call of o returns or raises; its manager is gone.
Ends(o) ==
    /\ pc' = [pc EXCEPT ![o] = "idle"]
    /\ known' = [known EXCEPT ![o] = {}]
    /\ pos' = [pos EXCEPT ![o] = 1]

AtFile(o) == pc[o] = "apply" /\ pos[o] <= Len(Files)
File(o) == Files[pos[o]]
Pending(o) == File(o) \notin known[o]

-----------------------------------------------------------------------------
(* run_migrations: initialize reads the table; what is not in it is        *)
(* pending.                                                                *)
Initialize(o) ==
    /\ pc[o] = "idle"
    /\ pc' = [pc EXCEPT ![o] = "apply"]
    /\ known' = [known EXCEPT ![o] = recorded]
    /\ UNCHANGED <<script, effects, recorded, pos, ever, applied>>

\* Mutant: a module without upgrade function is looked at again.
SkipNever(o) ==
    /\ AtFile(o)
    /\ ~Pending(o)
    /\ pos' = [pos EXCEPT ![o] = @ + 1]
    /\ UNCHANGED <<script, effects, recorded, pc, known, ever, applied>>

(* On to the next file: this one is recorded, or has nothing to apply,     *)
(* which is logged and not recorded.                                       *)
Skip(o) ==
    /\ AtFile(o)
    /\ ~Pending(o) \/ File(o) \notin Upgradable
    /\ pos' = [pos EXCEPT ![o] = @ + 1]
    /\ UNCHANGED <<script, effects, recorded, pc, known, ever, applied>>

\* Mutant: a statement that the server refuses is logged and passed over.
RunsIfNew(v) == "once" \in script[v] => v \notin effects

(* Every piece of the script is one the server takes.                      *)
Runs(v) == "body" \notin script[v] /\ ("once" \in script[v] => v \notin effects)

\* Mutant: the version is recorded first, and the upgrade comes after it.
UpgradeRecorded(o) ==
    /\ AtFile(o) /\ Pending(o) /\ File(o) \in Upgradable
    /\ recorded' = recorded \cup {File(o)}
    /\ ever' = ever \cup {File(o)}
    /\ pc' = [pc EXCEPT ![o] = "record"]
    /\ UNCHANGED <<script, effects, known, pos, applied>>

(* The transaction of the upgrade commits.                                 *)
Upgrade(o) ==
    /\ AtFile(o) /\ Pending(o) /\ File(o) \in Upgradable
    /\ Runs(File(o))
    /\ effects' = effects \cup {File(o)}
    /\ applied' = applied \cup {File(o)}
    /\ pc' = [pc EXCEPT ![o] = "record"]
    /\ UNCHANGED <<script, recorded, known, pos, ever>>

\* Mutant: a migration that fails does not keep the next from being applied.
UpgradeFailsGoesOn(o) ==
    /\ AtFile(o) /\ Pending(o) /\ File(o) \in Upgradable
    /\ pos' = [pos EXCEPT ![o] = @ + 1]
    /\ UNCHANGED <<script, effects, recorded, pc, known, ever, applied>>

(* The upgrade raises, which ends the run; the effects of a script the     *)
(* server takes may be there all the same, if only the answer to the       *)
(* commit was lost or the process ended just then.                         *)
UpgradeFails(o) ==
    /\ AtFile(o) /\ Pending(o) /\ File(o) \in Upgradable
    /\ \/ UNCHANGED <<effects, applied>>
       \/ /\ Runs(File(o))
          /\ effects' = effects \cup {File(o)}
          /\ applied' = applied \cup {File(o)}
    /\ Ends(o)
    /\ UNCHANGED <<script, recorded, ever>>

(* The version is inserted, unless somebody has recorded it meanwhile: it  *)
(* is the primary key.                                                     *)
Record(o) ==
    /\ pc[o] = "record"
    /\ File(o) \notin recorded
    /\ recorded' = recorded \cup {File(o)}
    /\ ever' = ever \cup {File(o)}
    /\ pc' = [pc EXCEPT ![o] = "apply"]
    /\ pos' = [pos EXCEPT ![o] = @ + 1]
    /\ UNCHANGED <<script, effects, known, applied>>

(* The insert raises and ends the run, or the run is cut short; here too   *)
(* only the answer may have been lost.                                     *)
RecordFails(o) ==
    /\ pc[o] = "record"
    /\ \E lands \in BOOLEAN :
         /\ recorded' = IF lands THEN recorded \cup {File(o)} ELSE recorded
         /\ ever' = IF lands THEN ever \cup {File(o)} ELSE ever
    /\ Ends(o)
    /\ UNCHANGED <<script, effects, applied>>

(* rollback_migration of a version: the transaction of its downgrade, ...  *)
Downgrade(o) ==
    /\ pc[o] = "idle"
    /\ \E i \in 1 .. Len(Files) :
         /\ Files[i] \in Upgradable
         /\ pos' = [pos EXCEPT ![o] = i]
         /\ effects' = {v \in effects : v = Files[i] => "undo" \notin script[v]}
    /\ pc' = [pc EXCEPT ![o] = "delete"]
    /\ UNCHANGED <<script, recorded, known, ever, applied>>

(* ... then its record is deleted, if there is one.                        *)
Delete(o) ==
    /\ pc[o] = "delete"
    /\ recorded' = recorded \ {File(o)}
    /\ Ends(o)
    /\ UNCHANGED <<script, effects, ever, applied>>

(* All files were looked at; or the call fails or is cut short where no    *)
(* transaction is under way that could still take effect.                  *)
Return(o) ==
    /\ pc[o] = "apply" /\ pos[o] > Len(Files)
    /\ Ends(o)
    /\ UNCHANGED <<script, effects, recorded, ever, applied>>

CutShort(o) ==
    /\ pc[o] # "idle"
    /\ Ends(o)
    /\ UNCHANGED <<script, effects, recorded, ever, applied>>

Migrate(o) ==
    \/ Skip(o) \/ Upgrade(o) \/ UpgradeFails(o) \/ Record(o) \/ RecordFails(o)
    \/ Delete(o) \/ Return(o)

Next == \E o \in Operators : Initialize(o) \/ Downgrade(o) \/ Migrate(o) \/ CutShort(o)

Spec == Init /\ [][Next]_vars

FairSpec == Spec /\ \A o \in Operators : WF_vars(Migrate(o))

-----------------------------------------------------------------------------
(* A version in the table has been applied to the database, through        *)
(* concurrent runs, crashes between the two transactions and rollbacks     *)
(* (apply_migration, manager.py:88-95); its effects are missing only where *)
(* its downgrade takes them back.                                          *)
RecordedIsApplied ==
    /\ recorded \subseteq applied
    /\ \A v \in recorded \ effects : "undo" \in script[v]

(* A version is recorded only after every earlier file that can be applied *)
(* was recorded, now or before a rollback of it, whatever other runs did   *)
(* meanwhile (get_migration_files and apply_all_pending, manager.py:60,    *)
(* 146).                                                                   *)
RecordsInOrder ==
    \A i, k \in 1 .. Len(Files) :
        i < k /\ Files[i] \in Upgradable /\ Files[k] \in ever => Files[i] \in ever

(* A script that split(";") takes apart is never recorded, and no version  *)
(* behind it is either, however often the migrations are run: so it is     *)
(* with the schema.sql of 001_initial_schema (001_initial_schema.py:33).   *)
NothingPastFailure ==
    \A i, k \in 1 .. Len(Files) :
        i <= k /\ Files[i] \in Upgradable /\ "body" \in script[Files[i]] => Files[k] \notin ever

(* A run of the migrations ends, though files without an upgrade function  *)
(* stay pending for ever (manager.py:100).                                 *)
RunsEnd == \A o \in Operators : pc[o] # "idle" ~> pc[o] = "idle"

\* Every file before the one the call has come to was recorded, or cannot be applied.
Behind(o) == \A i \in 1 .. pos[o] - 1 : Files[i] \in Upgradable => Files[i] \in ever

\* The call is about to record a version whose upgrade has taken place.
AtRecord(o) == pos[o] <= Len(Files) /\ File(o) \in applied

(* What the state of a call means, which makes the safety properties       *)
(* inductive: whatever a call has read or left behind was recorded, and    *)
(* what it is about to record has taken effect (manager.py:88-95).         *)
MigrationsInv ==
    /\ TypeOK
    /\ recorded \subseteq ever
    /\ ever \subseteq applied
    /\ \A v \in applied : "body" \notin script[v]
    /\ \A v \in applied \ effects : "undo" \in script[v]
    /\ RecordsInOrder
    /\ \A o \in Operators :
         /\ known[o] \subseteq ever
         /\ pc[o] = "idle" => pos[o] = 1
         /\ pc[o] = "record" => AtRecord(o)
         /\ pc[o] \in {"apply", "record"} => Behind(o)
=============================================================================
