------------------------------ MODULE Cutover ------------------------------
(***************************************************************************)
(* The start of the server up to its databases being open:                 *)
(* ensureSqlitePersistence imports the legacy stores into three databases, *)
(* or upgrades the activated ones to the schemas of the release that       *)
(* starts, and activateSqliteRuntime opens them.  The process may crash    *)
(* between any two steps on files, and any step may fail.  One process     *)
(* uses the data directory at a time, as docs/SQLITE_MIGRATION.md asks, so *)
(* a lock that is found was left behind by an earlier one.                 *)
(*                                                                         *)
(* A file is its schema version and the set of changes it holds: 0 is the  *)
(* content of the legacy stores, the others are changes made while the     *)
(* server was serving.  Of a telemetry database only the tables that every *)
(* schema keeps are meant.  Opening a path without a file makes an empty   *)
(* database, of schema 0.                                                  *)
(***************************************************************************)
EXTENDS Integers, Sequences, FiniteSets

CONSTANTS Releases,   \* the releases of the application
          Schemas,    \* the schema versions a release expects
          MaxChanges, \* bound: changes made while serving
          MaxCrashes, \* bound: crashes
          MaxFaults   \* bound: steps that fail

Names == {"core", "telemetry", "catalog"}

ASSUME SchemaAssumption ==
  /\ Schemas \in [Releases -> [Names -> Nat \ {0}]]
  /\ MaxChanges \in Nat
  /\ MaxCrashes \in Nat
  /\ MaxFaults \in Nat

VARIABLES active,   \* the files in databases/
          rollback, \* telemetry.sqlite.schema-v2.rollback
          marker,   \* persistence-engine.json
          pre,      \* the pre-sqlite backups, complete or not
          upgrades, \* the complete sqlite-upgrade backups
          failure,  \* persistence-migration-failure.json is there
          lock,     \* .sqlite-migration.lock
          pc,       \* the step the process is at
          rel,      \* the release that runs
          flow,     \* the first migration, an upgrade or neither
          staged,   \* files of the process that no other one reads
          seen,     \* the schema versions read at the start
          mine,     \* the pre-sqlite backup of this process
          changes, crashes, faults

disk == <<active, rollback, marker, pre, upgrades, failure, lock>>
local == <<rel, flow, staged, seen, mine>>
bounds == <<changes, crashes, faults>>
vars == <<disk, pc, local, bounds>>

NoFile == [schema |-> -1, data |-> {}]
Empty == [schema |-> 0, data |-> {}]
NoFiles == [n \in Names |-> NoFile]
NoMarker == [schemas |-> [n \in Names |-> 0], backup |-> 0]
NoLock == [state |-> "none", foreign |-> FALSE, old |-> FALSE]
Stored == 0..changes

Init ==
  /\ active = NoFiles
  /\ rollback = NoFile
  /\ marker = NoMarker
  /\ pre = {}
  /\ upgrades = {}
  /\ failure = FALSE
  /\ lock = NoLock
  /\ pc = "down"
  /\ rel \in Releases
  /\ flow = "none"
  /\ staged = NoFiles
  /\ seen = [n \in Names |-> 0]
  /\ mine = 0
  /\ changes = 0
  /\ crashes = 0
  /\ faults = 0

-----------------------------------------------------------------------------
(* The start *)

(* A release is started; an operator may go back to an older one. *)
Boot ==
  /\ pc \in {"down", "refused"}
  /\ pc' = "boot"
  /\ rel' \in Releases
  /\ flow' = "none"
  /\ staged' = NoFiles
  /\ seen' = [n \in Names |-> 0]
  /\ mine' = 0
  /\ UNCHANGED <<disk, bounds>>

(* readActivationMarker. *)
ReadMarker ==
  /\ pc = "boot"
  /\ IF marker = NoMarker THEN pc' = "lock" /\ flow' = "first"
     ELSE pc' = "inspect" /\ UNCHANGED flow
  /\ UNCHANGED <<disk, rel, staged, seen, mine, bounds>>

(* sqliteVersion opens the file for writing and makes it when it is not    *)
(* there.                                                                  *)
OpenedReadOnly(file) == file
Opened(file) == IF file = NoFile THEN Empty ELSE file

(* upgradeActivatedDatabases up to its lock. *)
Inspect ==
  LET now == [n \in Names |-> Opened(active[n]).schema] IN
  /\ pc = "inspect"
  /\ active' = [n \in Names |-> Opened(active[n])]
  /\ seen' = now
  /\ IF \E n \in Names : now[n] > Schemas[rel][n]
       THEN pc' = "refused" /\ UNCHANGED flow
     ELSE IF \E n \in Names : now[n] # Schemas[rel][n]
       THEN pc' = "lock" /\ flow' = "upgrade"
     ELSE /\ pc' = IF marker.schemas = now THEN "clear" ELSE "mark"
          /\ UNCHANGED flow
  /\ UNCHANGED <<rollback, marker, pre, upgrades, failure, lock, rel, staged,
                 mine, bounds>>

(* acquireLock: the file is made, then written. *)
MakeLock ==
  /\ pc = "lock"
  /\ lock = NoLock
  /\ lock' = [NoLock EXCEPT !.state = "made"]
  /\ pc' = "lockwrite"
  /\ UNCHANGED <<active, rollback, marker, pre, upgrades, failure, local, bounds>>

WriteLock ==
  /\ pc = "lockwrite"
  /\ lock' = [lock EXCEPT !.state = "held"]
  /\ pc' = IF flow = "first" THEN "backup" ELSE "copy"
  /\ UNCHANGED <<active, rollback, marker, pre, upgrades, failure, local, bounds>>

(* A lock is stale when it cannot be read, when it is old, or when its     *)
(* process has ended; the pid of that process may be another one's now.    *)
StaleUnlessForeign == lock.state = "made" \/ ~lock.foreign
Stale == lock.state = "made" \/ lock.old \/ ~lock.foreign

FindLock ==
  /\ pc = "lock"
  /\ lock # NoLock
  /\ IF Stale THEN lock' = NoLock /\ UNCHANGED pc
     ELSE pc' = "down" /\ UNCHANGED lock
  /\ UNCHANGED <<active, rollback, marker, pre, upgrades, failure, local, bounds>>

-----------------------------------------------------------------------------
(* The first migration *)

(* createMigrationBackup: the telemetry snapshot and the archive. *)
WriteBackup ==
  LET used == {b.id : b \in pre}
      id == CHOOSE i \in 1..(Cardinality(used) + 1) : i \notin used
  IN /\ pc = "backup"
     /\ mine' = id
     /\ pre' = pre \cup {[id |-> id, complete |-> FALSE]}
     /\ pc' = "manifest"
     /\ UNCHANGED <<active, rollback, marker, upgrades, failure, lock, rel, flow,
                    staged, seen, bounds>>

(* The key and the manifest. *)
WriteManifest ==
  /\ pc = "manifest"
  /\ pre' = {b \in pre : b.id # mine} \cup {[id |-> mine, complete |-> TRUE]}
  /\ pc' = "prune"
  /\ UNCHANGED <<active, rollback, marker, upgrades, failure, lock, local, bounds>>

(* pruneSupersededMigrationBackups removes the others one by one. *)
PruneBackup ==
  /\ pc = "prune"
  /\ \E b \in pre : b.id # mine /\ pre' = pre \ {b}
  /\ UNCHANGED <<active, rollback, marker, upgrades, failure, lock, pc, local,
                 bounds>>

PruneDone ==
  /\ pc = "prune"
  /\ \A b \in pre : b.id = mine
  /\ pc' = "stage core"
  /\ UNCHANGED <<disk, local, bounds>>

(* migrateCore, migrateTelemetry and rebuildCatalog in the staging root. *)
Stage(at, n, next) ==
  /\ pc = at
  /\ staged' = [staged EXCEPT ![n] =
       [schema |-> Schemas[rel][n], data |-> IF n = "catalog" THEN {} ELSE {0}]]
  /\ pc' = next
  /\ UNCHANGED <<disk, rel, flow, seen, mine, bounds>>

(* verifyDatabaseSet(staged). *)
VerifyStagedMarking ==
  /\ pc = "verify"
  /\ marker' = [schemas |-> [n \in Names |-> staged[n].schema], backup |-> mine]
  /\ pc' = "move core"
  /\ UNCHANGED <<active, rollback, pre, upgrades, failure, lock, local, bounds>>

VerifyStaged ==
  /\ pc = "verify"
  /\ pc' = "move core"
  /\ UNCHANGED <<disk, local, bounds>>

(* prepareDatabaseForAtomicMove and the rename. *)
Move(at, n, next) ==
  /\ pc = at
  /\ active' = [active EXCEPT ![n] = staged[n]]
  /\ staged' = [staged EXCEPT ![n] = NoFile]
  /\ pc' = next
  /\ UNCHANGED <<rollback, marker, pre, upgrades, failure, lock, rel, flow, seen,
                 mine, bounds>>

-----------------------------------------------------------------------------
(* The upgrade of activated databases *)

(* createActivatedDatabaseBackup. *)
CopyPruning ==
  /\ pc = "copy"
  /\ upgrades' = {active}
  /\ pc' = "core"
  /\ UNCHANGED <<active, rollback, marker, pre, failure, lock, local, bounds>>

CopyWithoutTelemetry ==
  /\ pc = "copy"
  /\ upgrades' = upgrades \cup {[active EXCEPT !["telemetry"] = NoFile]}
  /\ pc' = "core"
  /\ UNCHANGED <<active, rollback, marker, pre, failure, lock, local, bounds>>

Copy ==
  /\ pc = "copy"
  /\ upgrades' = upgrades \cup {active}
  /\ pc' = "core"
  /\ UNCHANGED <<active, rollback, marker, pre, failure, lock, local, bounds>>

(* applyCommittedMigrations: one migration, in a transaction. *)
MigrateCore ==
  /\ pc = "core"
  /\ active["core"].schema < Schemas[rel]["core"]
  /\ active' = [active EXCEPT !["core"].schema = @ + 1]
  /\ UNCHANGED <<rollback, marker, pre, upgrades, failure, lock, pc, local, bounds>>

CoreMigrated ==
  /\ pc = "core"
  /\ active["core"].schema = Schemas[rel]["core"]
  /\ pc' = "telemetry"
  /\ UNCHANGED <<disk, local, bounds>>

(* The beginning of compactTelemetryDatabaseIfNeeded, and its catch block. *)
Restored(file) == IF file = NoFile THEN rollback ELSE file
RollbackAfter(file) == IF file = NoFile THEN NoFile ELSE rollback

(* compactTelemetryDatabaseIfNeeded: a current database is left as it is,  *)
(* for another one the compact copy is built.                              *)
PrepareTelemetry ==
  LET file == Restored(active["telemetry"]) IN
  /\ pc = "telemetry"
  /\ active' = [active EXCEPT !["telemetry"] = file]
  /\ IF file.schema >= Schemas[rel]["telemetry"]
       THEN /\ rollback' = NoFile
            /\ pc' = "catalog"
            /\ UNCHANGED staged
       ELSE /\ rollback' = NoFile
            /\ staged' = [staged EXCEPT !["telemetry"] =
                 [schema |-> Schemas[rel]["telemetry"], data |-> file.data]]
            /\ pc' = "swap out"
  /\ UNCHANGED <<marker, pre, upgrades, failure, lock, rel, flow, seen, mine,
                 bounds>>

SwapOut ==
  /\ pc = "swap out"
  /\ rollback' = active["telemetry"]
  /\ active' = [active EXCEPT !["telemetry"] = NoFile]
  /\ pc' = "swap in"
  /\ UNCHANGED <<marker, pre, upgrades, failure, lock, local, bounds>>

SwapIn ==
  /\ pc = "swap in"
  /\ active' = [active EXCEPT !["telemetry"] = staged["telemetry"]]
  /\ staged' = [staged EXCEPT !["telemetry"] = NoFile]
  /\ pc' = "drop"
  /\ UNCHANGED <<rollback, marker, pre, upgrades, failure, lock, rel, flow, seen,
                 mine, bounds>>

DropRollback ==
  /\ pc = "drop"
  /\ rollback' = NoFile
  /\ pc' = "catalog"
  /\ UNCHANGED <<active, marker, pre, upgrades, failure, lock, local, bounds>>

(* rebuildCatalog beside the old one, which is then removed and replaced. *)
RemoveCatalog ==
  /\ pc = "catalog"
  /\ IF seen["catalog"] < Schemas[rel]["catalog"]
       THEN /\ active' = [active EXCEPT !["catalog"] = NoFile]
            /\ pc' = "rename catalog"
       ELSE pc' = "mark" /\ UNCHANGED active
  /\ UNCHANGED <<rollback, marker, pre, upgrades, failure, lock, local, bounds>>

RenameCatalog ==
  /\ pc = "rename catalog"
  /\ active' = [active EXCEPT !["catalog"] =
       [schema |-> Schemas[rel]["catalog"], data |-> {}]]
  /\ pc' = "mark"
  /\ UNCHANGED <<rollback, marker, pre, upgrades, failure, lock, local, bounds>>

-----------------------------------------------------------------------------
(* The end of either, and serving *)

(* verifyDatabaseSet(active) and writeActivationMarker, which renames a    *)
(* temporary file.  A reconciled marker keeps its backup, too.             *)
WriteMarker ==
  /\ pc = "mark"
  /\ \A n \in Names : active[n].schema = Schemas[rel][n]
  /\ marker' = [schemas |-> [n \in Names |-> active[n].schema],
                backup |-> IF flow = "first" THEN mine ELSE marker.backup]
  /\ pc' = "clear"
  /\ UNCHANGED <<active, rollback, pre, upgrades, failure, lock, local, bounds>>

(* The failure file, and the staging root of a first migration. *)
ClearFailure ==
  /\ pc = "clear"
  /\ failure' = FALSE
  /\ staged' = NoFiles
  /\ pc' = IF flow = "none" THEN "open" ELSE "release"
  /\ UNCHANGED <<active, rollback, marker, pre, upgrades, lock, rel, flow, seen,
                 mine, bounds>>

ReleaseLock ==
  /\ pc = "release"
  /\ lock' = NoLock
  /\ pc' = "open"
  /\ UNCHANGED <<active, rollback, marker, pre, upgrades, failure, local, bounds>>

(* activateSqliteRuntime: opening a current telemetry database removes a   *)
(* rollback file.                                                          *)
OpenRuntime ==
  /\ pc = "open"
  /\ rollback' = NoFile
  /\ pc' = "serving"
  /\ UNCHANGED <<active, marker, pre, upgrades, failure, lock, local, bounds>>

(* A change to the inventory and a report kept by the telemetry. *)
Change ==
  /\ pc = "serving"
  /\ changes < MaxChanges
  /\ changes' = changes + 1
  /\ active' = [n \in Names |-> IF n = "catalog" THEN active[n]
                  ELSE [active[n] EXCEPT !.data = @ \cup {changes + 1}]]
  /\ UNCHANGED <<rollback, marker, pre, upgrades, failure, lock, pc, local,
                 crashes, faults>>

Stop ==
  /\ pc = "serving"
  /\ pc' = "down"
  /\ UNCHANGED <<disk, local, bounds>>

-----------------------------------------------------------------------------
(* Errors and crashes *)

(* The steps outside the try blocks of the two migrations. *)
Outside == {"boot", "inspect", "lock", "lockwrite", "release", "open"}
Idle == {"down", "refused", "serving"}

(* The process ends and leaves its lock; its pid may go to another one. *)
LeaveLock ==
  IF lock.state = "held"
    THEN \E f \in BOOLEAN : lock' = [lock EXCEPT !.foreign = f]
    ELSE UNCHANGED lock

FailOutside ==
  /\ faults < MaxFaults
  /\ \/ pc \in Outside
     \/ flow = "none" /\ pc \in {"mark", "clear"}
  /\ faults' = faults + 1
  /\ pc' = "down"
  /\ LeaveLock
  /\ UNCHANGED <<active, rollback, marker, pre, upgrades, failure, local,
                 changes, crashes>>

(* The catch blocks: of the backup, of the compaction and of the migration *)
(* itself, and the finally block that releases the lock.                   *)
FailInside ==
  LET inBackup == pc \in {"manifest", "prune"} IN
  /\ faults < MaxFaults
  /\ pc \notin Outside \cup Idle
  /\ flow # "none"
  /\ faults' = faults + 1
  /\ pre' = IF inBackup THEN {b \in pre : b.id # mine} ELSE pre
  /\ IF pc = "swap in"
       THEN /\ active' = [active EXCEPT !["telemetry"] = Restored(@)]
            /\ rollback' = RollbackAfter(active["telemetry"])
       ELSE UNCHANGED <<active, rollback>>
  /\ staged' = NoFiles
  /\ failure' = TRUE
  /\ lock' = NoLock
  /\ pc' = "down"
  /\ UNCHANGED <<marker, upgrades, rel, flow, seen, mine, changes, crashes>>

Crash ==
  /\ crashes < MaxCrashes
  /\ pc \notin {"down", "refused"}
  /\ crashes' = crashes + 1
  /\ pc' = "down"
  /\ staged' = NoFiles
  /\ LeaveLock
  /\ UNCHANGED <<active, rollback, marker, pre, upgrades, failure, rel, flow,
                 seen, mine, changes, faults>>

(* LOCK_MAX_AGE_MS passes. *)
LockAges ==
  /\ lock.foreign
  /\ ~lock.old
  /\ lock' = [lock EXCEPT !.old = TRUE]
  /\ UNCHANGED <<active, rollback, marker, pre, upgrades, failure, pc, local,
                 bounds>>

-----------------------------------------------------------------------------
Startup ==
  \/ Boot \/ ReadMarker \/ Inspect \/ MakeLock \/ WriteLock \/ FindLock
  \/ WriteBackup \/ WriteManifest \/ PruneBackup \/ PruneDone
  \/ Stage("stage core", "core", "stage telemetry")
  \/ Stage("stage telemetry", "telemetry", "stage catalog")
  \/ Stage("stage catalog", "catalog", "verify")
  \/ VerifyStaged
  \/ Move("move core", "core", "move telemetry")
  \/ Move("move telemetry", "telemetry", "move catalog")
  \/ Move("move catalog", "catalog", "mark")
  \/ Copy \/ MigrateCore \/ CoreMigrated \/ PrepareTelemetry \/ SwapOut
  \/ SwapIn \/ DropRollback \/ RemoveCatalog \/ RenameCatalog
  \/ WriteMarker \/ ClearFailure \/ ReleaseLock \/ OpenRuntime

Next ==
  \/ Startup
  \/ Change \/ Stop
  \/ FailOutside \/ FailInside \/ Crash \/ LockAges

Spec == Init /\ [][Next]_vars

(* The supervisor starts a process that ended, the process goes on, and    *)
(* time passes.  Nothing is assumed of changes, stops, errors or crashes.  *)
Fairness == WF_vars(Startup) /\ WF_vars(LockAges)

FairSpec == Spec /\ Fairness

-----------------------------------------------------------------------------
Files == [schema : Nat \cup {-1}, data : SUBSET Nat]
Backups == [id : Nat \ {0}, complete : BOOLEAN]
Steps ==
  Idle \cup Outside \cup
  {"backup", "manifest", "prune", "stage core", "stage telemetry",
   "stage catalog", "verify", "move core", "move telemetry", "move catalog",
   "copy", "core", "telemetry", "swap out", "swap in", "drop", "catalog",
   "rename catalog", "mark", "clear"}

(* Files, marker, backups, lock and process keep their types; a version    *)
(* that was read is one a database can have.                               *)
TypeOK ==
  /\ active \in [Names -> Files]
  /\ rollback \in Files
  /\ marker \in [schemas : [Names -> Nat], backup : Nat]
  /\ pre \subseteq Backups
  /\ upgrades \subseteq [Names -> Files]
  /\ failure \in BOOLEAN
  /\ lock \in [state : {"none", "made", "held"}, foreign : BOOLEAN, old : BOOLEAN]
  /\ pc \in Steps
  /\ rel \in Releases
  /\ flow \in {"none", "first", "upgrade"}
  /\ staged \in [Names -> Files]
  /\ seen \in [Names -> Nat]
  /\ mine \in Nat
  /\ changes \in Nat /\ crashes \in Nat /\ faults \in Nat

(* Once the marker is written, the core database holds the imported state  *)
(* and every change since: no failed or interrupted start loses it or      *)
(* imports the legacy stores again (ensureSqlitePersistence).  What is     *)
(* served has the schemas of the release and the marker, and no failure    *)
(* is reported any more.                                                   *)
CoreKept ==
  /\ marker # NoMarker => active["core"].data = Stored
  /\ pc = "serving" =>
       /\ marker # NoMarker
       /\ \A n \in Names : active[n].schema = Schemas[rel][n]
       /\ marker.schemas = Schemas[rel]
       /\ ~failure

(* The way back stays open: the backup that the marker names is complete   *)
(* and never pruned, and while the core database is ahead of the marker a  *)
(* complete upgrade backup has it at the marker's schema with every change *)
(* (createMigrationBackup, createActivatedDatabaseBackup).                 *)
RollbackSetsKept ==
  marker # NoMarker =>
    /\ [id |-> marker.backup, complete |-> TRUE] \in pre
    /\ active["core"].schema # marker.schemas["core"] =>
         \E b \in upgrades : b["core"] = [schema |-> marker.schemas["core"],
                                          data |-> Stored]

(* No telemetry evidence is lost for good: what the database lacks after   *)
(* an interrupted compaction is in its rollback file or in an upgrade      *)
(* backup (compactTelemetryDatabaseIfNeeded).                              *)
TelemetryRecoverable ==
  marker # NoMarker =>
    \A c \in Stored :
      \/ c \in active["telemetry"].data
      \/ c \in rollback.data
      \/ \E b \in upgrades : c \in b["telemetry"].data

(* A start ends with the server serving, or refusing databases that are    *)
(* newer than the release: after crashes and errors, and also when the pid *)
(* in a lock left behind is another process's by now (acquireLock).        *)
StartupSettles == pc = "boot" ~> pc \in {"serving", "refused"}

=============================================================================
