--------------------------- MODULE CutoverProofs ---------------------------
(***************************************************************************)
(* The start of the server: the migration, the upgrade and the cutover     *)
(* keep the core database, the way back and the telemetry, for any set of  *)
(* releases and schemas and any number of changes, crashes and errors.     *)
(***************************************************************************)
EXTENDS Cutover, FiniteSetTheorems, TLAPS

-----------------------------------------------------------------------------
(* The inductive invariant *)

(* A file without a schema version is the missing one. *)
RealFiles == {f \in Files : f.schema = -1 => f = NoFile}

FilesOK ==
  /\ active \in [Names -> RealFiles]
  /\ rollback \in RealFiles
  /\ staged \in [Names -> RealFiles]

FirstSteps ==
  {"backup", "manifest", "prune", "stage core", "stage telemetry",
   "stage catalog", "verify", "move core", "move telemetry", "move catalog"}
UpgradeSteps ==
  {"copy", "core", "telemetry", "swap out", "swap in", "drop", "catalog",
   "rename catalog"}

(* A step of a migration is taken in its own flow, and the first migration *)
(* is the one that has no marker.                                          *)
FlowOK ==
  /\ pc \in {"boot", "inspect"} => flow = "none"
  /\ pc \in {"lock", "lockwrite"} => flow # "none"
  /\ pc \in FirstSteps => flow = "first"
  /\ pc \in UpgradeSteps => flow = "upgrade"
  /\ pc = "inspect" => marker # NoMarker
  /\ pc \in {"lock", "lockwrite", "mark"} \cup FirstSteps \cup UpgradeSteps =>
       (marker = NoMarker <=> flow = "first")
  /\ marker = NoMarker => changes = 0

(* The end of a first migration, which writes the marker. *)
Marking == pc = "mark" /\ flow = "first"

(* The backup of a first migration is complete from its manifest on, and   *)
(* the one the marker names stays.                                         *)
BackupOK ==
  /\ IsFiniteSet(pre)
  /\ pc = "manifest" => mine # 0
  /\ pc \in FirstSteps \ {"backup", "manifest"} \/ Marking =>
       [id |-> mine, complete |-> TRUE] \in pre
  /\ marker # NoMarker => [id |-> marker.backup, complete |-> TRUE] \in pre

(* Where the imported legacy state is, before the marker is written. *)
ImportOK ==
  /\ pc \in {"stage telemetry", "stage catalog", "verify", "move core"} =>
       staged["core"].data = {0}
  /\ pc \in {"stage catalog", "verify", "move core", "move telemetry"} =>
       staged["telemetry"].data = {0}
  /\ pc \in {"move telemetry", "move catalog"} \/ Marking =>
       active["core"].data = {0}
  /\ pc = "move catalog" \/ Marking => active["telemetry"].data = {0}

(* A complete upgrade backup has the core database as the marker names it. *)
CoreCopied ==
  \E b \in upgrades : b["core"] = [schema |-> marker.schemas["core"],
                                   data |-> Stored]

(* Upgrade backups hold the telemetry. *)
TelemetryCopied ==
  \A c \in Stored : \E b \in upgrades : c \in b["telemetry"].data

(* After its copy an upgrade depends on nothing it may lose. *)
UpgradeOK ==
  /\ pc \in UpgradeSteps \ {"copy"} => CoreCopied /\ TelemetryCopied
  /\ marker # NoMarker =>
       /\ active["core"].data = Stored
       /\ active["core"].schema # marker.schemas["core"] => CoreCopied
       /\ \A c \in Stored :
            \/ c \in active["telemetry"].data
            \/ \E b \in upgrades : c \in b["telemetry"].data

(* From the marker on, the databases are the ones of the release. *)
ServedOK ==
  /\ pc \in {"clear", "release", "open", "serving"} =>
       /\ marker.schemas = Schemas[rel]
       /\ \A n \in Names : active[n].schema = Schemas[rel][n]
  /\ pc \in {"release", "open", "serving"} => ~failure

(* The types of the lock file. *)
Locks == [state : {"none", "made", "held"}, foreign : BOOLEAN, old : BOOLEAN]

IInv ==
  /\ TypeOK
  /\ FilesOK
  /\ FlowOK
  /\ BackupOK
  /\ ImportOK
  /\ UpgradeOK
  /\ ServedOK

-----------------------------------------------------------------------------
(* Lemmas *)

(* A database written with a schema version is a file. *)
LEMMA WrittenFile ==
  ASSUME NEW s \in Nat, NEW d \in SUBSET Nat
  PROVE  [schema |-> s, data |-> d] \in RealFiles
BY DEF RealFiles, Files

(* So is an imported or rebuilt one. *)
LEMMA ImportedFile ==
  ASSUME NEW s \in Nat
  PROVE  /\ [schema |-> s, data |-> {0}] \in RealFiles
         /\ [schema |-> s, data |-> {}] \in RealFiles
<1>1. {0} \in SUBSET Nat /\ {} \in SUBSET Nat
  OBVIOUS
<1> QED
  BY <1>1, WrittenFile

(* The names that actions use. *)
LEMMA TheNames ==
  "core" \in Names /\ "telemetry" \in Names /\ "catalog" \in Names
BY DEF Names

(* The missing file and the one that opening makes are files. *)
LEMMA OtherFiles == NoFile \in RealFiles /\ Empty \in RealFiles
BY DEF RealFiles, Files, NoFile, Empty

(* An opened file has a schema version (sqliteVersion). *)
LEMMA OpenedFile ==
  ASSUME NEW f \in RealFiles
  PROVE  Opened(f) \in RealFiles /\ Opened(f).schema \in Nat
BY DEF RealFiles, Files, NoFile, Empty, Opened

(* A replaced file leaves the set of files one. *)
LEMMA FileReplaced ==
  ASSUME NEW fs \in [Names -> RealFiles], NEW n \in Names, NEW f \in RealFiles
  PROVE  [fs EXCEPT ![n] = f] \in [Names -> RealFiles]
OBVIOUS

(* What a release expects is a version. *)
LEMMA SchemaIsVersion ==
  ASSUME NEW r \in Releases
  PROVE  /\ Schemas[r] \in [Names -> Nat]
         /\ \A n \in Names : Schemas[r][n] \in Nat /\ Schemas[r][n] > 0
BY SchemaAssumption

(* A marker with the schemas of a release is a marker. *)
LEMMA SchemaIsNoMarker ==
  ASSUME NEW r \in Releases, marker.schemas = Schemas[r]
  PROVE  marker # NoMarker
BY SchemaIsVersion DEF NoMarker, Names

(* A finite set of ids leaves one of the next ids unused, so that          *)
(* createMigrationBackup finds a name for its directory.                   *)
LEMMA FreshId ==
  ASSUME NEW used, IsFiniteSet(used)
  PROVE  \E i \in 1..(Cardinality(used) + 1) : i \notin used
<1> DEFINE n == Cardinality(used)
<1>1. n \in Nat
  BY FS_CardinalityType
<1>2. SUFFICES ASSUME 1..(n + 1) \subseteq used PROVE FALSE
  OBVIOUS
<1>3. Cardinality(1..(n + 1)) <= n
  BY <1>2, FS_Subset
<1>4. Cardinality(1..(n + 1)) = n + 1
  BY <1>1, FS_Interval
<1> QED
  BY <1>1, <1>3, <1>4

(* A released lock. *)
LEMMA NoLockType == NoLock \in Locks
BY DEF NoLock, Locks

(* An ended process leaves a lock of the same type. *)
LEMMA LeaveLockType ==
  ASSUME TypeOK, LeaveLock
  PROVE  lock' \in Locks
<1>1. CASE lock.state = "held"
  <2>1. PICK f \in BOOLEAN : lock' = [lock EXCEPT !.foreign = f]
    BY <1>1 DEF LeaveLock
  <2> QED
    BY <2>1 DEF TypeOK, Locks
<1>2. CASE lock.state # "held"
  BY <1>2 DEF LeaveLock, TypeOK, Locks
<1> QED
  BY <1>1, <1>2

(* The backup of a first migration gets an id of its own. *)
LEMMA FreshMine ==
  ASSUME IInv, WriteBackup
  PROVE  /\ mine' \in Nat \ {0}
         /\ pre' = pre \cup {[id |-> mine', complete |-> FALSE]}
<1> DEFINE used == {b.id : b \in pre}
           id == CHOOSE i \in 1..(Cardinality(used) + 1) : i \notin used
<1>1. IsFiniteSet(used)
  <2>1. [b \in pre |-> b.id] \in Surjection(pre, used)
    BY DEF Surjection
  <2> QED
    BY <2>1, FS_Surjection DEF IInv, BackupOK
<1>2. \E i \in 1..(Cardinality(used) + 1) : i \notin used
  BY <1>1, FreshId
<1>3. id \in 1..(Cardinality(used) + 1) /\ id \notin used
  BY <1>2
<1>4. Cardinality(used) \in Nat
  BY <1>1, FS_CardinalityType
<1>5. mine' = id /\ pre' = pre \cup {[id |-> id, complete |-> FALSE]}
  BY DEF WriteBackup
<1> HIDE DEF id
<1>6. id \in Nat \ {0}
  BY <1>3, <1>4
<1> QED
  BY <1>5, <1>6

-----------------------------------------------------------------------------
(* The actions *)

(* The steps up to the lock (ensureSqlitePersistence,                      *)
(* upgradeActivatedDatabases, acquireLock) keep the invariant.             *)
LEMMA StartKeeps ==
  ASSUME IInv, \/ Boot \/ ReadMarker \/ Inspect \/ MakeLock \/ WriteLock
               \/ FindLock
  PROVE  IInv'
<1> USE DEF IInv, disk, local, bounds
<1>1. CASE Boot
  <2>1. TypeOK' /\ FilesOK'
    BY <1>1, OtherFiles DEF Boot, TypeOK, FilesOK, Steps, Idle, Outside,
       RealFiles, Files, NoFiles
  <2>2. FlowOK' /\ ServedOK'
    BY <1>1 DEF Boot, TypeOK, FlowOK, ServedOK, FirstSteps, UpgradeSteps
  <2>3. BackupOK'
    BY <1>1 DEF Boot, BackupOK, FlowOK, Marking, FirstSteps, UpgradeSteps
  <2>4. ImportOK' /\ UpgradeOK'
    BY <1>1 DEF Boot, ImportOK, UpgradeOK, CoreCopied, TelemetryCopied,
       Stored, FlowOK, Marking, FirstSteps, UpgradeSteps
  <2> QED
    BY <2>1, <2>2, <2>3, <2>4
<1>2. CASE ReadMarker
  <2>1. TypeOK' /\ FilesOK'
    BY <1>2 DEF ReadMarker, TypeOK, FilesOK, Steps, Idle, Outside,
       RealFiles, Files
  <2>2. FlowOK' /\ ServedOK'
    BY <1>2 DEF ReadMarker, TypeOK, FlowOK, ServedOK, FirstSteps,
       UpgradeSteps
  <2>3. BackupOK'
    BY <1>2 DEF ReadMarker, BackupOK, FlowOK, Marking, FirstSteps,
       UpgradeSteps
  <2>4. ImportOK' /\ UpgradeOK'
    BY <1>2 DEF ReadMarker, ImportOK, UpgradeOK, CoreCopied,
       TelemetryCopied, Stored, FlowOK, Marking, FirstSteps, UpgradeSteps
  <2> QED
    BY <2>1, <2>2, <2>3, <2>4
<1>3. CASE Inspect
  <2>1. TypeOK' /\ FilesOK'
    <3>1. \A n \in Names :
            /\ Opened(active[n]) \in RealFiles
            /\ Opened(active[n]).schema \in Nat
      BY OpenedFile DEF FilesOK
    <3>2. /\ active' = [n \in Names |-> Opened(active[n])]
          /\ seen' = [n \in Names |-> Opened(active[n]).schema]
      BY <1>3 DEF Inspect
    <3>3. active' \in [Names -> RealFiles] /\ seen' \in [Names -> Nat]
      BY <3>1, <3>2
    <3> QED
      BY <1>3, <3>3 DEF Inspect, TypeOK, FilesOK, RealFiles, Steps, Idle,
         Outside
  <2>2. FlowOK' /\ ServedOK'
    <3> DEFINE now == [n \in Names |-> Opened(active[n]).schema]
    <3>1. /\ marker # NoMarker /\ flow = "none"
          /\ UNCHANGED <<marker, changes, rel>>
      BY <1>3 DEF Inspect, FlowOK
    <3>2. \/ pc' = "refused"
          \/ pc' = "lock" /\ flow' = "upgrade"
          \/ /\ pc' \in {"clear", "mark"} /\ flow' = flow
             /\ \A n \in Names : now[n] = Schemas[rel][n]
             /\ pc' = "clear" => marker.schemas = now
      BY <1>3 DEF Inspect
    <3>3. \A n \in Names : active'[n].schema = now[n]
      BY <1>3 DEF Inspect
    <3> HIDE DEF now
    <3>4. FlowOK'
      BY <3>1, <3>2 DEF FlowOK, FirstSteps, UpgradeSteps, NoMarker
    <3>5. pc' = "clear" => marker.schemas = Schemas[rel]
      <4> SUFFICES ASSUME pc' = "clear" PROVE now = Schemas[rel]
        BY <3>2
      <4>1. \A n \in Names : now[n] = Schemas[rel][n]
        BY <3>2
      <4> QED
        BY <4>1, SchemaIsVersion DEF now, TypeOK
    <3> QED
      BY <3>1, <3>2, <3>3, <3>4, <3>5 DEF ServedOK
  <2>3. BackupOK'
    BY <1>3 DEF Inspect, BackupOK, FlowOK, Marking, FirstSteps,
       UpgradeSteps
  <2>4. ImportOK' /\ UpgradeOK'
    <3>1. \A n \in Names :
            /\ active'[n].data = active[n].data
            /\ active[n] # NoFile => active'[n] = active[n]
      BY <1>3 DEF Inspect, Opened, NoFile, Empty
    <3>2. active["core"].data = Stored
      BY <1>3 DEF Inspect, UpgradeOK, FlowOK
    <3>3. 0 \in active["core"].data
      BY <3>2 DEF Stored, TypeOK
    <3>4. active'["core"] = active["core"]
      BY <3>1, <3>3, TheNames DEF NoFile
    <3>5. active'["telemetry"].data = active["telemetry"].data
      BY <3>1, TheNames
    <3> QED
      BY <1>3, <3>4, <3>5 DEF Inspect, ImportOK, UpgradeOK, CoreCopied,
         TelemetryCopied, Stored, FlowOK, Marking, FirstSteps,
         UpgradeSteps
  <2> QED
    BY <2>1, <2>2, <2>3, <2>4
<1>4. CASE MakeLock
  <2>1. TypeOK' /\ FilesOK'
    BY <1>4 DEF MakeLock, NoLock, TypeOK, FilesOK, Steps, Idle, Outside,
       RealFiles, Files
  <2>2. FlowOK' /\ ServedOK'
    BY <1>4 DEF MakeLock, NoLock, TypeOK, FlowOK, ServedOK, FirstSteps,
       UpgradeSteps
  <2>3. BackupOK'
    BY <1>4 DEF MakeLock, NoLock, BackupOK, FlowOK, Marking, FirstSteps,
       UpgradeSteps
  <2>4. ImportOK' /\ UpgradeOK'
    BY <1>4 DEF MakeLock, NoLock, ImportOK, UpgradeOK, CoreCopied,
       TelemetryCopied, Stored, FlowOK, Marking, FirstSteps, UpgradeSteps
  <2> QED
    BY <2>1, <2>2, <2>3, <2>4
<1>5. CASE WriteLock
  <2>1. TypeOK' /\ FilesOK'
    BY <1>5 DEF WriteLock, TypeOK, FilesOK, Steps, Idle, Outside,
       RealFiles, Files
  <2>2. FlowOK' /\ ServedOK'
    BY <1>5 DEF WriteLock, TypeOK, FlowOK, ServedOK, FirstSteps,
       UpgradeSteps
  <2>3. BackupOK'
    BY <1>5 DEF WriteLock, BackupOK, FlowOK, Marking, FirstSteps,
       UpgradeSteps
  <2>4. ImportOK' /\ UpgradeOK'
    BY <1>5 DEF WriteLock, ImportOK, UpgradeOK, CoreCopied,
       TelemetryCopied, Stored, FlowOK, Marking, FirstSteps, UpgradeSteps
  <2> QED
    BY <2>1, <2>2, <2>3, <2>4
<1>6. CASE FindLock
  <2>1. TypeOK' /\ FilesOK'
    <3>1. lock' \in {lock, NoLock} /\ pc' \in {pc, "down"}
      BY <1>6 DEF FindLock
    <3>2. lock' \in Locks
      BY <3>1, NoLockType DEF TypeOK, Locks
    <3> QED
      BY <1>6, <3>1, <3>2 DEF FindLock, TypeOK, FilesOK, Locks, Steps, Idle
  <2>2. FlowOK' /\ ServedOK'
    BY <1>6 DEF FindLock, TypeOK, FlowOK, ServedOK, FirstSteps,
       UpgradeSteps
  <2>3. BackupOK'
    BY <1>6 DEF FindLock, BackupOK, FlowOK, Marking, FirstSteps,
       UpgradeSteps
  <2>4. ImportOK' /\ UpgradeOK'
    BY <1>6 DEF FindLock, ImportOK, UpgradeOK, CoreCopied, TelemetryCopied,
       Stored, FlowOK, Marking, FirstSteps, UpgradeSteps
  <2> QED
    BY <2>1, <2>2, <2>3, <2>4
<1> QED
  BY <1>1, <1>2, <1>3, <1>4, <1>5, <1>6

(* The steps of the first migration (createMigrationBackup,                *)
(* pruneSupersededMigrationBackups, migrateCore, migrateTelemetry,         *)
(* rebuildCatalog, the renames) keep the invariant.                        *)
LEMMA FirstMigrationKeeps ==
  ASSUME IInv, \/ WriteBackup \/ WriteManifest \/ PruneBackup \/ PruneDone
               \/ Stage("stage core", "core", "stage telemetry")
               \/ Stage("stage telemetry", "telemetry", "stage catalog")
               \/ Stage("stage catalog", "catalog", "verify") \/ VerifyStaged
               \/ Move("move core", "core", "move telemetry")
               \/ Move("move telemetry", "telemetry", "move catalog")
               \/ Move("move catalog", "catalog", "mark")
  PROVE  IInv'
<1> USE DEF IInv, disk, local, bounds
<1>1. CASE WriteBackup
  <2>1. TypeOK' /\ FilesOK'
    <3>1. /\ mine' \in Nat \ {0}
          /\ pre' = pre \cup {[id |-> mine', complete |-> FALSE]}
      BY <1>1, FreshMine
    <3>2. [id |-> mine', complete |-> FALSE] \in Backups
      BY <3>1 DEF Backups
    <3>3. pre' \subseteq Backups
      BY <3>1, <3>2 DEF TypeOK
    <3> QED
      BY <1>1, <3>1, <3>3 DEF WriteBackup, TypeOK, FilesOK, Steps
  <2>2. FlowOK' /\ ServedOK'
    BY <1>1 DEF WriteBackup, TypeOK, FlowOK, ServedOK, FirstSteps,
       UpgradeSteps
  <2>3. BackupOK'
    <3>1. mine' # 0
      BY <1>1, FreshMine
    <3>2. IsFiniteSet(pre')
      BY <1>1, FS_AddElement DEF WriteBackup, BackupOK
    <3> QED
      BY <1>1, <3>1, <3>2 DEF WriteBackup, BackupOK, FlowOK, Marking,
         FirstSteps
  <2>4. ImportOK' /\ UpgradeOK'
    BY <1>1 DEF WriteBackup, ImportOK, UpgradeOK, CoreCopied,
       TelemetryCopied, Stored, FlowOK, Marking, FirstSteps, UpgradeSteps
  <2> QED
    BY <2>1, <2>2, <2>3, <2>4
<1>2. CASE WriteManifest
  <2>1. TypeOK' /\ FilesOK'
    <3>1. [id |-> mine, complete |-> TRUE] \in Backups
      BY <1>2 DEF WriteManifest, BackupOK, TypeOK, Backups
    <3>2. pre' \subseteq Backups
      BY <1>2, <3>1 DEF WriteManifest, TypeOK
    <3> QED
      BY <1>2, <3>2 DEF WriteManifest, TypeOK, FilesOK, Steps
  <2>2. FlowOK' /\ ServedOK'
    BY <1>2 DEF WriteManifest, TypeOK, FlowOK, ServedOK, FirstSteps,
       UpgradeSteps
  <2>3. BackupOK'
    <3>1. IsFiniteSet({b \in pre : b.id # mine})
      BY FS_Subset DEF BackupOK
    <3>2. IsFiniteSet(pre')
      BY <1>2, <3>1, FS_AddElement DEF WriteManifest
    <3> QED
      BY <1>2, <3>2 DEF WriteManifest, BackupOK, FlowOK, Marking, FirstSteps
  <2>4. ImportOK' /\ UpgradeOK'
    BY <1>2 DEF WriteManifest, ImportOK, UpgradeOK, CoreCopied,
       TelemetryCopied, Stored, FlowOK, Marking, FirstSteps, UpgradeSteps
  <2> QED
    BY <2>1, <2>2, <2>3, <2>4
<1>3. CASE PruneBackup
  <2>1. TypeOK' /\ FilesOK'
    BY <1>3 DEF PruneBackup, TypeOK, FilesOK, Steps, Idle, Outside,
       RealFiles, Files
  <2>2. FlowOK' /\ ServedOK'
    BY <1>3 DEF PruneBackup, TypeOK, FlowOK, ServedOK, FirstSteps,
       UpgradeSteps
  <2>3. BackupOK'
    <3>1. PICK b \in pre : b.id # mine /\ pre' = pre \ {b}
      BY <1>3 DEF PruneBackup
    <3>2. IsFiniteSet(pre')
      BY <3>1, FS_Subset DEF BackupOK
    <3>3. [id |-> mine, complete |-> TRUE].id = mine
      OBVIOUS
    <3>4. [id |-> mine, complete |-> TRUE] # b
      BY <3>1, <3>3
    <3> QED
      BY <1>3, <3>1, <3>2, <3>4
      DEF PruneBackup, BackupOK, FlowOK, Marking, FirstSteps
  <2>4. ImportOK' /\ UpgradeOK'
    BY <1>3 DEF PruneBackup, ImportOK, UpgradeOK, CoreCopied,
       TelemetryCopied, Stored, FlowOK, Marking, FirstSteps, UpgradeSteps
  <2> QED
    BY <2>1, <2>2, <2>3, <2>4
<1>4. CASE PruneDone
  <2>1. TypeOK' /\ FilesOK'
    BY <1>4 DEF PruneDone, TypeOK, FilesOK, Steps, Idle, Outside,
       RealFiles, Files
  <2>2. FlowOK' /\ ServedOK'
    BY <1>4 DEF PruneDone, TypeOK, FlowOK, ServedOK, FirstSteps,
       UpgradeSteps
  <2>3. BackupOK'
    BY <1>4 DEF PruneDone, BackupOK, FlowOK, Marking, FirstSteps,
       UpgradeSteps
  <2>4. ImportOK' /\ UpgradeOK'
    BY <1>4 DEF PruneDone, ImportOK, UpgradeOK, CoreCopied,
       TelemetryCopied, Stored, FlowOK, Marking, FirstSteps, UpgradeSteps
  <2> QED
    BY <2>1, <2>2, <2>3, <2>4
<1>5. CASE Stage("stage core", "core", "stage telemetry")
  <2>1. TypeOK' /\ FilesOK'
    <3>1. [schema |-> Schemas[rel]["core"], data |-> {0}] \in RealFiles
      BY ImportedFile, SchemaIsVersion, TheNames DEF TypeOK
    <3>2. staged' = [staged EXCEPT !["core"] =
                       [schema |-> Schemas[rel]["core"], data |-> {0}]]
      BY <1>5 DEF Stage
    <3>3. staged' \in [Names -> RealFiles]
      BY <3>1, <3>2, FileReplaced DEF FilesOK, Names
    <3> QED
      BY <1>5, <3>3 DEF Stage, TypeOK, FilesOK, RealFiles, Steps
  <2>2. FlowOK' /\ ServedOK'
    BY <1>5 DEF Stage, TypeOK, FlowOK, ServedOK, FirstSteps, UpgradeSteps
  <2>3. BackupOK'
    BY <1>5 DEF Stage, BackupOK, FlowOK, Marking, FirstSteps, UpgradeSteps
  <2>4. ImportOK' /\ UpgradeOK'
    BY <1>5 DEF Stage, ImportOK, UpgradeOK, CoreCopied, TelemetryCopied,
       Stored, FlowOK, Marking, FirstSteps, UpgradeSteps, TypeOK, Files,
       Names
  <2> QED
    BY <2>1, <2>2, <2>3, <2>4
<1>6. CASE Stage("stage telemetry", "telemetry", "stage catalog")
  <2>1. TypeOK' /\ FilesOK'
    <3>1. [schema |-> Schemas[rel]["telemetry"], data |-> {0}] \in RealFiles
      BY ImportedFile, SchemaIsVersion, TheNames DEF TypeOK
    <3>2. staged' = [staged EXCEPT !["telemetry"] =
                       [schema |-> Schemas[rel]["telemetry"], data |-> {0}]]
      BY <1>6 DEF Stage
    <3>3. staged' \in [Names -> RealFiles]
      BY <3>1, <3>2, FileReplaced DEF FilesOK, Names
    <3> QED
      BY <1>6, <3>3 DEF Stage, TypeOK, FilesOK, RealFiles, Steps
  <2>2. FlowOK' /\ ServedOK'
    BY <1>6 DEF Stage, TypeOK, FlowOK, ServedOK, FirstSteps, UpgradeSteps
  <2>3. BackupOK'
    BY <1>6 DEF Stage, BackupOK, FlowOK, Marking, FirstSteps, UpgradeSteps
  <2>4. ImportOK' /\ UpgradeOK'
    BY <1>6 DEF Stage, ImportOK, UpgradeOK, CoreCopied, TelemetryCopied,
       Stored, FlowOK, Marking, FirstSteps, UpgradeSteps, TypeOK, Files,
       Names
  <2> QED
    BY <2>1, <2>2, <2>3, <2>4
<1>7. CASE Stage("stage catalog", "catalog", "verify")
  <2>1. TypeOK' /\ FilesOK'
    <3>1. [schema |-> Schemas[rel]["catalog"], data |-> {}] \in RealFiles
      BY ImportedFile, SchemaIsVersion, TheNames DEF TypeOK
    <3>2. staged' = [staged EXCEPT !["catalog"] =
                       [schema |-> Schemas[rel]["catalog"], data |-> {}]]
      BY <1>7 DEF Stage
    <3>3. staged' \in [Names -> RealFiles]
      BY <3>1, <3>2, FileReplaced DEF FilesOK, Names
    <3> QED
      BY <1>7, <3>3 DEF Stage, TypeOK, FilesOK, RealFiles, Steps
  <2>2. FlowOK' /\ ServedOK'
    BY <1>7 DEF Stage, TypeOK, FlowOK, ServedOK, FirstSteps, UpgradeSteps
  <2>3. BackupOK'
    BY <1>7 DEF Stage, BackupOK, FlowOK, Marking, FirstSteps, UpgradeSteps
  <2>4. ImportOK' /\ UpgradeOK'
    BY <1>7 DEF Stage, ImportOK, UpgradeOK, CoreCopied, TelemetryCopied,
       Stored, FlowOK, Marking, FirstSteps, UpgradeSteps, TypeOK, Files,
       Names
  <2> QED
    BY <2>1, <2>2, <2>3, <2>4
<1>8. CASE VerifyStaged
  <2>1. TypeOK' /\ FilesOK'
    BY <1>8 DEF VerifyStaged, TypeOK, FilesOK, Steps, Idle, Outside,
       RealFiles, Files
  <2>2. FlowOK' /\ ServedOK'
    BY <1>8 DEF VerifyStaged, TypeOK, FlowOK, ServedOK, FirstSteps,
       UpgradeSteps
  <2>3. BackupOK'
    BY <1>8 DEF VerifyStaged, BackupOK, FlowOK, Marking, FirstSteps,
       UpgradeSteps
  <2>4. ImportOK' /\ UpgradeOK'
    BY <1>8 DEF VerifyStaged, ImportOK, UpgradeOK, CoreCopied,
       TelemetryCopied, Stored, FlowOK, Marking, FirstSteps, UpgradeSteps
  <2> QED
    BY <2>1, <2>2, <2>3, <2>4
<1>9. CASE Move("move core", "core", "move telemetry")
  <2>1. TypeOK' /\ FilesOK'
    BY <1>9, OtherFiles DEF Move, TypeOK, FilesOK, Steps, Idle, Outside,
       RealFiles, Files, Names
  <2>2. FlowOK' /\ ServedOK'
    BY <1>9 DEF Move, TypeOK, FlowOK, ServedOK, FirstSteps, UpgradeSteps
  <2>3. BackupOK'
    BY <1>9 DEF Move, BackupOK, FlowOK, Marking, FirstSteps, UpgradeSteps
  <2>4. ImportOK' /\ UpgradeOK'
    BY <1>9 DEF Move, ImportOK, UpgradeOK, CoreCopied, TelemetryCopied,
       Stored, FlowOK, Marking, FirstSteps, UpgradeSteps, TypeOK, Files,
       Names
  <2> QED
    BY <2>1, <2>2, <2>3, <2>4
<1>10. CASE Move("move telemetry", "telemetry", "move catalog")
  <2>1. TypeOK' /\ FilesOK'
    BY <1>10, OtherFiles DEF Move, TypeOK, FilesOK, Steps, Idle, Outside,
       RealFiles, Files, Names
  <2>2. FlowOK' /\ ServedOK'
    BY <1>10 DEF Move, TypeOK, FlowOK, ServedOK, FirstSteps, UpgradeSteps
  <2>3. BackupOK'
    BY <1>10 DEF Move, BackupOK, FlowOK, Marking, FirstSteps, UpgradeSteps
  <2>4. ImportOK' /\ UpgradeOK'
    BY <1>10 DEF Move, ImportOK, UpgradeOK, CoreCopied, TelemetryCopied,
       Stored, FlowOK, Marking, FirstSteps, UpgradeSteps, TypeOK, Files,
       Names
  <2> QED
    BY <2>1, <2>2, <2>3, <2>4
<1>11. CASE Move("move catalog", "catalog", "mark")
  <2>1. TypeOK' /\ FilesOK'
    BY <1>11, OtherFiles DEF Move, TypeOK, FilesOK, Steps, Idle, Outside,
       RealFiles, Files, Names
  <2>2. FlowOK' /\ ServedOK'
    BY <1>11 DEF Move, TypeOK, FlowOK, ServedOK, FirstSteps, UpgradeSteps
  <2>3. BackupOK'
    BY <1>11 DEF Move, BackupOK, FlowOK, Marking, FirstSteps, UpgradeSteps
  <2>4. ImportOK' /\ UpgradeOK'
    BY <1>11 DEF Move, ImportOK, UpgradeOK, CoreCopied, TelemetryCopied,
       Stored, FlowOK, Marking, FirstSteps, UpgradeSteps, TypeOK, Files,
       Names
  <2> QED
    BY <2>1, <2>2, <2>3, <2>4
<1> QED
  BY <1>1, <1>2, <1>3, <1>4, <1>5, <1>6, <1>7, <1>8, <1>9, <1>10, <1>11

(* The steps of an upgrade (createActivatedDatabaseBackup,                 *)
(* applyCommittedMigrations, compactTelemetryDatabaseIfNeeded,             *)
(* rebuildCatalog) keep the invariant.                                     *)
LEMMA UpgradeKeeps ==
  ASSUME IInv, \/ Copy \/ MigrateCore \/ CoreMigrated \/ PrepareTelemetry
               \/ SwapOut \/ SwapIn \/ DropRollback \/ RemoveCatalog
               \/ RenameCatalog
  PROVE  IInv'
<1> USE DEF IInv, disk, local, bounds
<1>1. CASE Copy
  <2>1. TypeOK' /\ FilesOK'
    BY <1>1 DEF Copy, TypeOK, FilesOK, Steps, Idle, Outside, RealFiles,
       Files
  <2>2. FlowOK' /\ ServedOK'
    BY <1>1 DEF Copy, TypeOK, FlowOK, ServedOK, FirstSteps, UpgradeSteps
  <2>3. BackupOK'
    BY <1>1 DEF Copy, BackupOK, FlowOK, Marking, FirstSteps, UpgradeSteps
  <2>4. ImportOK' /\ UpgradeOK'
    BY <1>1 DEF Copy, ImportOK, UpgradeOK, CoreCopied, TelemetryCopied,
       Stored, FlowOK, Marking, FirstSteps, UpgradeSteps, TypeOK, Files,
       Names
  <2> QED
    BY <2>1, <2>2, <2>3, <2>4
<1>2. CASE MigrateCore
  <2>1. TypeOK' /\ FilesOK'
    <3>1. active["core"].schema + 1 \in Nat /\ active["core"].data \in SUBSET Nat
      BY DEF TypeOK, Files, Names
    <3>2. [active["core"] EXCEPT !.schema = @ + 1]
            = [schema |-> active["core"].schema + 1, data |-> active["core"].data]
      BY DEF TypeOK, Files, Names
    <3>3. [active["core"] EXCEPT !.schema = @ + 1] \in RealFiles
      BY <3>1, <3>2, WrittenFile
    <3>4. active' = [active EXCEPT !["core"] = [active["core"] EXCEPT !.schema = @ + 1]]
      BY <1>2 DEF MigrateCore
    <3>5. active' \in [Names -> RealFiles]
      BY <3>3, <3>4, FileReplaced DEF FilesOK, Names
    <3> QED
      BY <1>2, <3>5 DEF MigrateCore, TypeOK, FilesOK, RealFiles
  <2>2. FlowOK' /\ ServedOK'
    BY <1>2 DEF MigrateCore, TypeOK, FlowOK, ServedOK, FirstSteps,
       UpgradeSteps
  <2>3. BackupOK'
    BY <1>2 DEF MigrateCore, BackupOK, FlowOK, Marking, FirstSteps,
       UpgradeSteps
  <2>4. ImportOK' /\ UpgradeOK'
    BY <1>2 DEF MigrateCore, ImportOK, UpgradeOK, CoreCopied,
       TelemetryCopied, Stored, FlowOK, Marking, FirstSteps, UpgradeSteps
  <2> QED
    BY <2>1, <2>2, <2>3, <2>4
<1>3. CASE CoreMigrated
  <2>1. TypeOK' /\ FilesOK'
    BY <1>3 DEF CoreMigrated, TypeOK, FilesOK, Steps, Idle, Outside,
       RealFiles, Files
  <2>2. FlowOK' /\ ServedOK'
    BY <1>3 DEF CoreMigrated, TypeOK, FlowOK, ServedOK, FirstSteps,
       UpgradeSteps
  <2>3. BackupOK'
    BY <1>3 DEF CoreMigrated, BackupOK, FlowOK, Marking, FirstSteps,
       UpgradeSteps
  <2>4. ImportOK' /\ UpgradeOK'
    BY <1>3 DEF CoreMigrated, ImportOK, UpgradeOK, CoreCopied,
       TelemetryCopied, Stored, FlowOK, Marking, FirstSteps, UpgradeSteps
  <2> QED
    BY <2>1, <2>2, <2>3, <2>4
<1>4. CASE PrepareTelemetry
  <2>1. TypeOK' /\ FilesOK'
    <3> DEFINE file == Restored(active["telemetry"])
               compact == [schema |-> Schemas[rel]["telemetry"], data |-> file.data]
    <3>1. file \in RealFiles
      BY DEF Restored, FilesOK, Names
    <3>2. compact \in RealFiles
      BY <3>1, WrittenFile, SchemaIsVersion DEF RealFiles, Files, TypeOK, Names
    <3>3. /\ active' = [active EXCEPT !["telemetry"] = file]
          /\ rollback' = NoFile
          /\ staged' \in {staged, [staged EXCEPT !["telemetry"] = compact]}
          /\ pc' \in {"catalog", "swap out"}
      BY <1>4 DEF PrepareTelemetry
    <3> HIDE DEF file, compact
    <3>4. active' \in [Names -> RealFiles] /\ staged' \in [Names -> RealFiles]
      BY <3>1, <3>2, <3>3, FileReplaced DEF FilesOK, Names
    <3> QED
      BY <1>4, <3>3, <3>4, OtherFiles
      DEF PrepareTelemetry, TypeOK, FilesOK, RealFiles, Steps
  <2>2. FlowOK' /\ ServedOK'
    BY <1>4 DEF PrepareTelemetry, TypeOK, FlowOK, ServedOK, FirstSteps,
       UpgradeSteps
  <2>3. BackupOK'
    BY <1>4 DEF PrepareTelemetry, BackupOK, FlowOK, Marking, FirstSteps,
       UpgradeSteps
  <2>4. ImportOK' /\ UpgradeOK'
    BY <1>4 DEF PrepareTelemetry, ImportOK, UpgradeOK, CoreCopied,
       TelemetryCopied, Stored, FlowOK, Marking, FirstSteps, UpgradeSteps,
       TypeOK, Files, Names, Restored
  <2> QED
    BY <2>1, <2>2, <2>3, <2>4
<1>5. CASE SwapOut
  <2>1. TypeOK' /\ FilesOK'
    BY <1>5, OtherFiles DEF SwapOut, TypeOK, FilesOK, Steps, Idle, Outside,
       RealFiles, Files, Names
  <2>2. FlowOK' /\ ServedOK'
    BY <1>5 DEF SwapOut, TypeOK, FlowOK, ServedOK, FirstSteps, UpgradeSteps
  <2>3. BackupOK'
    BY <1>5 DEF SwapOut, BackupOK, FlowOK, Marking, FirstSteps,
       UpgradeSteps
  <2>4. ImportOK' /\ UpgradeOK'
    BY <1>5 DEF SwapOut, ImportOK, UpgradeOK, CoreCopied, TelemetryCopied,
       Stored, FlowOK, Marking, FirstSteps, UpgradeSteps, TypeOK, Files,
       Names
  <2> QED
    BY <2>1, <2>2, <2>3, <2>4
<1>6. CASE SwapIn
  <2>1. TypeOK' /\ FilesOK'
    BY <1>6, OtherFiles DEF SwapIn, TypeOK, FilesOK, Steps, Idle, Outside,
       RealFiles, Files, Names
  <2>2. FlowOK' /\ ServedOK'
    BY <1>6 DEF SwapIn, TypeOK, FlowOK, ServedOK, FirstSteps, UpgradeSteps
  <2>3. BackupOK'
    BY <1>6 DEF SwapIn, BackupOK, FlowOK, Marking, FirstSteps, UpgradeSteps
  <2>4. ImportOK' /\ UpgradeOK'
    BY <1>6 DEF SwapIn, ImportOK, UpgradeOK, CoreCopied, TelemetryCopied,
       Stored, FlowOK, Marking, FirstSteps, UpgradeSteps, TypeOK, Files,
       Names
  <2> QED
    BY <2>1, <2>2, <2>3, <2>4
<1>7. CASE DropRollback
  <2>1. TypeOK' /\ FilesOK'
    BY <1>7, OtherFiles DEF DropRollback, TypeOK, FilesOK, Steps, Idle,
       Outside, RealFiles, Files
  <2>2. FlowOK' /\ ServedOK'
    BY <1>7 DEF DropRollback, TypeOK, FlowOK, ServedOK, FirstSteps,
       UpgradeSteps
  <2>3. BackupOK'
    BY <1>7 DEF DropRollback, BackupOK, FlowOK, Marking, FirstSteps,
       UpgradeSteps
  <2>4. ImportOK' /\ UpgradeOK'
    BY <1>7 DEF DropRollback, ImportOK, UpgradeOK, CoreCopied,
       TelemetryCopied, Stored, FlowOK, Marking, FirstSteps, UpgradeSteps
  <2> QED
    BY <2>1, <2>2, <2>3, <2>4
<1>8. CASE RemoveCatalog
  <2>1. TypeOK' /\ FilesOK'
    <3>1. active' \in {active, [active EXCEPT !["catalog"] = NoFile]}
      BY <1>8 DEF RemoveCatalog
    <3>2. active' \in [Names -> RealFiles]
      BY <3>1, OtherFiles, FileReplaced DEF FilesOK, Names
    <3> QED
      BY <1>8, <3>2 DEF RemoveCatalog, TypeOK, FilesOK, RealFiles, Steps
  <2>2. FlowOK' /\ ServedOK'
    BY <1>8 DEF RemoveCatalog, TypeOK, FlowOK, ServedOK, FirstSteps,
       UpgradeSteps
  <2>3. BackupOK'
    BY <1>8 DEF RemoveCatalog, BackupOK, FlowOK, Marking, FirstSteps,
       UpgradeSteps
  <2>4. ImportOK' /\ UpgradeOK'
    BY <1>8 DEF RemoveCatalog, ImportOK, UpgradeOK, CoreCopied,
       TelemetryCopied, Stored, FlowOK, Marking, FirstSteps, UpgradeSteps,
       TypeOK, Files, Names
  <2> QED
    BY <2>1, <2>2, <2>3, <2>4
<1>9. CASE RenameCatalog
  <2>1. TypeOK' /\ FilesOK'
    <3>1. [schema |-> Schemas[rel]["catalog"], data |-> {}] \in RealFiles
      BY WrittenFile, SchemaIsVersion DEF TypeOK, Names
    <3>2. active' \in [Names -> RealFiles]
      BY <1>9, <3>1, FileReplaced DEF RenameCatalog, FilesOK, Names
    <3> QED
      BY <1>9, <3>2 DEF RenameCatalog, TypeOK, FilesOK, RealFiles, Steps
  <2>2. FlowOK' /\ ServedOK'
    BY <1>9 DEF RenameCatalog, TypeOK, FlowOK, ServedOK, FirstSteps,
       UpgradeSteps
  <2>3. BackupOK'
    BY <1>9 DEF RenameCatalog, BackupOK, FlowOK, Marking, FirstSteps,
       UpgradeSteps
  <2>4. ImportOK' /\ UpgradeOK'
    BY <1>9 DEF RenameCatalog, ImportOK, UpgradeOK, CoreCopied,
       TelemetryCopied, Stored, FlowOK, Marking, FirstSteps, UpgradeSteps,
       TypeOK, Files, Names
  <2> QED
    BY <2>1, <2>2, <2>3, <2>4
<1> QED
  BY <1>1, <1>2, <1>3, <1>4, <1>5, <1>6, <1>7, <1>8, <1>9

(* The end of either migration, the runtime that is opened, changes and a  *)
(* stop keep the invariant (writeActivationMarker, activateSqliteRuntime). *)
LEMMA ServingKeeps ==
  ASSUME IInv, \/ WriteMarker \/ ClearFailure \/ ReleaseLock \/ OpenRuntime
               \/ Change \/ Stop
  PROVE  IInv'
<1> USE DEF IInv, disk, local, bounds
<1>1. CASE WriteMarker
  <2>1. TypeOK' /\ FilesOK'
    <3>1. [n \in Names |-> active[n].schema] = Schemas[rel]
      BY <1>1, SchemaIsVersion DEF WriteMarker, TypeOK
    <3>2. marker' = [schemas |-> Schemas[rel],
                     backup |-> IF flow = "first" THEN mine ELSE marker.backup]
      BY <1>1, <3>1 DEF WriteMarker
    <3>3. marker' \in [schemas : [Names -> Nat], backup : Nat]
      BY <3>2, SchemaIsVersion DEF TypeOK
    <3> QED
      BY <1>1, <3>3 DEF WriteMarker, TypeOK, FilesOK, Steps
  <2>2. FlowOK' /\ ServedOK'
    <3>1. marker'.schemas = Schemas[rel]
      BY <1>1, SchemaIsVersion DEF WriteMarker, TypeOK
    <3>2. marker' # NoMarker
      BY <3>1, SchemaIsVersion DEF NoMarker, Names, TypeOK
    <3> QED
      BY <1>1, <3>1, <3>2 DEF WriteMarker, FlowOK, ServedOK, FirstSteps,
         UpgradeSteps
  <2>3. BackupOK'
    BY <1>1 DEF WriteMarker, BackupOK, FlowOK, Marking, FirstSteps,
       UpgradeSteps
  <2>4. ImportOK' /\ UpgradeOK'
    <3>1. marker'.schemas["core"] = active'["core"].schema
      BY <1>1 DEF WriteMarker, Names
    <3>2. CASE flow = "first"
      <4>1. changes = 0
        BY <1>1, <3>2 DEF WriteMarker, FlowOK
      <4>2. Stored = {0}
        BY <4>1 DEF Stored
      <4> QED
        BY <1>1, <3>1, <3>2, <4>2
        DEF WriteMarker, ImportOK, UpgradeOK, Marking, Stored, UpgradeSteps
    <3>3. CASE flow # "first"
      BY <1>1, <3>1, <3>3
      DEF WriteMarker, FlowOK, ImportOK, UpgradeOK, Marking, Stored, UpgradeSteps
    <3> QED
      BY <3>2, <3>3
  <2> QED
    BY <2>1, <2>2, <2>3, <2>4
<1>2. CASE ClearFailure
  <2>1. TypeOK' /\ FilesOK'
    BY <1>2, OtherFiles DEF ClearFailure, TypeOK, FilesOK, Steps, Idle,
       Outside, RealFiles, Files, NoFiles
  <2>2. FlowOK' /\ ServedOK'
    BY <1>2 DEF ClearFailure, TypeOK, FlowOK, ServedOK, FirstSteps,
       UpgradeSteps
  <2>3. BackupOK'
    BY <1>2 DEF ClearFailure, BackupOK, FlowOK, Marking, FirstSteps,
       UpgradeSteps
  <2>4. ImportOK' /\ UpgradeOK'
    BY <1>2 DEF ClearFailure, ImportOK, UpgradeOK, CoreCopied,
       TelemetryCopied, Stored, FlowOK, Marking, FirstSteps, UpgradeSteps
  <2> QED
    BY <2>1, <2>2, <2>3, <2>4
<1>3. CASE ReleaseLock
  <2>1. TypeOK' /\ FilesOK'
    BY <1>3 DEF ReleaseLock, TypeOK, FilesOK, Steps, Idle, Outside,
       RealFiles, Files, NoLock
  <2>2. FlowOK' /\ ServedOK'
    BY <1>3 DEF ReleaseLock, TypeOK, FlowOK, ServedOK, FirstSteps,
       UpgradeSteps
  <2>3. BackupOK'
    BY <1>3 DEF ReleaseLock, BackupOK, FlowOK, Marking, FirstSteps,
       UpgradeSteps
  <2>4. ImportOK' /\ UpgradeOK'
    BY <1>3 DEF ReleaseLock, ImportOK, UpgradeOK, CoreCopied,
       TelemetryCopied, Stored, FlowOK, Marking, FirstSteps, UpgradeSteps
  <2> QED
    BY <2>1, <2>2, <2>3, <2>4
<1>4. CASE OpenRuntime
  <2>1. TypeOK' /\ FilesOK'
    BY <1>4, OtherFiles DEF OpenRuntime, TypeOK, FilesOK, Steps, Idle,
       Outside, RealFiles, Files
  <2>2. FlowOK' /\ ServedOK'
    BY <1>4 DEF OpenRuntime, TypeOK, FlowOK, ServedOK, FirstSteps,
       UpgradeSteps
  <2>3. BackupOK'
    BY <1>4 DEF OpenRuntime, BackupOK, FlowOK, Marking, FirstSteps,
       UpgradeSteps
  <2>4. ImportOK' /\ UpgradeOK'
    BY <1>4 DEF OpenRuntime, ImportOK, UpgradeOK, CoreCopied,
       TelemetryCopied, Stored, FlowOK, Marking, FirstSteps, UpgradeSteps
  <2> QED
    BY <2>1, <2>2, <2>3, <2>4
<1>5. CASE Change
  <2>1. TypeOK' /\ FilesOK'
    <3>1. ASSUME NEW n \in Names, n # "catalog"
          PROVE  [active[n] EXCEPT !.data = @ \cup {changes + 1}] \in RealFiles
      <4>1. active[n].schema \in Nat /\ active[n].data \cup {changes + 1} \in SUBSET Nat
        BY <1>5, SchemaIsVersion DEF Change, ServedOK, TypeOK, Files
      <4>2. active[n] \in [schema : Nat \cup {-1}, data : SUBSET Nat]
        BY DEF TypeOK, Files
      <4>3. [active[n] EXCEPT !.data = @ \cup {changes + 1}]
              = [schema |-> active[n].schema,
                 data |-> active[n].data \cup {changes + 1}]
        BY <4>2
      <4> QED
        BY <4>1, <4>3, WrittenFile
    <3>2. active' \in [Names -> RealFiles]
      BY <1>5, <3>1 DEF Change, FilesOK
    <3> QED
      BY <1>5, <3>2 DEF Change, TypeOK, FilesOK, RealFiles
  <2>2. FlowOK' /\ ServedOK'
    <3>1. \A n \in Names : active'[n].schema = active[n].schema
      BY <1>5 DEF Change, TypeOK, Files
    <3>2. marker # NoMarker
      BY <1>5, SchemaIsNoMarker DEF Change, ServedOK, TypeOK
    <3> QED
      BY <1>5, <3>1, <3>2 DEF Change, FlowOK, ServedOK, FirstSteps,
         UpgradeSteps
  <2>3. BackupOK'
    BY <1>5 DEF Change, BackupOK, FlowOK, Marking, FirstSteps, UpgradeSteps
  <2>4. ImportOK' /\ UpgradeOK'
    <3>1. /\ active'["core"].data = active["core"].data \cup {changes + 1}
          /\ active'["telemetry"].data = active["telemetry"].data \cup {changes + 1}
          /\ active'["core"].schema = active["core"].schema
      BY <1>5 DEF Change, TypeOK, Files, Names
    <3>2. marker # NoMarker /\ active["core"].schema = marker.schemas["core"]
      BY <1>5, SchemaIsNoMarker DEF Change, ServedOK, TypeOK, Names
    <3>3. Stored' = Stored \cup {changes + 1}
      BY <1>5 DEF Change, Stored, TypeOK
    <3> QED
      BY <1>5, <3>1, <3>2, <3>3
      DEF Change, ImportOK, UpgradeOK, Marking, UpgradeSteps
  <2> QED
    BY <2>1, <2>2, <2>3, <2>4
<1>6. CASE Stop
  <2>1. TypeOK' /\ FilesOK'
    BY <1>6 DEF Stop, TypeOK, FilesOK, Steps, Idle, Outside, RealFiles,
       Files
  <2>2. FlowOK' /\ ServedOK'
    BY <1>6 DEF Stop, TypeOK, FlowOK, ServedOK, FirstSteps, UpgradeSteps
  <2>3. BackupOK'
    BY <1>6 DEF Stop, BackupOK, FlowOK, Marking, FirstSteps, UpgradeSteps
  <2>4. ImportOK' /\ UpgradeOK'
    BY <1>6 DEF Stop, ImportOK, UpgradeOK, CoreCopied, TelemetryCopied,
       Stored, FlowOK, Marking, FirstSteps, UpgradeSteps
  <2> QED
    BY <2>1, <2>2, <2>3, <2>4
<1> QED
  BY <1>1, <1>2, <1>3, <1>4, <1>5, <1>6

(* Errors, their catch and finally blocks, crashes and the age of a lock   *)
(* keep the invariant.                                                     *)
LEMMA FaultsKeep ==
  ASSUME IInv, \/ FailOutside \/ FailInside \/ Crash \/ LockAges
  PROVE  IInv'
<1> USE DEF IInv, disk, local, bounds
<1>1. CASE FailOutside
  <2>1. TypeOK' /\ FilesOK'
    <3>1. lock' \in Locks
      BY <1>1, LeaveLockType DEF FailOutside
    <3>2. /\ pc' = "down"
          /\ UNCHANGED <<active, rollback, marker, pre, upgrades, failure, local,
                         changes, crashes>>
      BY <1>1 DEF FailOutside
    <3>3. faults' \in Nat
      BY <1>1 DEF FailOutside, TypeOK
    <3> QED
      BY <3>1, <3>2, <3>3 DEF TypeOK, FilesOK, Locks, Steps, Idle
  <2>2. FlowOK' /\ ServedOK'
    BY <1>1 DEF FailOutside, TypeOK, FlowOK, ServedOK, FirstSteps,
       UpgradeSteps
  <2>3. BackupOK'
    BY <1>1 DEF FailOutside, BackupOK, FlowOK, Marking, FirstSteps,
       UpgradeSteps
  <2>4. ImportOK' /\ UpgradeOK'
    BY <1>1 DEF FailOutside, ImportOK, UpgradeOK, CoreCopied,
       TelemetryCopied, Stored, FlowOK, Marking, FirstSteps, UpgradeSteps
  <2> QED
    BY <2>1, <2>2, <2>3, <2>4
<1>2. CASE FailInside
  <2>1. TypeOK' /\ FilesOK'
    <3>1. /\ active' \in {active, [active EXCEPT !["telemetry"] = Restored(@)]}
          /\ rollback' \in {rollback, NoFile}
          /\ pre' \subseteq pre
      BY <1>2 DEF FailInside, RollbackAfter
    <3>2. Restored(active["telemetry"]) \in RealFiles
      BY DEF Restored, FilesOK, Names
    <3>3. active' \in [Names -> RealFiles] /\ rollback' \in RealFiles
      BY <3>1, <3>2, OtherFiles, FileReplaced DEF FilesOK, Names
    <3>4. staged' \in [Names -> RealFiles]
      BY <1>2, OtherFiles DEF FailInside, NoFiles
    <3>5. /\ pc' = "down"
          /\ lock' = NoLock /\ failure' = TRUE
          /\ UNCHANGED <<marker, upgrades, rel, flow, seen, mine, changes, crashes>>
      BY <1>2 DEF FailInside
    <3>6. faults' = faults + 1
      BY <1>2 DEF FailInside
    <3>7. faults' \in Nat
      BY <3>6 DEF TypeOK
    <3> QED
      BY <3>1, <3>3, <3>4, <3>5, <3>7, NoLockType
      DEF TypeOK, FilesOK, RealFiles, Locks, Steps, Idle
  <2>2. FlowOK' /\ ServedOK'
    BY <1>2 DEF FailInside, TypeOK, FlowOK, ServedOK, FirstSteps,
       UpgradeSteps
  <2>3. BackupOK'
    <3>1. pre' \in {pre, {b \in pre : b.id # mine}}
      BY <1>2 DEF FailInside
    <3>2. IsFiniteSet(pre')
      BY <3>1, FS_Subset DEF BackupOK
    <3> QED
      BY <1>2, <3>2 DEF FailInside, BackupOK, FlowOK, Marking, FirstSteps
  <2>4. ImportOK' /\ UpgradeOK'
    <3>1. pc = "swap in" => TelemetryCopied
      BY DEF UpgradeOK, UpgradeSteps
    <3>2. active'["core"] = active["core"]
      BY <1>2 DEF FailInside, TypeOK, Names
    <3>3. pc # "swap in" => active' = active
      BY <1>2 DEF FailInside
    <3> QED
      BY <1>2, <3>1, <3>2, <3>3 DEF FailInside, ImportOK, UpgradeOK,
         CoreCopied,
         TelemetryCopied, Stored, Marking, UpgradeSteps
  <2> QED
    BY <2>1, <2>2, <2>3, <2>4
<1>3. CASE Crash
  <2>1. TypeOK' /\ FilesOK'
    <3>1. lock' \in Locks
      BY <1>3, LeaveLockType DEF Crash
    <3>2. staged' \in [Names -> RealFiles]
      BY <1>3, OtherFiles DEF Crash, NoFiles
    <3>3. /\ pc' = "down"
          /\ UNCHANGED <<active, rollback, marker, pre, upgrades, failure, rel,
                         flow, seen, mine, changes, faults>>
      BY <1>3 DEF Crash
    <3>4. crashes' \in Nat
      BY <1>3 DEF Crash, TypeOK
    <3> QED
      BY <3>1, <3>2, <3>3, <3>4 DEF TypeOK, FilesOK, RealFiles, Locks,
         Steps, Idle
  <2>2. FlowOK' /\ ServedOK'
    BY <1>3 DEF Crash, TypeOK, FlowOK, ServedOK, FirstSteps, UpgradeSteps
  <2>3. BackupOK'
    BY <1>3 DEF Crash, BackupOK, FlowOK, Marking, FirstSteps, UpgradeSteps
  <2>4. ImportOK' /\ UpgradeOK'
    BY <1>3 DEF Crash, ImportOK, UpgradeOK, CoreCopied, TelemetryCopied,
       Stored, FlowOK, Marking, FirstSteps, UpgradeSteps
  <2> QED
    BY <2>1, <2>2, <2>3, <2>4
<1>4. CASE LockAges
  <2>1. TypeOK' /\ FilesOK'
    BY <1>4 DEF LockAges, TypeOK, FilesOK, Steps, Idle, Outside, RealFiles,
       Files
  <2>2. FlowOK' /\ ServedOK'
    BY <1>4 DEF LockAges, TypeOK, FlowOK, ServedOK, FirstSteps,
       UpgradeSteps
  <2>3. BackupOK'
    BY <1>4 DEF LockAges, BackupOK, FlowOK, Marking, FirstSteps,
       UpgradeSteps
  <2>4. ImportOK' /\ UpgradeOK'
    BY <1>4 DEF LockAges, ImportOK, UpgradeOK, CoreCopied, TelemetryCopied,
       Stored, FlowOK, Marking, FirstSteps, UpgradeSteps
  <2> QED
    BY <2>1, <2>2, <2>3, <2>4
<1> QED
  BY <1>1, <1>2, <1>3, <1>4

-----------------------------------------------------------------------------
(* Theorems *)

(* Init, every action and stuttering together. *)
LEMMA Inductive == Spec => []IInv
<1>1. Init => IInv
  <2> SUFFICES ASSUME Init PROVE IInv
    OBVIOUS
  <2>1. TypeOK /\ FilesOK
    BY OtherFiles, SchemaAssumption DEF Init, TypeOK, FilesOK, RealFiles,
       Files,
       NoFiles, NoMarker, NoLock, Steps, Idle
  <2>2. BackupOK
    BY FS_EmptySet DEF Init, BackupOK, Marking, FirstSteps
  <2> QED
    BY <2>1, <2>2 DEF Init, IInv, FlowOK, ImportOK, UpgradeOK, ServedOK,
       Marking,
       FirstSteps, UpgradeSteps
<1>2. IInv /\ [Next]_vars => IInv'
  <2> SUFFICES ASSUME IInv, [Next]_vars PROVE IInv'
    OBVIOUS
  <2>1. CASE Next
    BY <2>1, StartKeeps, FirstMigrationKeeps, UpgradeKeeps, ServingKeeps,
       FaultsKeep DEF Next, Startup
  <2>2. CASE UNCHANGED vars
    <3> USE <2>2 DEF vars, disk, local, bounds
    <3>1. TypeOK' /\ FilesOK'
      BY DEF IInv, TypeOK, FilesOK
    <3>2. FlowOK' /\ BackupOK' /\ ServedOK'
      BY DEF IInv, FlowOK, BackupOK, ServedOK, Marking
    <3>3. ImportOK' /\ UpgradeOK'
      BY DEF IInv, ImportOK, UpgradeOK, CoreCopied, TelemetryCopied, Stored,
         Marking
    <3> QED
      BY <3>1, <3>2, <3>3 DEF IInv
  <2> QED
    BY <2>1, <2>2
<1> QED
  BY <1>1, <1>2, PTL DEF Spec

(* The files, the marker, the backups, the lock and the process keep their *)
(* types, through every migration, error and crash.                        *)
THEOREM TypeCorrect == Spec => []TypeOK
BY Inductive, PTL DEF IInv

(* Once the marker is written the core database holds the imported state   *)
(* and every change since, and what is served has the schemas of the       *)
(* release and of the marker (ensureSqlitePersistence).                    *)
THEOREM CoreIsKept == Spec => []CoreKept
<1>1. IInv => CoreKept
  <2> SUFFICES ASSUME IInv PROVE CoreKept
    OBVIOUS
  <2>1. pc = "serving" => marker # NoMarker
    BY SchemaIsNoMarker DEF IInv, ServedOK, TypeOK
  <2> QED
    BY <2>1 DEF IInv, UpgradeOK, ServedOK, CoreKept
<1> QED
  BY <1>1, Inductive, PTL

(* The backup of the first migration that the marker names is complete and *)
(* never pruned, and a core database ahead of the marker has a complete    *)
(* upgrade backup at the marker's schema (createMigrationBackup,           *)
(* createActivatedDatabaseBackup).                                         *)
THEOREM WayBackIsKept == Spec => []RollbackSetsKept
<1>1. IInv => RollbackSetsKept
  BY DEF IInv, BackupOK, UpgradeOK, CoreCopied, RollbackSetsKept
<1> QED
  BY <1>1, Inductive, PTL

(* What the telemetry database lacks after an interrupted compaction is in *)
(* its rollback file or in an upgrade backup                               *)
(* (compactTelemetryDatabaseIfNeeded).                                     *)
THEOREM TelemetryIsKept == Spec => []TelemetryRecoverable
<1>1. IInv => TelemetryRecoverable
  BY DEF IInv, UpgradeOK, TelemetryRecoverable
<1> QED
  BY <1>1, Inductive, PTL

=============================================================================
