# Homelab Inventory: TLA+ models, checks and proofs

Homelab Inventory is a self-hosted server (Bun, Express, SQLite) with a web
client, agents on the monitored hosts, an optional public sharing service
(lab.gd) and a hardware Registry. One process does everything: there are no
threads, but every `await` is a point at which other requests, timers and
callbacks run, and the process may be restarted at any of them. What must
survive that is in SQLite tables and in a few journal files.

This directory models the subsystems in which such interleavings,
failures and restarts decide correctness:

| subsystem | module | what it is about |
|---|---|---|
| sharing | `Publication` | one share, the durable operation queue, lab.gd and its events |
| notifications | `Notifications` | incidents, the delivery queue, policy changes |
| backup | `AtomicRestore`, `RestoreActivation` | the file swap that replaces the core database |
| backup | `BackupRestore` | a restore of several parts, its rollback and its recovery at startup |
| engine | `EngineSync` | one project edited by several browsers: commands, revisions, workers, events |
| engine | `ProjectEngine` | the commands of the Rust engine and the patches that carry them to rows, handle, worker and screen |
| startup | `Cutover` | the first migration to SQLite, upgrades of activated databases, lock, marker and backups |

`MC*` modules hold what TLC needs (model values, symmetry, selections);
`*Proofs` modules hold the theorems. `PROJECT.json` maps every definition to
the lines it models and lists runs, mutants, findings, hazards and theorems.

## 1. Inventory

Paths are relative to `server/` unless they start otherwise. "Hard" is what a
test would hardly reach; "correct" is what must hold.

| component | state | operations | interacts with | hard | correct |
|---|---|---|---|---|---|
| publication queue (`sharing/publication-*.mjs`, `persistence/core/repositories/sharing-repository.ts`) | tables `shares`, `share_publication_operations`; the awaited request | preview, approve, enqueue, mark change, schedule, process, unpublish, delete, republish, password, settings | lab.gd by HTTP, installation events, project commits | awaits between read and write, lost and late requests, direct requests beside the worker, events racing replies, restart in a request | what is recorded as published is what lab.gd activated, at that revision; every operation ends |
| enrollment, identity, account, events (`sharing/enrollment-*`, `installation-*`, `account-unlink-service`) | settings row, event cursor, keys | enroll, renew, connect stream, reconcile, unlink | lab.gd, publication | disabled during an attempt, reconnects | a disabled installation stays disabled; no event lost or applied twice |
| projection and privacy (`sharing/share-projector`, `privacy-policy`, ...) | none | project, redact | publication | none, pure | nothing private is projected |
| incidents and deliveries (`notifications/incident-manager`, `delivery-coordinator`, `retention`, `routes`, `runtime`) | pending transitions, incidents, jobs, cooldowns; the awaited send | observe, evaluate (15 s timer), lease, send, retry, acknowledge, change policy, prune | agents, contact points | a policy change is two commits; an incident ends during a send; lease left by a restart | one incident per event, inhibition, recovery only after opening, nothing delivered twice, everything settles |
| evaluator (`notifications/evaluator.mjs`) | cursors and sequences | heartbeat, report | agents, incidents | cursor saved after observations | no report evaluated twice or out of order |
| notification storage and adapters | config, state, secrets | mutators, send | SQLite, HTTP, SMTP | the database handle it was given | mutators are serial and atomic |
| file swap (`backup/sqlite-restore-staging.ts`) | database, staged, rollback file, activation journal | stage, activate, recover | every component with an open handle | restart between renames, failing file operation, failing recovery | a whole database is always found; readers see old or new |
| restore service (`backup/backup-service.mjs`, `restore-journal.mjs`) | parts, journal, history, lock, maintenance | restore, roll back, recover, delete | file swap, notification store, sharing | part N fails, restart while parts are replaced | all or nothing; truthful history; maintenance ends |
| archives, sections, schedule (`backup/*`) | files, schedule | export, parse, verify, schedule, prune | restore service | schedule against restore | a verified archive restores |
| SQLite store and cache (`persistence/`) | tables, memory cache | transactions, mutation effects, engine patches | all | a constraint that refuses what the engine accepted; cache not invalidated | rows and engine are one project; the cache equals the tables |
| migration and cutover (`persistence/migration/`, `persistence/runtime.ts`, `telemetry/database.mjs`) | three databases, marker, lock, failure file, backups | first migration, upgrade, compaction, open | every start of the server | crash between two renames, half an upgrade, a lock left behind, a downgrade | nothing imported twice or lost; the way back stays; a start settles |
| registry (`registry/`) | snapshot, links, outbox | refresh, evaluate updates, contribute | Registry by HTTP | mode change in a refresh, outbox row left "delivering" | a contribution is sent at least once and settles |
| agents (`agents/`) | devices, sequences, status | enroll, report, release | agents, evaluator, telemetry | sequence compared before awaits | a report is accepted once |
| auth (`auth/`) | accounts, sessions, invitations | login, invite, recover, OIDC | all routes | a token used twice across password hashing | a token is used once; an owner remains |
| engine service (`engine/`, `engine-routes.mjs`) | handle with a revision, streams | dispatch, persist patch, reload, publish | browsers, project store | handle ahead of the table, stream on another store object | the handle equals the persisted project; commits reach open browsers |
| engine client (`src/engine/client.ts`, `canvas-runtime-manager.ts`) | worker, revisions, awaited command, recovery | mutate, apply event, recover, activate, evict | engine service, worker | late reply, event during an await, recovery that gives up | a command is committed on what it was made on; every mutation ends |
| domain commands (`rust/crates/domain-core`, `topology`, `src/engine/project-patches.ts`) | topology, connection ids | 12 commands, forward and inverse patches | store, browser, other workers | four representations of one patch, speeds of other cables | all four stay one project; undo gives back what was there |
| live events of agents and systems (`live-events/`) | replay buffer, cursors | publish, subscribe, replay | web client | reconnect at the buffer's limit | no event missed silently |
| demo sessions (`demo/`) | index, open stores | create, extend, expire | requests | expiry against opening | no request works on a removed store |
| telemetry, onboarding, inventory metadata, systems, compatibility | tables | queries, single transactions | store | little | revision checks |
| updates, limits, lifecycle (`update-*`, `rate-limit`, `server-lifecycle`) | timers, counters | check, limit, shut down | all | timers after stop | orderly shutdown |
| web client save queue and history (`src/app/`) | pending saves, undo | save, undo | server revisions | save racing a server event | no edit lost |
| Rust geometry and routing (`rust/`) | none | geometry, routing | engine | floating point | out of TLC's reach |

## 2. The models

A step of a model is what the code does between two `await`s that others can
get in between. SQLite calls are synchronous, so a transaction, and
consecutive ones without an `await`, is one step. Time is abstracted: what
depends on a deadline (debounce, backoff, lease, cooldown, quiet hours) may
or may not be due. A restart keeps tables and files and drops what was
awaited.

### Publication

`share` is the row of `shares` (state, remote revision, whether a public ID is
known, active and approved manifest), `ops` and `lifecycle` the rows of
`share_publication_operations` by idempotency key, `worker` the request the
coordinator awaits, `scheduling` and `publishing` the calls that await a
preview, `direct` the requests that a route sends itself and awaits, `cursor`
the event cursor. `log`, `remoteOps`, `remoteDone` are
lab.gd, modelled from how the client uses it; `late` are requests the client
gave up on that may still arrive.

| actions | code |
|---|---|
| `EditContent`, `ScheduleResumes` | `markRelevantChange`, `scheduleCurrentState` before and after its preview |
| `ApprovePreview`, `EnqueuePublishStarts/Resumes`, `ResourceSnapshot`, `EnqueueLifecycle` | `approvePreview`, `enqueuePublish`, the resource-snapshot route, `enqueueLifecycle` |
| `PickPublish`, `StageReplies`, `ActivateReplies`, `RestageReplies` | `nextOperation`, `executePublish` |
| `PickLifecycle`, `LifecycleReplies` | `executeLifecycle` |
| `DirectStarts`, `DirectReplies`, `DirectFails` | `republish`, `replacePassword` before and after their request |
| `SettingsReplies` | the PATCH route of a published share: `updateRemoteSettings`, `updateShareConfiguration`, `updateShare`, `scheduleCurrentState` |
| `RequestFails`, `AttemptFails` | `processOperation`'s catch block, `publication-retry-policy` |
| `ApplyRemoteEvent` | `applyRemoteEvent` |
| `RemoteAnswers`, `RemoteAnswersDirect`, `RemoteAnswersLate`, `RemoteChange` | lab.gd (external) |
| `Crash` | process restart |

A manifest hash stands for the content. Pairs of synchronous commits are one
step (operation and share in `executeLifecycle`, `enqueuePublish` and the
catch block; cancel and enqueue in `scheduleCurrentState`). A settings change
writes only if `local_revision` is the one it read (`fresh`); a password or a
republish reads it again after the await and so always writes. Whether the
share is synchronized does not change; sharing is enabled and the installation
connected throughout. The attempt counter is
saturated at the only value it is compared with.

### Notifications

One host and its resources. `config` is what the rules, the host policy and
the contact points enable; `admin` is the second commit a handler still owes;
`pending`, `incidents`, `jobs`, `cooling` are the tables; `worker` is the job
`processNext` holds.

| actions | code |
|---|---|
| `ObserveWell`, `ObserveChildProblem`, `ObserveHostProblem` | `IncidentManager.observe` |
| `EvaluatePending`, `EvaluateSuppressedOpenings`, `EvaluateRecoveries`, `EvaluateReminders` | the 15 s timer |
| `Acknowledge`, `Retry`, `UpdatePolicy`, `ReconcilePolicies`, `UpdateContactPoint`, `UnlinkAgent`, `CancelHost` | `routes.mjs`, `reconcilePolicies`, `cancelHost` |
| `LeaseNext`, `ProcessNext`, `Cancel`, `Defer`, `Fail`, `Succeed`, `SettleRemoved` | `delivery-coordinator.mjs` |
| `Prune`, `CooldownEnds`, `Mute`, `Unmute`, `Crash` | retention, the clock, restart |

The store serialises its mutators and its SQLite persistence is synchronous,
so a chain of them runs in one drain of the microtask queue and a
configuration read just before a mutator is not stale. Handlers with two
commits are nevertheless two steps, which allows more than the code does and
includes the restart between them, which it does allow. Observations that a
sequence number rejects are no step. One reminder per incident is followed.
The order in which jobs are leased is left open. An idle runtime whose bounds
are used up stops, so deadlock is not checked.

### AtomicRestore and RestoreActivation

`AtomicRestore` is the promise of `replaceStoresAtomically`: content changes
by whole commits and whole replacements; a replacement is computed from a
snapshot and shows when the database is opened again; until it is reported it
may be undone as a whole. `RestoreActivation` is
`stageAndActivateSqliteRestore` with `recoverInterruptedSqliteRestore`, one
action per file operation, called by the replacement's catch block or at
startup (`caller`), with `Write` for the components that go on committing.
Any file operation may throw (`Fault`) and the process may stop anywhere
(`Crash`). The refinement mapping takes `Visible` (the active file while it
is open, else what was seen last) for the content and `Undoable` (the
rollback file until the replacement is reported) for what may be undone.

A file is its content. Restarts are process restarts, not power failures, so
files that exist are whole; the journal is written by a rename.
`validCoreDatabase` refuses a database that the process has open, because
leaving WAL mode needs exclusive access. Staged copies that an older journal
orphaned share one slot. A process that ended is started again
(`docker-compose.example.yml:5`, `restart: unless-stopped`); one that runs on
without a database (`broken`) needs an operator.

### BackupRestore

`content` is, for each part, the restore it came from; `Torn` is a part whose
files are half replaced. `BeginRestore`, `Refuse`, `CreatePreRestore`,
`WriteJournal`, the replacement of the parts in the order of `applyParsed`
(`SkipPart`, `ReplaceCore`, `ReplaceSomeFiles`, `ReplacePart`,
`ReplaceNotifications`, `NotificationsThrow`, `OnRestoreApplied`),
`ClearJournal`, `Conclude`, `Catch`, `Start`, `DeleteBackup`, `Fault`,
`JournalFault` and `Crash` follow `restore`, `applyParsed`,
`recoverPendingRestore` and `remove`. The core stores are one part, replaced
as a whole, which is what the theorem `ImplementsAtomicRestore` allows.

`handle` is the database object of the notification store and the sharing
repository: `live` is how the server wires them (`index.mjs:273`, `:581`),
`own` a store of its own, as unit tests wire it. `BeginRestore` sets
maintenance mode and the operation lock and then reads the store, before the
`try`; the read may throw, and nothing but a restart undoes the two then. A replacement of the core
stores closes the live one (`stale`), and a write to a closed database
throws. The history holds restores that got as far as a pre-restore backup.
Backup records survive a restore, since archives replace only the schedule.
An archive that is not encrypted holds notifications switched off
(`notifying`); `RolledBack` compares parts only. The recovery at startup runs
before the server listens and before `onRestoreApplied` is set.

### EngineSync

The content of a project is its topology: the sequence of the changes that
made it, so two contents with one revision can differ and "the same revision"
is not "the same project". Its name is left out: `updateProject` renames it at
an unchanged engine revision and publishes nothing, so a kept handle and a
worker may have an older name. `store` is the persisted project, `handle` the engine handle kept
for the store object, `client` the `DomainEngineClient` of a browser with its
worker, `post` the command it awaits, `late` commands it gave up on, `stream`
and `conn` the event stream, `saw` the content a command was made on.

| actions | code |
|---|---|
| `Start`, `ServeSnapshot`, `FetchFails`, `InitializeWorker`, `WorkerReady`, `LoseWorker` | `start`, `performRecovery`, `initializeWorker`, worker errors and timeouts |
| `Mutate`, `AnswerMutation`, `CommandReply`, `CommandTimesOut`, `Synchronize` | `mutate` with its awaits, `synchronizeCanonicalRevision` |
| `ServeCommand`, `ServeLate` (`Conflict`, `Commit`, `PersistFails`, `Refuse`), `OtherCommand`, `OtherChange` | `EngineCommandService.execute`, `entryForStore`, `applyEnginePatch`, `commitCanonicalMutation` |
| `Restore` | a restored project section with its revision (`sqlite-restore-staging.ts`), after which the store object and its handle stay |
| `Connect`, `Disconnect`, `HandleEvent`, `AnswerEvent` | `EngineSseHub`, `ensureEventSource`, `applyCommittedResponse` |
| `Hide`, `Show`, `Evict` | `CanvasRuntimeManager.activate`, `WorkspaceRuntimeCache.prune` |

`execute` is one step: between its dispatch and its transaction there is no
`await` that another command could use. Whether a patch can be replayed
locally is a choice, since `ProjectEngine` decides that; so is whether another
browser's request id equals one's own, since every client counts from 1.
`Scoped` is the query string: with a project and a workspace, `scopedStore`
makes a store object per request, with listeners and a handle of its own. A
change outside the engine publishes its revision or, as a change of scope and a
restoration from the archive do, raises it without. After a restored backup a
revision no longer tells contents apart: `HandleIsStore`, `CommittedAsSeen` and
`WorkerExplained` are claimed until the first one, `MutationsEnd` and the types
always.

### ProjectEngine

`engine` is the handle of the server, `db` the rows, `worker` and `view` the
engine and the project of a browser; `behind` says that the worker was rebuilt
while the shown project was not, which is what the manager does with a
`rebuilt` result. A command is a function from an engine to the set of its
replies (new engine, forward and inverse patch), empty when it is refused; a
patch is a sequence; `StorePatch` gives the set of the rows after it, empty
when a constraint fails. `Mutate` and `Follow` are a browser's own command and
another browser's; `RebuildHandle`, `Reload` and `OtherProject` are what
happens in between. Labels, bends and coordinates are numbers, which keeps
what the properties tell apart: that they change, and back. The inventory is a
constant, because its edits do not go through the engine; a rename outside the
engine is left out, as in `EngineSync`.

### Cutover

A database is its schema version and the changes it holds. `active`,
`rollback`, `marker`, `pre` (the pre-migration sets), `upgrades`, `failure` and
`lock` are the files of the data directory; `pc`, `flow`, `staged`, `seen`,
`mine` belong to the process.

| actions | code |
|---|---|
| `Boot`, `ReadMarker`, `Inspect` | `activateSqliteRuntime`, `ensureSqlitePersistence`, `upgradeActivatedDatabases` before its lock |
| `MakeLock`, `WriteLock`, `FindLock`, `ReleaseLock`, `LockAges` | `acquireLock`, `release` |
| `WriteBackup`, `WriteManifest`, `PruneBackup`, `PruneDone`, `Stage`, `VerifyStaged`, `Move` | the first migration |
| `Copy`, `MigrateCore`, `CoreMigrated`, `PrepareTelemetry`, `SwapOut`, `SwapIn`, `DropRollback`, `RemoveCatalog`, `RenameCatalog` | the upgrade, with `applyCommittedMigrations` and `compactTelemetryDatabaseIfNeeded` |
| `WriteMarker`, `ClearFailure`, `OpenRuntime`, `Change`, `Stop` | the end of either, and serving |
| `FailOutside`, `FailInside`, `Crash` | errors with their catch and finally blocks, the end of the process |

An operator may start any release, an older one too. Each removal or rename is
a step; building a file nobody else reads is one. `sqliteVersion` opens a path
for writing and so makes an empty database where there is none. One process
uses the data directory at a time (`docs/SQLITE_MIGRATION.md`: "Confirm only
one Homelab Inventory container can write"), so a lock that is found was left
behind; its pid may belong to another process by then (`foreign`), and
`LOCK_MAX_AGE_MS` passes (`old`). A start whose marker is current takes no
lock. A crash is the end of the process, not a power failure.

## 3. Runs

Ten runs pass, two show a disagreement between the code and its
documentation. Every property of a passing run is also violated by a mutant of
the model (the operators that stand just before the definition they mutate).

| run | bounds | shows |
|---|---|---|
| `publication_safety` | 2 contents (symmetric), 1 edit or settings change, 1 restart, 1 late request, 1 direct request (republish or settings) and unpublish at revision 1, 1 change at lab.gd, terminal after 1 transient failure | `PublishedAtExactRevision`, `NotAheadOfRemote`, `CompletedNotBehind`, `OnlyRepliesLowerRevision`, `TypeOK` (2.8 million states) |
| `publication_liveness` | 1 content, 2 attempts, 1 restart, 1 late request, remote changes up to revision 2, delete, 1 password request | `OpenOpsResolve` (61 000) |
| `notifications_policy` | host, 1 debounced service, 1 contact point, reminders, 1 request, 1 restart | `OutageInhibits`, `RecoveryNeedsOpening`, `UnmonitoredEnds`, `DeliveredIsFinal`, `TypeOK` (978 000) |
| `notifications_flapping` | host going down twice, cooldowns, 1 mute, 1 attempt, 1 request, 1 restart | `OneIncidentPerEvent`, `HostRecoverySettles` (117 000) |
| `notifications_liveness` | host, 1 service, 2 attempts, 1 restart | `DeliveriesSettle` (18 500) |
| `activation` | 2 replacements, 2 commits, 3 restarts, 3 failing operations | `Recoverable`, `AtomicForReaders`, `BecomesAvailable`, `TypeOK` (32 500) |
| `restore` | 2 restores, 5 selections, both wirings, both kinds of archive, 1 failing read or replacement, 1 failing journal or history write, 1 restart, 1 deletion | `AllOrNothing`, `HistoryIsTrue`, `RecoverySourceKept`, `MaintenanceEnds`, `TypeOK` (1.1 million) |
| `sync` | a browser that edits, hides and shows the canvas, beside commands and changes of others; 3 changes, 2 faults or restores, 2 snapshot attempts | `HandleIsStore`, `CommittedAsSeen`, `WorkerExplained`, `MutationsEnd`, `TypeOK` (1.5 million) |
| `patches` | a server with a network card, a switch, a patch panel port, a power strip, two monitors; 3 commands, 1 connection of another project | `CablesSound`, `DerivedCurrent`, `StoreMatchesEngine`, `BrowserMatches`, `InverseRestores`, `IdsNeverReused`, `TypeOK` (43 000) |
| `cutover` | 3 releases in any order, 2 changes, 2 crashes, 1 failing step | `CoreKept`, `RollbackSetsKept`, `TelemetryRecoverable`, `StartupSettles`, `TypeOK` (370 000) |

Why the bounds are enough to be interesting. Two contents, with the one the
share starts on published first, include an edit while an operation is open,
cancelled, failed or succeeded; one late request is one that overtakes a retry;
a second revision is one that races the reply of an operation expecting the
first, and a direct request one that races the worker, an edit and an event.
Content that comes back after two edits is left to the theorems.
One service and one host contain every inhibition; two incidents of an event
contain a recovery racing the next opening and a cooldown that outlives an
incident, and one request contains each way in which a request ends a job. Three restarts and three failures of the swap contain a failing
recovery of a failing recovery. Two restores contain one that starts on what
a failed one left. One browser with others beside it contains every
interleaving of a client, since clients meet only in the store: its own
command, another's and a change outside the engine make three, and two faults
are a request given up on and one that hits the recovery from it, or a restore
beside either. In `patches`, with one assignment in one slot, the swap of two
components that the store refuses does not occur; the theorems include it. Three
commands are a cable, a second one that changes the speed of the first, and
what removes, reroutes or refuses either; `InverseRestores` looks one command
further. Three releases contain an upgrade of one database, of all, and a
downgrade; two crashes contain one in the recovery from the other. For the
safety properties the proofs below remove the bounds altogether.

Fairness, used by the liveness properties only:

- Publication: `scheduleFromDurableQueue` sets a timer as long as an operation
  is open and deadlines pass, so each open operation is picked again (strong
  fairness: restarts and other operations come in between); previews resume;
  requests are answered or time out; and lab.gd accepts what it is offered
  again and again, i.e. the Registry definition a blocked publication waits
  for is published some day.
- Notifications: the 15 s timer evaluates recoveries for ever, sends have a
  timeout, a mute ends, and a job that is put off or failed goes behind the
  others by its `availableAt`, so each is leased again and again. Nothing is
  assumed about observations.
- EngineSync: the event loops of browser and server run what is ready, and a
  request that is not lost is answered (`CommandFairness`); for `sync_scoped`
  also, streams connect and events are handled (`EventFairness`). Nothing is
  assumed about users, other changes, restores and faults.
- Cutover: the supervisor starts a process that ended, a start goes on, and
  time passes, so that a lock grows old. Nothing is assumed about changes,
  stops, errors and crashes.
- RestoreActivation and BackupRestore: a replacement or recovery that runs
  goes on, and a process that ended is restarted. Nothing is assumed about
  requests, failures and restarts; those are bounded.

### Findings

| run | what TLC finds |
|---|---|
| `restore_handle` | As the server is wired, an interrupted restore of the core stores is never rolled back: the recovery at startup replaces them, then writes notifications through the closed handle, throws, and every later start does the same. |
| `sync_scoped` | Browsers ask for the engine with a project and a workspace, for which `scopedStore` makes a new store object per request. The event stream listens to one object and commands commit on others, so no commit reaches an open browser, which `release-notes.ts:22` promises. |

Other behaviours that disagree with a document or deserve a decision were met
while modelling. They are part of the models, which the properties are careful
not to contradict, and have no run of their own:

- When content returns to a manifest that was published before,
  `enqueueOperation` finds the old row under the same idempotency key with
  another expected revision and throws: the change is never published, while
  `docs/sharing.md:76` promises one operation for relevant changes.
- `executeLifecycle`, `republish` and `replacePassword` write the reply's
  revision without comparing it (`publication-service.mjs:137`, `:148`, `:159`):
  a reply that comes after a later publication or event takes the share back,
  and later requests conflict until an event brings it forward
  (`OnlyRepliesLowerRevision` and `CompletedNotBehind` name this exception). A
  synchronized share is
  enqueued without its new content having been approved. Registry waits use up
  the attempts of transient failures. A failed unpublish at an unchanged
  revision has the key of the next one.
- A host outage cancels the queued recovery of a resource, and
  `evaluateRecoveries` (`incident-manager.mjs:386`) counts the cancelled job as
  existing: the contact point is never told. The same happens to any recovery,
  a host's too, when the agent is unlinked (`:425`) or a contact point is
  disabled while the job is queued and enabled again
  (`delivery-coordinator.mjs:122`). `HostRecoverySettles` speaks of the host and
  excepts a recovery whose job was cancelled after a request. A restart
  between the two commits of a policy change leaves incidents of resources
  nobody monitors (`UnmonitoredEnds` excludes it).
- `restore` sets maintenance mode and the operation lock and then reads the
  store before its `try` (`backup-service.mjs:457-462`): if that read throws,
  every change is refused until the process is restarted (`MaintenanceEnds`
  speaks of a restore that is under way).
- A restore sets a project's revision back while the store object keeps its
  engine handle (`sqlite-restore-staging.ts:684`, `index.mjs:769`), and no
  event tells open browsers. When the restored project reaches the revision of
  the handle, or of a browser's worker, with other content, both pass for
  current: the next command is applied to what is no longer stored. A rename
  leaves the name in a kept handle behind in the same way.
- Commits made after the active database was serialized and before it is
  closed are lost by the swap: agents, notifications and sharing are not
  behind the maintenance guard (`backup-routes.mjs:113`).
- A pre-restore backup made with a passphrase is read back without one, so
  that the rollback of a failed restore fails (`README.md:235` promises it). An
  error of the journal or history write around the replacement starts a
  rollback that no journal covers (`AllOrNothing` excludes it), and a restore
  started after a failed rollback overwrites the journal of the earlier one.
- A crash between the two renames of the telemetry compaction is not undone:
  at the next start `sqliteVersion` makes an empty database at the path before
  `compactTelemetryDatabaseIfNeeded` looks for the rollback file, which is then
  removed. What is left is the upgrade backup, as `TelemetryRecoverable` shows;
  the compaction design says "Any failure restores or retains the original
  database."
- A swap of two components in occupied slots is accepted by the engine and
  refused by the unique index on the slot (`release-notes.ts:73` promises it).
  A second cable in an outlet that fans out is refused by the store as well.
  Where a route names no side, the store keeps its default or the side a
  cleared route had, so that after a reload an automatic route has sides
  (`StoreMatchesEngine` and `BrowserMatches` except them).
- A browser whose worker was rebuilt after an event does not patch the project
  it shows (`behind`). Events committed between its snapshot and the opening of
  its stream are never sent. A connection made in another project can make the
  id a kept handle gives next unusable, once.

## 4. Theorems

All theorems hold for every value of the constants that satisfies the
`ASSUME`s of the module: distinctness of a "none" value, bounds that are
natural numbers, `MaxAttempts` positive, a host that is not one of its
resources. They say nothing about the real lab.gd beyond the model of it.
`ProjectEngine` assumes of the inventory that its ports are finitely many, that
a port has one owner and patch panel faces come in pairs, and of a project it
starts from that an id and a component occur in one assignment, which
`TopologySnapshot::validate` and the unique indexes of the table ensure.

**`PublicationProofs`** (`TypeCorrect`, `ExactRevision`, `NeverAhead`,
`CompletesOnce`, `NeverBehind`, `OnlyRepliesLower`). `PublishedAtExactRevision` is not
inductive: a reply in flight, a request that is late, or a row that can still
be picked must already be consistent with lab.gd's log. `IInv` is `TypeOK`
with `WorkerOK` (the awaited request carries the intent of its row, and its
reply is what the log says), `DirectOK` (no direct request was answered beyond
the log, and one whose row is untouched was sent at the share's revision),
`LateOK` (so does every late request), `RemoteOK` (an operation lab.gd holds as
active has its one entry in the log at expected + 1, and one it does not hold as
active has none) and `NotAheadOfRemote`. The argument: a key is its manifest, the expected
revision of a row never changes (another one is refused), lab.gd activates
only at the expected revision, hence the activation of a key has one place in
the log, which every reply, retry and replay agrees on. The two action
properties follow from `StepForward`: a step keeps the share's revision or
raises it, and a publication that succeeds leaves the share at or above its
revision, unless the step writes a reply uncompared, and then the revision stays
above the one the request was sent at. `CompletesOnce` says why the assertion at
the end of `completePublication` does not fire: it needs an operation that has
succeeded before, and the worker never holds one.

**`NotificationsProofs`** (`TypeCorrect`, `OneIncident`,
`OutageInhibitsChildren`, `RecoveryAfterOpening`, `NothingUnmonitored`,
`DeliveryIsFinal`). `IInv` adds `Numbered` (an incident exists exactly when its
number has been used, so an opened one is new) and `WorkerHolds` (the job the
worker holds is leased or was removed with its incident, so nothing the worker
writes undoes a delivery). Steps are grouped by shape: those that only end
things (`EbbStep`), those that open (`OpenStep`), and those that move jobs
(`MoveStep`).

**`RestoreActivationProofs`** (`TypeCorrect`, `AlwaysRecoverable`,
`ImplementsAtomicRestore`). `IInv` is `TypeOK`, `OpenOK` (an open handle is on
the active file), `ClosedOK` (a closed database is the one seen last, the
replacement of the snapshot, or the rollback file with a journal that leads to
it) and `SwapOK` (where each step of the swap stands). The refinement needs
all three: a startup that completes a swap must produce the replacement of the
snapshot and nothing else.

**`BackupRestoreProofs`** (`TypeCorrect`, `WholeOrNothing`,
`HistoryTellsTheTruth`, `RecoverySourceIsKept`). `AllOrNothing` speaks of a
service at rest; what makes it true is known in the middle of a pass. `IInv`
is `TypeOK`, `FlowOK` (for which restore the service works, that it has passed
all parts before the journal goes, and that a journal exists meanwhile unless
a write of it failed), `BackupOK` (the backup a failure would need is there),
`DataOK` (in a restore, a part that was not selected is still the backup's and
one that is done is the archive's; in a rollback or a recovery, one that is
done is the backup's), `TruthOK` (an entry says done or undone only without a
journal and with no pass running, and then it is true) and `SettledOK`. The
argument: `PassIsComplete`, a pass that reaches the end has made the data that
of the archive or of the backup whatever it was before, so that a rollback
that starts on half-replaced files, or on what another rollback left, ends
like any other. The truth of the history needs no assumption about failing
writes; `AllOrNothing` does, and says so.

**`CutoverProofs`** (`TypeCorrect`, `CoreIsKept`, `WayBackIsKept`,
`TelemetryIsKept`). `IInv` says for each step of the two flows where the data
is: `FilesOK` (only a missing file has no schema version), `FlowOK` (a step is
taken in its own flow, and the first migration is the one without a marker),
`BackupOK` (the backup of a first migration is complete from its manifest on,
and the one a marker names stays), `ImportOK` (where the imported legacy state
is before the marker is written), `UpgradeOK` (from its copy on an upgrade has
the core database at the marker's schema, and all telemetry, in upgrade
backups) and `ServedOK` (from the marker on, the databases are the release's).
The proof shows more than `TelemetryRecoverable` asks: the upgrade backups
alone suffice, so no evidence depends on the rollback file of the compaction.

**`EngineSyncProofs`** (`TypeCorrect`, `HandleIsCurrent`, `ChangesAreAsSeen`,
`WorkersAreExplained`). A content is a sequence of changes, and most of `IInv`
says who holds a prefix of the store. `StoreOK`: the changes of the store are
different ones, and were issued. `HandleOK`: a kept handle is a prefix.
`StreamOK`, `InboxOK`: a patch on its way, or in a worker's hands, is the
change of its revision, and they come in order. `PostOK`, `LateOK`: a command
that may still be committed, awaited or given up on, was made on a prefix and
names its revision, so that the server accepts it only if the prefix is still
all. `MutationOK`, `RecoveryOK` and `WorkerOK` say for each await of a client
what its worker holds: a prefix, or the store with the one change that can
still be committed, unless a refusal, a loss or a recovery is yet to be dealt
with. `BoundOK` (a browser is at most one optimistic change ahead) keeps an
event from being taken for the next one, and `OwnersOK` (a change belongs to
one mutation or one late request) keeps a change from being committed twice.
All this is true until a backup is restored, which shortens the store under
everybody's feet; the theorems rest on `Inductive`, that `TypeInv` always holds
and `IInv` while `restores = 0`. `TypeInv` is proved for every step, after a
restore too (`TypedNext`): types, and what each await of a client implies about
its worker, its inbox and its command, without any revision.

**`ProjectEngineProofs`** (`HandleIsTheProject`, `CablesAreSound`,
`DerivedIsCurrent`, `IdsAreNew`). The inductive invariant is `OneProject`. Its
core is `Agree(engine, db)`: handle and rows have the same name, assignments
and placed items, their connections correspond one to one (`Matches`) and are
equal up to the sides of a route the handle leaves open (`Copies`), ids are
unique and behind `next` and `seq`, every cable joins ports that go together
(`EndsOK`), no two rows share a port (`Apart`) and the index builds. Besides,
the revisions are equal and every id ever issued is behind both counters;
without that an id could come back after the last connection is removed and
the handle loaded again. The argument goes command by command (`CreateStores`,
`RemoveStores`, ..., together `DispatchStores`): if the forward patch of a
reply can be stored at all, the rows it leaves agree with the reply's engine.
A patch is a fold, so the proof needs what a fold over the parts of a patch
does: `StoreSteps` and `UpsertSteps` turn it into a run of single steps,
`RoutesStored` and `UpsertsStored` say which rows are done after each.
`DerivedIsCurrent` adds `Current(engine)`: every cable has the type and speed
that `Classify` and `Negotiated` give it. A command that changes no wire keeps
it since those two depend on the wires and on ports that exist only
(`TwinsCurrent`); creating and removing a cable computes it anew
(`NormalizedCurrent`), and the patch carries each cable that differs
(`DerivedMatches`). A component with a cable cannot leave its host, since the
index would not build, and one without is in no network.

**`ProjectBrowserProofs`** (`TypeCorrect`, `InversesRestore`, `BrowsersMatch`).
`AllTyped` adds the browser to `OneProject`: the worker's snapshot builds, has its ids behind `next` and is at
the revision of the rows, and the view is a project. The work is in the
commands. `DispatchType` says that a well-formed command on a snapshot that
builds answers with well-formed patches, forward and inverse (`ReplyOK`), and
`ReplayTyped` that the command `OperationFor` rebuilds from such patches is
well-formed again, so that a worker stays a snapshot however many commands it
has had to guess. `ShowSteps` turns the fold of `PatchView` into single steps,
each of which keeps the types (`ViewPatchType`).

`InversesRestore` shows, command by command, that the two patches of a reply
undo each other on the screen (`Undone`, together `DispatchUndone`), for an
engine and a view with the same cables (`Mirrors`: equal up to the sides of a
route, the weakest correspondence that the parts of a patch preserve). A label,
a name, a route or a bend is set and set back. Assignments and positions are
turned: what the forward part upserts the inverse part removes, or upserts with
the value before. A new or removed cable is followed by the derived states of
the cables whose network changed, and the inverse sets them back before it
takes the cable away again; both list the cables that differ, in the two
directions, so each keeps the other's states (`DerivedPatch` in `Batched` and
`Unbatched`). The inductive invariant is `AllTyped` with `PlacesShown`: the view
has the positions of the rows, even when it is behind. A snap to the grid takes
the positions before it from the view, so without `PlacesShown` its inverse
would restore the wrong ones. It is inductive since a patch of positions can
always be replayed: the worker is at the revision of the rows and a move is
rebuilt whole, so a view is never left behind by one (`CommitPlaces`). TLC
checks `PlacesShown` on the states of `patches`.

`BrowsersMatch` adds `BrowserInStep` to those two: while no other project has
taken an id, the next id of the handle is the next of the table's sequence
(`InStep`), the worker is the project of the handle up to the sides of routes
(`Follows`), and a view that is not behind is the project of the rows
(`Shows`). `InStep` is needed because a rebuilt worker takes its next id from
the sequence and a running one counts on; the two new cables would differ in
their ids otherwise. Three facts carry the induction.
`DispatchFollows`: two engines that follow each other and both accept a command
follow each other afterwards; derived states are equal because `Classify` and
`Negotiated` depend on wires and ports only, and a batch of routes, which may
change different cables in the two because their sides may differ, leaves the
same bends (`BatchFollows`). `DispatchReplayed`: the
command that `OperationFor` guesses from the two patches of a reply, if the
worker accepts it, has the effect of the command that made them. A create is
guessed with the ends of the cable the patch adds, and gets its id since the
engines have the same next one; assignments and positions are put together
from the upserts of both patches (`ExchangesSame`, `MovesSame`); a batch of one
route is replayed as a route, a larger one as new bends, and only when nothing
else differs (`ManyRoutesReplayed`, where `EqualExceptBends` is needed).
`PatchShown`: each part of a patch does to the view what it does to the rows
(`PartBoth`), if the assignments it upserts have different ids
(`DispatchUpserts`). What cannot be replayed rebuilds the worker and marks the
view as behind, and an engine loaded from the rows follows the handle by
`Agree` and `InStep` (`LoadedFollows`, `FollowsLoaded`). Before it was proved,
`BrowserInStep` was checked by TLC as an invariant of `patches`.

The installed provers cannot instantiate the induction theorems of the
library. `ProjectEngineProofs` does without them: a set of natural numbers has
a least member (`LeastNumber`, from the well-foundedness of `<`), so a set that
contains 0 and every successor contains them all (`Induction`). The existence
of the recursive functions in a fold and in `Segment`, the sorting of a finite
set by ids, and what a run of patches has done after k steps are proved with
it.

Only model-checked: every liveness property (TLAPS has no support for fairness
and `ENABLED` here). No module uses `RECURSIVE`.

## 5. Not modelled

Projection, privacy rules, archive encoding and encryption, adapters, the
importers of legacy records, and the geometry and route planning of the Rust
engine are data transformations or I/O; the modules above take their results
as values. Queries and single-transaction edits with revision checks have no
interleaving to explore, and the legacy JSON store is only read by the
migration. What remains has interleavings of its own and no module yet:

| part | what could go wrong |
|---|---|
| registry: contribution outbox, refresh, update runs | a restart leaves rows marked delivering; a mode change during a refresh |
| sharing: enrollment, event cursor, unlink | sharing is switched off while an enrollment is awaited, which then writes connected; a lifecycle request replayed with its old key and a new revision |
| agents and the evaluator | the sequence of a signed report is compared before awaits and not when it is stored; the evaluation cursor is saved after the observations it covers |
| auth | a recovery grant is checked before the password is hashed and not again when it is stored (`auth-service.mjs:387`), an invitation is (`invitation-service.mjs:147`); a settings update that fails writes the whole authentication state back as it was before its awaits and does not recompile the policy (`auth-service.mjs:262`) |
| live events of agents, save queue of the web client, demo sessions, backup schedule, update checker | replay at the limit of the buffer; an edit during a save keeps its old revision; expiry against an open request |
| migration with two processes | both find the lock stale, and the second removes the lock the first has made |
