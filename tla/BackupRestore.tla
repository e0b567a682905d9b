--------------------------- MODULE BackupRestore ---------------------------
(***************************************************************************)
(* BackupService.restore and recoverPendingRestore: a restore replaces the *)
(* selected parts of the application's data one after the other, after it  *)
(* made a complete pre-restore backup and a journal that names it; a       *)
(* failure rolls every part back from that backup, at once or, after a     *)
(* restart, at startup.                                                    *)
(*                                                                         *)
(* The content of a part is the restore whose archive it came from, 0 at   *)
(* first, or Torn: some files replaced and some not.  The core stores are  *)
(* one part: they are replaced atomically (RestoreActivation).             *)
(*                                                                         *)
(* The notification store and the sharing repository may have been given   *)
(* the database object of the core store, which a replacement of the core  *)
(* stores closes.                                                          *)
(***************************************************************************)
EXTENDS Integers, Sequences

CONSTANTS Handles,           \* wirings to consider, see handle
          Encryptions,       \* kinds of pre-restore archive: "plain", "encrypted"
          Selections,        \* selections of parts to consider
          Torn,              \* the content of a part half replaced
          MaxRestores,       \* bound: restore requests
          MaxFaults,         \* bound: reads, replacements, hooks or removals that throw
          MaxJournalFaults,  \* bound: writes of the journal or the history that throw
          MaxCrashes,        \* bound: process restarts
          MaxDeletes         \* bound: requests that delete the pre-restore backup

Order == <<"core", "telemetry", "enrollment", "sharing", "identity", "catalog", "notifications">>
Parts == {Order[i] : i \in 1..Len(Order)}
FileParts == {"enrollment", "identity", "catalog", "notifications"}

ASSUME WiringAssumption == Handles \subseteq {"own", "live"}
ASSUME ArchiveAssumption == Encryptions \subseteq {"plain", "encrypted"}
ASSUME SelectionAssumption == Selections \subseteq SUBSET Parts
ASSUME TornAssumption == Torn \notin Nat
ASSUME BoundAssumption ==
  /\ MaxRestores \in Nat /\ MaxFaults \in Nat /\ MaxJournalFaults \in Nat
  /\ MaxCrashes \in Nat /\ MaxDeletes \in Nat

VARIABLES content,      \* of each part
          notifying,    \* notifications are switched on in that content
          handle,       \* of notification store and sharing repository: "own" (not the
                        \* core store's), "live" (the core store's), "stale" (a closed one)
          history,      \* each restore with a pre-restore backup: its selection, the
                        \* backup's data and what became of both
          journal,      \* the restore whose backup active.json names, 0 if there is none
          pc, phase, source, next,  \* what the service is doing, for whom, from which
                                    \* restore's archive or backup, with which part
          maintenance, operation,   \* BackupService.maintenance and .operation
          requests, faults, journalFaults, crashes, deletes

vars == <<content, notifying, handle, history, journal, pc, phase, source, next,
          maintenance, operation, requests, faults, journalFaults, crashes, deletes>>

data == <<content, notifying>>
job == <<phase, source, next>>
locks == <<maintenance, operation>>
bounds == <<requests, faults, journalFaults, crashes, deletes>>

Init ==
  /\ content = [p \in Parts |-> 0]
  /\ notifying = TRUE
  /\ handle \in Handles
  /\ history = <<>>
  /\ journal = 0
  /\ pc = "idle" /\ phase = "restore" /\ source = 0 /\ next = 1
  /\ maintenance = FALSE /\ operation = "none"
  /\ requests = 0 /\ faults = 0 /\ journalFaults = 0 /\ crashes = 0 /\ deletes = 0

Last == Len(history)
Record(k, s) == history' = [history EXCEPT ![k].status = s]

FinishInMaintenance ==
  /\ operation' = "none"
  /\ pc' = "idle"
  /\ UNCHANGED maintenance

(* The finally block of restore().                                         *)
Finish ==
  /\ maintenance' = FALSE
  /\ operation' = "none"
  /\ pc' = "idle"

ThrowRolledBack ==
  \/ /\ phase = "restore"
     /\ pc' = "catching"
     /\ UNCHANGED <<history, locks>>
  \/ /\ phase = "rollback"
     /\ Record(Last, "rolled-back")
     /\ Finish
  \/ /\ phase = "recovery"
     /\ pc' = "down"
     /\ maintenance' = FALSE
     /\ UNCHANGED <<history, operation>>

(* An error in applyParsed or around it: restore() goes to its catch       *)
(* block, a rollback gives up and leaves the journal, and a recovery at    *)
(* startup ends the process.                                               *)
Throw ==
  \/ /\ phase = "restore"
     /\ pc' = "catching"
     /\ UNCHANGED <<history, locks>>
  \/ /\ phase = "rollback"
     /\ Record(Last, "failed")
     /\ Finish
  \/ /\ phase = "recovery"
     /\ pc' = "down"
     /\ maintenance' = FALSE
     /\ UNCHANGED <<history, operation>>

-----------------------------------------------------------------------------
(* restore() up to the replacement *)

(* The store is read before the try block: what it throws leaves           *)
(* maintenance and the operation set, and no restore is under way.         *)
BeginRestore ==
  /\ pc = "idle"
  /\ operation = "none"
  /\ requests < MaxRestores
  /\ requests' = requests + 1
  /\ maintenance' = TRUE
  /\ operation' = "restore"
  /\ \/ pc' = "preflight" /\ UNCHANGED faults
     \/ faults < MaxFaults /\ faults' = faults + 1 /\ UNCHANGED pc
  /\ UNCHANGED <<data, handle, history, journal, job, journalFaults, crashes, deletes>>

(* The inspection expired, a dependency is missing, or the backup needs a  *)
(* passphrase that is not known: nothing was changed, nothing is undone.   *)
Refuse ==
  /\ pc = "preflight"
  /\ Finish
  /\ UNCHANGED <<data, handle, history, journal, job, bounds>>

CreatePreRestore ==
  /\ pc = "preflight"
  /\ \E sel \in Selections, kind \in Encryptions :
       history' = Append(history, [sel |-> sel, backup |-> kind, content |-> content,
                                   notifying |-> notifying, status |-> "none"])
  /\ pc' = "journalling"
  /\ UNCHANGED <<data, handle, journal, job, locks, bounds>>

Apply(who, k) ==
  /\ phase' = who
  /\ source' = k
  /\ next' = 1
  /\ pc' = "applying"

WriteJournal ==
  /\ pc = "journalling"
  /\ journal' = Last
  /\ Apply("restore", Last)
  /\ UNCHANGED <<data, handle, history, locks, bounds>>

-----------------------------------------------------------------------------
(* applyParsed *)

Sections == IF phase = "restore" THEN history[source].sel ELSE Parts
Replacing(p) == next <= Len(Order) /\ Order[next] = p

Put(p) ==
  /\ content' = [content EXCEPT ![p] = IF phase = "restore" THEN source
                                        ELSE history[source].content[p]]
  /\ next' = next + 1
  /\ UNCHANGED <<history, journal, pc, phase, source, locks, bounds>>

SkipPart ==
  /\ pc = "applying"
  /\ \E p \in Parts \ Sections : Replacing(p)
  /\ next' = next + 1
  /\ UNCHANGED <<data, handle, history, journal, pc, phase, source, locks, bounds>>

(* The core database is closed and opened again.                           *)
Detached == IF handle = "live" THEN "stale" ELSE handle

ReplaceCore ==
  /\ pc = "applying"
  /\ "core" \in Sections
  /\ Replacing("core")
  /\ Put("core")
  /\ handle' = Detached
  /\ UNCHANGED notifying

(* Files are removed before, or while, the new ones are written.  Of the   *)
(* notifications only an encrypted archive has one, the master key.        *)
ReplaceSomeFiles ==
  /\ pc = "applying"
  /\ \E p \in FileParts \cap Sections :
       /\ Replacing(p)
       /\ p = "notifications" => phase = "restore"
       /\ content[p] # Torn
       /\ content' = [content EXCEPT ![p] = Torn]
  /\ UNCHANGED <<notifying, handle, history, journal, pc, job, locks, bounds>>

ReplacePart ==
  /\ pc = "applying"
  /\ \E p \in Sections \ {"core", "notifications"} : Replacing(p) /\ Put(p)
  /\ UNCHANGED <<notifying, handle>>

(* An archive that is not encrypted holds notifications switched off; only *)
(* such a one can be read back.                                            *)
ReplaceNotifications ==
  /\ pc = "applying"
  /\ "notifications" \in Sections
  /\ Replacing("notifications")
  /\ handle # "stale"
  /\ Put("notifications")
  /\ notifying' \in IF phase = "restore" THEN BOOLEAN ELSE {FALSE}
  /\ UNCHANGED handle

(* NotificationStore.replace writes to a closed database.                  *)
NotificationsThrow ==
  /\ pc = "applying"
  /\ "notifications" \in Sections
  /\ Replacing("notifications")
  /\ handle = "stale"
  /\ Throw
  /\ UNCHANGED <<data, handle, journal, job, bounds>>

(* onRestoreApplied, which the server sets after the recovery at startup,  *)
(* reads the sharing settings when a sharing part was replaced.            *)
HookThrows == phase # "recovery" /\ handle = "stale" /\ {"sharing", "identity"} \cap Sections # {}

OnRestoreApplied ==
  /\ pc = "applying"
  /\ next > Len(Order)
  /\ \/ /\ ~HookThrows
        /\ pc' = "clearing"
        /\ UNCHANGED <<history, locks>>
     \/ HookThrows /\ Throw
  /\ UNCHANGED <<data, handle, journal, job, bounds>>

ClearJournal ==
  /\ pc = "clearing"
  /\ journal' = 0
  /\ pc' = "recording"
  /\ UNCHANGED <<data, handle, history, job, locks, bounds>>

ConcludeMisnamed ==
  /\ pc = "recording"
  /\ Record(source, IF phase = "restore" THEN "success" ELSE "recovered")
  /\ Finish
  /\ UNCHANGED <<data, handle, journal, job, bounds>>

(* A recovery at startup leaves an entry that is there already.            *)
Conclude ==
  /\ pc = "recording"
  /\ \/ phase = "restore" /\ Record(source, "success")
     \/ phase # "restore" /\ history[source].status = "none" /\ Record(source, "rolled-back")
     \/ phase # "restore" /\ history[source].status # "none" /\ UNCHANGED history
  /\ Finish
  /\ UNCHANGED <<data, handle, journal, job, bounds>>

-----------------------------------------------------------------------------
(* The catch block, startup, and the other requests *)

CatchClearsFirst ==
  /\ pc = "catching"
  /\ \/ /\ history[Last].backup = "plain"
        /\ journal' = 0
        /\ Apply("rollback", Last)
        /\ UNCHANGED <<history, locks>>
     \/ /\ history[Last].backup # "plain"
        /\ Record(Last, "failed")
        /\ Finish
        /\ UNCHANGED <<journal, job>>
  /\ UNCHANGED <<data, handle, bounds>>

(* The archive is read back without a passphrase.                          *)
Catch ==
  /\ pc = "catching"
  /\ \/ /\ history[Last].backup = "plain"
        /\ Apply("rollback", Last)
        /\ UNCHANGED <<history, locks>>
     \/ /\ history[Last].backup # "plain"
        /\ Record(Last, "failed")
        /\ Finish
        /\ UNCHANGED job
  /\ UNCHANGED <<data, handle, journal, bounds>>

(* BackupService.init().  A journal whose backup cannot be read ends the   *)
(* process again.                                                          *)
Start ==
  /\ pc = "down"
  /\ \/ /\ journal = 0
        /\ pc' = "idle"
        /\ UNCHANGED <<job, maintenance>>
     \/ /\ journal # 0
        /\ history[journal].backup = "plain"
        /\ maintenance' = TRUE
        /\ Apply("recovery", journal)
  /\ handle' = IF handle = "own" THEN "own" ELSE "live"
  /\ UNCHANGED <<data, history, journal, operation, bounds>>

Delete(k) ==
  /\ pc # "down" /\ (phase = "recovery" => pc = "idle")
  /\ history[k].backup # "deleted"
  /\ deletes < MaxDeletes
  /\ deletes' = deletes + 1
  /\ history' = [history EXCEPT ![k].backup = "deleted"]
  /\ UNCHANGED <<data, handle, journal, pc, job, locks, requests, faults, journalFaults, crashes>>

DeleteBackupUnlocked == \E k \in 1..Last : Delete(k)

(* DELETE /api/backups/:id of a pre-restore backup.  The server listens    *)
(* only once init() is done.                                               *)
DeleteBackup == operation = "none" /\ \E k \in 1..Last : Delete(k)

(* A replacement, the hook or the removal of the journal throws.  The core *)
(* stores may have been replaced all the same.                             *)
Fault ==
  /\ faults < MaxFaults
  /\ faults' = faults + 1
  /\ pc \in {"applying", "clearing"}
  /\ \/ UNCHANGED <<content, handle>>
     \/ /\ "core" \in Sections
        /\ pc = "applying" /\ Replacing("core")
        /\ handle' = Detached
        /\ \/ UNCHANGED content
           \/ content' = [content EXCEPT !["core"] = IF phase = "restore" THEN source
                                                     ELSE history[source].content["core"]]
  /\ Throw
  /\ UNCHANGED <<notifying, journal, job, requests, journalFaults, crashes, deletes>>

(* The write of the journal or of the history throws.  In restore() both   *)
(* go to the catch block; a rollback just lacks the entry.                 *)
JournalFault ==
  /\ journalFaults < MaxJournalFaults
  /\ journalFaults' = journalFaults + 1
  /\ \/ /\ pc = "journalling" \/ (pc = "recording" /\ phase = "restore")
        /\ pc' = "catching"
        /\ UNCHANGED locks
     \/ /\ pc = "recording" /\ phase = "rollback"
        /\ Finish
     \/ /\ pc = "recording" /\ phase = "recovery"
        /\ pc' = "down"
        /\ maintenance' = FALSE
        /\ UNCHANGED operation
  /\ UNCHANGED <<data, handle, history, journal, job, requests, faults, crashes, deletes>>

Crash ==
  /\ pc # "down"
  /\ crashes < MaxCrashes
  /\ crashes' = crashes + 1
  /\ pc' = "down"
  /\ maintenance' = FALSE
  /\ operation' = "none"
  /\ UNCHANGED <<data, handle, history, journal, job, requests, faults, journalFaults, deletes>>

Prepare == Refuse \/ CreatePreRestore \/ WriteJournal
Replace ==
  SkipPart \/ ReplaceCore \/ ReplaceSomeFiles \/ ReplacePart \/ ReplaceNotifications
    \/ NotificationsThrow \/ OnRestoreApplied \/ ClearJournal \/ Conclude

Next ==
  BeginRestore \/ Prepare \/ Replace \/ Catch \/ Start \/ DeleteBackup
    \/ Fault \/ JournalFault \/ Crash

Spec == Init /\ [][Next]_vars

(* A restore under way goes on, and a process that ended is started again. *)
FairSpec == Spec /\ WF_vars(Prepare \/ Replace \/ Catch) /\ WF_vars(Start)

-----------------------------------------------------------------------------
(* Properties *)

Contents == [Parts -> Nat \cup {Torn}]
Restores == [sel : SUBSET Parts, backup : {"plain", "encrypted", "deleted"},
             content : Contents, notifying : BOOLEAN,
             status : {"none", "success", "rolled-back", "failed"}]

(* Type correctness: parts, wiring, service and history.                   *)
TypeOK ==
  /\ content \in Contents
  /\ notifying \in BOOLEAN
  /\ handle \in {"own", "live", "stale"}
  /\ history \in Seq(Restores)
  /\ journal \in 0..Len(history)
  /\ pc \in {"idle", "preflight", "journalling", "applying", "clearing", "recording",
             "catching", "down"}
  /\ phase \in {"restore", "rollback", "recovery"}
  /\ source \in 0..Len(history)
  /\ next \in 1..(Len(Order) + 1)
  /\ maintenance \in BOOLEAN
  /\ operation \in {"none", "restore"}
  /\ requests \in Nat /\ faults \in Nat /\ journalFaults \in Nat
  /\ crashes \in Nat /\ deletes \in Nat

RolledBack(k) == content = history[k].content
Restored(k) ==
  \A p \in Parts : content[p] = IF p \in history[k].sel THEN k ELSE history[k].content[p]

(* A restore that neither runs nor is journalled has replaced every        *)
(* selected part or none, whichever step failed and wherever the process   *)
(* stopped.  Not so after a failed write of the journal or of the history: *)
(* the rollback that follows it has no journal, and a restart ends it.     *)
AllOrNothing ==
  pc = "idle" /\ journal = 0 /\ journalFaults = 0 /\ history # <<>> =>
    \E k \in 1..Last : RolledBack(k) \/ Restored(k)

(* The history entry of the last restore is true of the data.              *)
HistoryIsTrue ==
  pc = "idle" /\ history # <<>> =>
    /\ history[Last].status = "success" => Restored(Last)
    /\ history[Last].status = "rolled-back" => RolledBack(Last)

(* The backup that a restore under way would be rolled back from is not    *)
(* deleted under it.                                                       *)
RecoverySourceKept ==
  pc \in {"applying", "clearing", "catching"} /\ phase = "restore" => history[Last].backup # "deleted"

(* Maintenance mode, in which changes are refused with 503, ends with the  *)
(* restore or recovery that began it, whatever fails in it or in its       *)
(* rollback.  One that throws before it is under way (BeginRestore) is not *)
(* spoken of: it leaves maintenance mode and the operation lock set until  *)
(* the process is started again.                                           *)
MaintenanceEnds == maintenance /\ pc # "idle" ~> ~maintenance

(* README.md: "A failed or interrupted restore rolls back automatically."  *)
(* Of an interrupted one: it is rolled back at startup.                    *)
InterruptedRollsBack == pc = "down" /\ journal # 0 ~> pc = "idle" /\ journal = 0
=============================================================================
