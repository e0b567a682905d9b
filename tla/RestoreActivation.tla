------------------------- MODULE RestoreActivation -------------------------
(***************************************************************************)
(* stageAndActivateSqliteRestore and recoverInterruptedSqliteRestore: the  *)
(* replacement of the core database file by a staged copy, its activation  *)
(* journal, failures of any file operation on the way, process restarts,   *)
(* and the other components, which go on writing to the database until its *)
(* handle is closed.                                                       *)
(*                                                                         *)
(* A file is its content: how many replacements it went through and how    *)
(* many commits of other components it holds.  Every file that exists is   *)
(* valid (quick_check): the staged copy is checked before it is journalled, *)
(* and a restart of the process tears no file.  The journal is written by  *)
(* a rename, so it is a value.                                             *)
(***************************************************************************)
EXTENDS Integers

CONSTANTS NoFile,       \* a file that does not exist
          MaxWrites,    \* bound: commits of other components
          MaxRestores,  \* bound: replacements started
          MaxCrashes,   \* bound: process restarts
          MaxFaults     \* bound: file operations that throw

ASSUME FileAssumption == NoFile \notin [gen : Nat, writes : Nat]
ASSUME BoundAssumption ==
  MaxWrites \in Nat /\ MaxRestores \in Nat /\ MaxCrashes \in Nat /\ MaxFaults \in Nat

VARIABLES active,    \* core.sqlite
          staging,   \* .core-restore-<pid>-<time>.sqlite
          rollback,  \* core.sqlite.restore-rollback
          journal,   \* stage in .core-restore-activation.json, "none" if absent
          pc,        \* what the process is doing
          open,      \* the process has an open handle on core.sqlite
          caller,    \* who runs the recovery or the removal of left-over files
          before,    \* history: content at the last time the handle was open
          snapshot,  \* history: content the staged copy was made of
          writes, restores, crashes, faults

vars == <<active, staging, rollback, journal, pc, open, caller, before,
          snapshot, writes, restores, crashes, faults>>

files == <<active, staging, rollback, journal>>
history == <<before, snapshot>>
bounds == <<writes, restores, crashes, faults>>

Contents == [gen : Nat, writes : Nat]
Stages == {"none", "prepared", "active-moved", "staging-active"}
Steps == {"serving", "staged", "prepared", "closed", "moved", "replacing", "swapped",
          "cleaning", "recovering", "down", "broken"}

Init ==
  /\ active = [gen |-> 0, writes |-> 0]
  /\ staging = NoFile
  /\ rollback = NoFile
  /\ journal = "none"
  /\ pc = "serving"
  /\ open = TRUE
  /\ caller = "run"
  /\ before = active
  /\ snapshot = NoFile
  /\ writes = 0 /\ restores = 0 /\ crashes = 0 /\ faults = 0

(* A commit of another component: agents, notifications, sharing.          *)
Write ==
  /\ open
  /\ writes < MaxWrites
  /\ writes' = writes + 1
  /\ active' = [active EXCEPT !.writes = @ + 1]
  /\ before' = active'
  /\ UNCHANGED <<staging, rollback, journal, pc, open, caller, snapshot, restores, crashes, faults>>

-----------------------------------------------------------------------------
(* stageAndActivateSqliteRestore *)

(* The active database is serialized, its sections are replaced in the     *)
(* copy, and the copy is checked.  Without an open handle snapshotStores   *)
(* throws before any file is touched.                                      *)
Stage ==
  /\ pc = "serving"
  /\ restores < MaxRestores
  /\ restores' = restores + 1
  /\ staging' = [active EXCEPT !.gen = @ + 1]
  /\ rollback' = NoFile
  /\ pc' = "staged"
  /\ snapshot' = active
  /\ UNCHANGED <<active, journal, open, caller, before, writes, crashes, faults>>

JournalPrepared ==
  /\ pc = "staged"
  /\ journal' = "prepared"
  /\ pc' = "prepared"
  /\ UNCHANGED <<active, staging, rollback, open, caller, history, bounds>>

CloseActiveLeftOpen ==
  /\ pc = "prepared"
  /\ pc' = "closed"
  /\ UNCHANGED <<files, open, caller, history, bounds>>

CloseActive ==
  /\ pc = "prepared"
  /\ open' = FALSE
  /\ pc' = "closed"
  /\ UNCHANGED <<files, caller, history, bounds>>

MoveActiveDeleted ==
  /\ pc = "closed"
  /\ active' = NoFile
  /\ pc' = "moved"
  /\ UNCHANGED <<staging, rollback, journal, open, caller, history, bounds>>

MoveActive ==
  /\ pc = "closed"
  /\ rollback' = active
  /\ active' = NoFile
  /\ pc' = "moved"
  /\ UNCHANGED <<staging, journal, open, caller, history, bounds>>

JournalMovedMisnamed ==
  /\ pc = "moved"
  /\ journal' = "moved"
  /\ pc' = "replacing"
  /\ UNCHANGED <<active, staging, rollback, open, caller, history, bounds>>

JournalMoved ==
  /\ pc = "moved"
  /\ journal' = "active-moved"
  /\ pc' = "replacing"
  /\ UNCHANGED <<active, staging, rollback, open, caller, history, bounds>>

MoveStaging ==
  /\ pc = "replacing"
  /\ active' = staging
  /\ staging' = NoFile
  /\ pc' = "swapped"
  /\ UNCHANGED <<rollback, journal, open, caller, history, bounds>>

JournalSwapped ==
  /\ pc = "swapped"
  /\ journal # "staging-active"
  /\ journal' = "staging-active"
  /\ UNCHANGED <<active, staging, rollback, pc, open, caller, history, bounds>>

(* The handle is reopened; then rollback file and journal are removed.     *)
Reopen ==
  /\ pc = "swapped"
  /\ journal = "staging-active"
  /\ open' = TRUE
  /\ pc' = "cleaning"
  /\ caller' = "run"
  /\ before' = active
  /\ snapshot' = NoFile
  /\ UNCHANGED <<files, bounds>>

-----------------------------------------------------------------------------
(* recoverInterruptedSqliteRestore, at startup or in the catch block *)

(* validCoreDatabase takes the file out of WAL mode, which needs exclusive *)
(* access: a database this process has open is refused like a broken one.  *)
ActiveUsable == active # NoFile /\ ~open

(* The database is open, and the replacement, if there was one, is over.   *)
Opened ==
  /\ open' = TRUE
  /\ pc' = "serving"
  /\ caller' = "run"
  /\ before' = active
  /\ snapshot' = NoFile

(* Only the journal's absence is noticed: a rollback file stays.           *)
NothingToRecover ==
  /\ pc = "recovering"
  /\ journal = "none"
  /\ Opened
  /\ UNCHANGED <<files, bounds>>

KeepActive ==
  /\ pc = "recovering"
  /\ journal # "none"
  /\ ActiveUsable
  /\ pc' = "cleaning"
  /\ UNCHANGED <<files, open, caller, history, bounds>>

CompleteActivation ==
  /\ pc = "recovering"
  /\ ~ActiveUsable
  /\ journal = "active-moved" /\ staging # NoFile
  /\ active' = staging
  /\ staging' = NoFile
  /\ pc' = "cleaning"
  /\ UNCHANGED <<rollback, journal, open, caller, history, bounds>>

(* An active database that was refused is removed; an open handle is then  *)
(* one on a file that no longer exists.                                    *)
DropActive ==
  /\ pc = "recovering"
  /\ active # NoFile /\ ~ActiveUsable
  /\ journal # "none"
  /\ journal # "active-moved" \/ staging = NoFile
  /\ rollback # NoFile
  /\ active' = NoFile
  /\ open' = FALSE
  /\ before' = rollback
  /\ UNCHANGED <<staging, rollback, journal, pc, caller, snapshot, bounds>>

RestoreRollback ==
  /\ pc = "recovering"
  /\ active = NoFile
  /\ journal # "none"
  /\ journal # "active-moved" \/ staging = NoFile
  /\ rollback # NoFile
  /\ active' = rollback
  /\ rollback' = NoFile
  /\ pc' = "cleaning"
  /\ UNCHANGED <<staging, journal, open, caller, history, bounds>>

(* "no valid active or rollback database" is thrown.  With an open handle  *)
(* the process goes on; otherwise Recoverable says it is not reached.       *)
Unrecoverable ==
  /\ pc = "recovering"
  /\ journal # "none"
  /\ ~ActiveUsable
  /\ journal # "active-moved" \/ staging = NoFile
  /\ rollback = NoFile
  /\ staging' = IF caller = "catch" THEN NoFile ELSE staging
  /\ pc' = IF caller = "start" THEN "down" ELSE IF open THEN "serving" ELSE "broken"
  /\ caller' = "run"
  /\ UNCHANGED <<active, rollback, journal, open, history, bounds>>

(* The left-over files are removed concurrently: in any order.             *)
Remove ==
  /\ pc = "cleaning"
  /\ \/ staging # NoFile /\ staging' = NoFile /\ UNCHANGED <<rollback, journal>>
     \/ rollback # NoFile /\ rollback' = NoFile /\ UNCHANGED <<staging, journal>>
     \/ journal # "none" /\ journal' = "none" /\ UNCHANGED <<staging, rollback>>
  /\ UNCHANGED <<active, pc, open, caller, history, bounds>>

RemovedUnopened ==
  /\ pc = "cleaning"
  /\ staging = NoFile /\ rollback = NoFile /\ journal = "none"
  /\ pc' = "serving"
  /\ UNCHANGED <<files, open, caller, history, bounds>>

(* ... and the database is opened, unless the replacement itself had done  *)
(* so already.                                                             *)
Removed ==
  /\ pc = "cleaning"
  /\ staging = NoFile /\ rollback = NoFile /\ journal = "none"
  /\ Opened
  /\ UNCHANGED <<files, bounds>>

-----------------------------------------------------------------------------
(* Failures and restarts *)

(* A file operation throws before the handle is closed: the staged copy is *)
(* removed, the journal is left.                                           *)
StagingFails ==
  /\ pc \in {"staged", "prepared"}
  /\ staging' = NoFile
  /\ pc' = "serving"
  /\ snapshot' = NoFile
  /\ UNCHANGED <<active, rollback, journal, open, caller, before>>

(* One throws after that: the catch block recovers.                        *)
ActivationFails ==
  /\ pc \in {"closed", "moved", "replacing", "swapped"} \/ (pc = "cleaning" /\ caller = "run")
  /\ pc' = "recovering"
  /\ caller' = "catch"
  /\ UNCHANGED <<files, open, history>>

(* One throws in the recovery.  At startup the process ends; in the catch  *)
(* block the outer one still removes the staged copy, and the process goes *)
(* on without an open handle.                                              *)
RecoveryFails ==
  /\ pc \in {"recovering", "cleaning"}
  /\ \/ /\ caller = "start"
        /\ pc' = "down"
        /\ UNCHANGED staging
     \/ /\ caller = "catch"
        /\ pc' = IF open THEN "serving" ELSE "broken"
        /\ staging' = NoFile
  /\ UNCHANGED <<active, rollback, journal, open, caller, history>>

Fault ==
  /\ faults < MaxFaults
  /\ faults' = faults + 1
  /\ StagingFails \/ ActivationFails \/ RecoveryFails
  /\ UNCHANGED <<writes, restores, crashes>>

(* The process stops.  Without a journal nothing names the staged copy any *)
(* more.                                                                   *)
Crash ==
  /\ pc # "down"
  /\ crashes < MaxCrashes
  /\ crashes' = crashes + 1
  /\ pc' = "down"
  /\ open' = FALSE
  /\ staging' = IF journal = "none" THEN NoFile ELSE staging
  /\ UNCHANGED <<active, rollback, journal, caller, history, writes, restores, faults>>

(* activateSqliteRuntime: without a journal the database is opened as is.  *)
Start ==
  /\ pc = "down"
  /\ \/ journal = "none" /\ Opened
     \/ /\ journal # "none"
        /\ pc' = "recovering"
        /\ caller' = "start"
        /\ UNCHANGED <<open, history>>
  /\ UNCHANGED <<files, bounds>>

Activation ==
  JournalPrepared \/ CloseActive \/ MoveActive \/ JournalMoved \/ MoveStaging
    \/ JournalSwapped \/ Reopen

Recovery ==
  NothingToRecover \/ KeepActive \/ CompleteActivation \/ DropActive \/ RestoreRollback
    \/ Unrecoverable \/ Remove \/ Removed

Next == Write \/ Stage \/ Activation \/ Recovery \/ Fault \/ Crash \/ Start

Spec == Init /\ [][Next]_vars

(* The replacement and the recovery go on by themselves, and a process     *)
(* that ended is started again.                                            *)
Fairness == WF_vars(Activation \/ Recovery) /\ WF_vars(Start)

FairSpec == Spec /\ Fairness

-----------------------------------------------------------------------------
(* Properties *)

Files == Contents \cup {NoFile}

(* Type correctness: files, journal stage and process state.               *)
TypeOK ==
  /\ active \in Files /\ staging \in Files /\ rollback \in Files
  /\ journal \in Stages
  /\ pc \in Steps
  /\ open \in BOOLEAN
  /\ caller \in {"run", "catch", "start"}
  /\ before \in Contents
  /\ snapshot \in Files
  /\ writes \in Nat /\ restores \in Nat /\ crashes \in Nat /\ faults \in Nat

(* Wherever the process stopped or a file operation failed, the catch      *)
(* block's own recovery included, the files still hold a whole database    *)
(* that the next recovery finds.                                           *)
Recoverable ==
  \/ active # NoFile
  \/ journal # "none" /\ rollback # NoFile
  \/ journal = "active-moved" /\ staging # NoFile

(* What readers see, or saw last, and what they saw before a replacement   *)
(* that has not been reported.                                             *)
Visible == IF open THEN active ELSE before
Undoable == IF open /\ pc \in {"cleaning", "recovering"} THEN rollback ELSE NoFile

Atomic == INSTANCE AtomicRestore WITH content <- Visible, undo <- Undoable, available <- open

(* docs/SQLITE_MIGRATION.md: "Startup completes or rolls back an           *)
(* interrupted swap without serving a partial database."  Readers see the  *)
(* old content or the whole replacement: the swap implements AtomicRestore. *)
AtomicForReaders == Atomic!AtomicSpec

(* A database that is not available becomes available again, through every *)
(* restart and failure but one: a file operation that fails in the catch   *)
(* block's own recovery leaves the process without a handle until it is    *)
(* restarted.                                                              *)
BecomesAvailable == ~open ~> (open \/ pc = "broken")
=============================================================================
