---------------------- MODULE RestoreActivationProofs ----------------------
(***************************************************************************)
(* The file swap of a restore: type correctness, recoverability, and that  *)
(* the swap with its journal implements AtomicRestore, for any number of   *)
(* commits, replacements, failed file operations and restarts.             *)
(***************************************************************************)
EXTENDS RestoreActivation, TLAPS

Replaced(c) == [gen |-> c.gen + 1, writes |-> c.writes]

(* While the handle is open the file it is open on is the active database. *)
OpenOK ==
  open => /\ active \in Contents
          /\ before = active
          /\ pc \in {"serving", "staged", "prepared", "cleaning", "recovering"}
          /\ pc \in {"cleaning", "recovering"} =>
               /\ journal \in {"none", "staging-active"}
               /\ staging = NoFile
               /\ snapshot = NoFile

(* While it is closed, the files hold the content readers saw last or the  *)
(* replacement, and the journal tells where.                               *)
ClosedOK ==
  ~open => \/ active = before
           \/ snapshot \in Contents /\ active = Replaced(snapshot)
           \/ /\ active = NoFile
              /\ rollback = before
              /\ journal # "none"
              /\ staging = NoFile \/ (snapshot \in Contents /\ staging = Replaced(snapshot))

(* Where the replacement is. *)
SwapOK ==
  /\ pc = "serving" => open
  /\ pc \in {"staged", "prepared"} => open
  /\ pc \in {"staged", "prepared", "closed", "moved", "replacing"} =>
       snapshot \in Contents /\ staging = Replaced(snapshot)
  /\ pc \in {"prepared", "closed", "moved"} => journal = "prepared"
  /\ pc = "closed" => active = before
  /\ pc \in {"moved", "replacing"} => active = NoFile /\ rollback = before
  /\ pc = "replacing" => journal = "active-moved"
  /\ pc = "swapped" =>
       /\ staging = NoFile
       /\ journal \in {"active-moved", "staging-active"}
       /\ rollback = before
       /\ snapshot \in Contents /\ active = Replaced(snapshot)
  /\ pc = "cleaning" => active # NoFile
  /\ pc = "cleaning" => (open <=> caller = "run")
  /\ pc = "recovering" => caller # "run"
  /\ pc = "recovering" /\ ~open => journal # "none"
  /\ pc = "recovering" /\ open => caller = "catch"

IInv == TypeOK /\ OpenOK /\ ClosedOK /\ SwapOK

(* A missing file is not a content. *)
LEMMA ContentIsNoFile == NoFile \notin Contents
BY FileAssumption DEF Contents

(* A replacement is a content. *)
LEMMA ReplacedIsContent == \A c \in Contents : Replaced(c) \in Contents
BY DEF Contents, Replaced

(* The inductive invariant: initially, in every step, always. *)
LEMMA InitIInv == Init => IInv
BY BoundAssumption, ContentIsNoFile DEF Init, IInv, TypeOK, OpenOK, ClosedOK, SwapOK, Contents, Files, Stages, Steps

(* Every step keeps the types. *)
LEMMA StepTypeOK == IInv /\ [Next]_vars => TypeOK'
<1> SUFFICES ASSUME IInv, [Next]_vars PROVE TypeOK'
  OBVIOUS
<1> USE ContentIsNoFile, ReplacedIsContent
    DEF IInv, TypeOK, OpenOK, ClosedOK, SwapOK, Files, Stages, Steps, files, history, bounds
<1>1. CASE Write
  <2>1. active \in Contents
    BY <1>1 DEF Write
  <2>2. active' \in Contents
    BY <1>1, <2>1 DEF Write, Contents
  <2> QED
    BY <1>1, <2>2 DEF Write
<1>2. CASE Stage
  <2>1. staging' \in Contents
    BY <1>2 DEF Stage, Contents
  <2> QED
    BY <1>2, <2>1 DEF Stage
<1>3. CASE JournalPrepared
  BY <1>3 DEF JournalPrepared
<1>4. CASE CloseActive
  BY <1>4 DEF CloseActive
<1>5. CASE MoveActive
  BY <1>5 DEF MoveActive
<1>6. CASE JournalMoved
  BY <1>6 DEF JournalMoved
<1>7. CASE MoveStaging
  BY <1>7 DEF MoveStaging
<1>8. CASE JournalSwapped
  BY <1>8 DEF JournalSwapped
<1>9. CASE Reopen
  BY <1>9 DEF Reopen
<1>10. CASE NothingToRecover
  BY <1>10 DEF NothingToRecover, Opened
<1>11. CASE KeepActive
  BY <1>11 DEF KeepActive
<1>12. CASE CompleteActivation
  BY <1>12 DEF CompleteActivation
<1>13. CASE RestoreRollback
  BY <1>13 DEF RestoreRollback
<1>14. CASE Unrecoverable
  BY <1>14 DEF Unrecoverable
<1>15. CASE Remove
  BY <1>15 DEF Remove
<1>16. CASE Removed
  <2>1. active \in Contents
    BY <1>16 DEF Removed
  <2> QED
    BY <1>16, <2>1 DEF Removed, Opened
<1>17. CASE Fault
  BY <1>17 DEF Fault, StagingFails, ActivationFails, RecoveryFails
<1>18. CASE Crash
  <2>1. staging' \in Files
    BY <1>18 DEF Crash
  <2>2. crashes' \in Nat
    BY <1>18 DEF Crash
  <2> QED
    BY <1>18, <2>1, <2>2 DEF Crash
<1>19. CASE Start
  <2>1. journal = "none" => active \in Contents
    BY <1>19 DEF Start
  <2> QED
    BY <1>19, <2>1 DEF Start, Opened
<1>20. CASE DropActive
  BY <1>20 DEF DropActive, ActiveUsable
<1>21. CASE UNCHANGED vars
  BY <1>21 DEF vars
<1> QED
  BY <1>1, <1>2, <1>3, <1>4, <1>5, <1>6, <1>7, <1>8, <1>9, <1>10, <1>11, <1>12,
     <1>13, <1>14, <1>15, <1>16, <1>17, <1>18, <1>19, <1>20, <1>21
     DEF Next, Activation, Recovery

(* An open handle stays a handle on the active database. *)
LEMMA StepOpenOK == IInv /\ [Next]_vars => OpenOK'
<1> SUFFICES ASSUME IInv, [Next]_vars PROVE OpenOK'
  OBVIOUS
<1> USE ContentIsNoFile, ReplacedIsContent
    DEF IInv, TypeOK, OpenOK, ClosedOK, SwapOK, Files, Stages, Steps, files, history, bounds
<1>1. CASE Write
  <2>1. active' \in Contents /\ before' = active'
    BY <1>1 DEF Write, Contents
  <2> QED
    BY <1>1, <2>1 DEF Write
<1>2. CASE Stage
  BY <1>2 DEF Stage, Replaced, Contents
<1>3. CASE JournalPrepared
  BY <1>3 DEF JournalPrepared
<1>4. CASE CloseActive
  BY <1>4 DEF CloseActive
<1>5. CASE MoveActive
  BY <1>5 DEF MoveActive
<1>6. CASE JournalMoved
  BY <1>6 DEF JournalMoved
<1>7. CASE MoveStaging
  BY <1>7 DEF MoveStaging
<1>8. CASE JournalSwapped
  BY <1>8 DEF JournalSwapped
<1>9. CASE Reopen
  BY <1>9 DEF Reopen
<1>10. CASE NothingToRecover
  BY <1>10 DEF NothingToRecover, Opened
<1>11. CASE KeepActive
  BY <1>11 DEF KeepActive, ActiveUsable
<1>12. CASE CompleteActivation
  BY <1>12 DEF CompleteActivation, ActiveUsable
<1>13. CASE RestoreRollback
  BY <1>13 DEF RestoreRollback
<1>14. CASE Unrecoverable
  BY <1>14 DEF Unrecoverable, ActiveUsable
<1>15. CASE Remove
  BY <1>15 DEF Remove
<1>16. CASE Removed
  BY <1>16 DEF Removed, Opened
<1>17. CASE Fault
  BY <1>17 DEF Fault, StagingFails, ActivationFails, RecoveryFails
<1>18. CASE Crash
  BY <1>18 DEF Crash
<1>19. CASE Start
  BY <1>19 DEF Start, Opened
<1>20. CASE DropActive
  BY <1>20 DEF DropActive, ActiveUsable
<1>21. CASE UNCHANGED vars
  BY <1>21 DEF vars
<1> QED
  BY <1>1, <1>2, <1>3, <1>4, <1>5, <1>6, <1>7, <1>8, <1>9, <1>10, <1>11, <1>12,
     <1>13, <1>14, <1>15, <1>16, <1>17, <1>18, <1>19, <1>20, <1>21
     DEF Next, Activation, Recovery

(* A closed database stays recoverable to one of its two contents. *)
LEMMA StepClosedOK == IInv /\ [Next]_vars => ClosedOK'
<1> SUFFICES ASSUME IInv, [Next]_vars PROVE ClosedOK'
  OBVIOUS
<1> USE ContentIsNoFile, ReplacedIsContent
    DEF IInv, TypeOK, OpenOK, ClosedOK, SwapOK, Files, Stages, Steps, files, history, bounds
<1>1. CASE Write
  BY <1>1 DEF Write
<1>2. CASE Stage
  BY <1>2 DEF Stage, Replaced, Contents
<1>3. CASE JournalPrepared
  BY <1>3 DEF JournalPrepared
<1>4. CASE CloseActive
  BY <1>4 DEF CloseActive
<1>5. CASE MoveActive
  BY <1>5 DEF MoveActive
<1>6. CASE JournalMoved
  BY <1>6 DEF JournalMoved
<1>7. CASE MoveStaging
  BY <1>7 DEF MoveStaging
<1>8. CASE JournalSwapped
  BY <1>8 DEF JournalSwapped
<1>9. CASE Reopen
  BY <1>9 DEF Reopen
<1>10. CASE NothingToRecover
  BY <1>10 DEF NothingToRecover, Opened
<1>11. CASE KeepActive
  BY <1>11 DEF KeepActive, ActiveUsable
<1>12. CASE CompleteActivation
  BY <1>12 DEF CompleteActivation, ActiveUsable
<1>13. CASE RestoreRollback
  BY <1>13 DEF RestoreRollback
<1>14. CASE Unrecoverable
  BY <1>14 DEF Unrecoverable, ActiveUsable
<1>15. CASE Remove
  BY <1>15 DEF Remove
<1>16. CASE Removed
  BY <1>16 DEF Removed, Opened
<1>17. CASE Fault
  BY <1>17 DEF Fault, StagingFails, ActivationFails, RecoveryFails
<1>18. CASE Crash
  BY <1>18 DEF Crash
<1>19. CASE Start
  BY <1>19 DEF Start, Opened
<1>20. CASE DropActive
  BY <1>20 DEF DropActive, ActiveUsable
<1>21. CASE UNCHANGED vars
  BY <1>21 DEF vars
<1> QED
  BY <1>1, <1>2, <1>3, <1>4, <1>5, <1>6, <1>7, <1>8, <1>9, <1>10, <1>11, <1>12,
     <1>13, <1>14, <1>15, <1>16, <1>17, <1>18, <1>19, <1>20, <1>21
     DEF Next, Activation, Recovery

(* The swap is where its process says it is. *)
LEMMA StepSwapOK == IInv /\ [Next]_vars => SwapOK'
<1> SUFFICES ASSUME IInv, [Next]_vars PROVE SwapOK'
  OBVIOUS
<1> USE ContentIsNoFile, ReplacedIsContent
    DEF IInv, TypeOK, OpenOK, ClosedOK, SwapOK, Files, Stages, Steps, files, history, bounds
<1>1. CASE Write
  <2>1. active' \in Contents
    BY <1>1 DEF Write, Contents
  <2> QED
    BY <1>1, <2>1 DEF Write
<1>2. CASE Stage
  <2>1. active \in Contents
    BY <1>2 DEF Stage
  <2>2. staging' = Replaced(active)
    BY <1>2, <2>1 DEF Stage, Replaced, Contents
  <2> QED
    BY <1>2, <2>1, <2>2 DEF Stage
<1>3. CASE JournalPrepared
  BY <1>3 DEF JournalPrepared
<1>4. CASE CloseActive
  BY <1>4 DEF CloseActive
<1>5. CASE MoveActive
  BY <1>5 DEF MoveActive
<1>6. CASE JournalMoved
  BY <1>6 DEF JournalMoved
<1>7. CASE MoveStaging
  BY <1>7 DEF MoveStaging
<1>8. CASE JournalSwapped
  BY <1>8 DEF JournalSwapped
<1>9. CASE Reopen
  BY <1>9 DEF Reopen
<1>10. CASE NothingToRecover
  BY <1>10 DEF NothingToRecover, Opened
<1>11. CASE KeepActive
  BY <1>11 DEF KeepActive, ActiveUsable
<1>12. CASE CompleteActivation
  BY <1>12 DEF CompleteActivation, ActiveUsable
<1>13. CASE RestoreRollback
  BY <1>13 DEF RestoreRollback
<1>14. CASE Unrecoverable
  BY <1>14 DEF Unrecoverable, ActiveUsable
<1>15. CASE Remove
  BY <1>15 DEF Remove
<1>16. CASE Removed
  BY <1>16 DEF Removed, Opened
<1>17. CASE Fault
  BY <1>17 DEF Fault, StagingFails, ActivationFails, RecoveryFails
<1>18. CASE Crash
  BY <1>18 DEF Crash
<1>19. CASE Start
  BY <1>19 DEF Start, Opened
<1>20. CASE DropActive
  BY <1>20 DEF DropActive, ActiveUsable
<1>21. CASE UNCHANGED vars
  BY <1>21 DEF vars
<1> QED
  BY <1>1, <1>2, <1>3, <1>4, <1>5, <1>6, <1>7, <1>8, <1>9, <1>10, <1>11, <1>12,
     <1>13, <1>14, <1>15, <1>16, <1>17, <1>18, <1>19, <1>20, <1>21
     DEF Next, Activation, Recovery

(* The four parts of the invariant together. *)
LEMMA NextIInv == IInv /\ [Next]_vars => IInv'
BY StepTypeOK, StepOpenOK, StepClosedOK, StepSwapOK DEF IInv

(* The invariant holds in every reachable state. *)
LEMMA Invariance == Spec => []IInv
BY InitIInv, NextIInv, PTL DEF Spec

(* The files, the journal and the process keep their types. *)
THEOREM TypeCorrect == Spec => []TypeOK
<1>1. IInv => TypeOK
  BY DEF IInv
<1> QED
  BY <1>1, Invariance, PTL

(* Wherever a process stops and whichever file operation fails, a later    *)
(* recovery finds a whole database.                                        *)
THEOREM AlwaysRecoverable == Spec => []Recoverable
<1>1. IInv => Recoverable
  BY ContentIsNoFile, ReplacedIsContent
     DEF IInv, TypeOK, OpenOK, ClosedOK, Recoverable
<1> QED
  BY <1>1, Invariance, PTL

(* Every step is a step of AtomicRestore or leaves what readers see alone. *)
LEMMA StepRefines == IInv /\ IInv' /\ [Next]_vars => [Atomic!AtomicNext]_(Atomic!avars)
<1> SUFFICES ASSUME IInv, IInv', [Next]_vars
             PROVE Atomic!AtomicNext \/ UNCHANGED <<Visible, snapshot, Undoable, open>>
  BY DEF Atomic!avars
<1> USE ContentIsNoFile
    DEF IInv, OpenOK, ClosedOK, SwapOK, files, history, bounds, Visible, Undoable, Atomic!AtomicNext
<1>1. CASE Write
  BY <1>1 DEF Write, Atomic!Commit
<1>2. CASE Stage
  BY <1>2 DEF Stage, Atomic!Begin
<1>3. CASE JournalPrepared
  BY <1>3 DEF JournalPrepared
<1>4. CASE CloseActive
  BY <1>4 DEF CloseActive, Atomic!Close
<1>5. CASE MoveActive \/ JournalMoved \/ MoveStaging \/ JournalSwapped
  BY <1>5 DEF MoveActive, JournalMoved, MoveStaging, JournalSwapped
<1>6. CASE Reopen
  BY <1>6 DEF Reopen, Atomic!OpenReplaced, Atomic!Replacement, Replaced
<1>7. CASE NothingToRecover
  BY <1>7 DEF NothingToRecover, Opened, Atomic!End
<1>8. CASE KeepActive
  BY <1>8 DEF KeepActive, ActiveUsable
<1>9. CASE CompleteActivation
  BY <1>9 DEF CompleteActivation
<1>10. CASE RestoreRollback
  BY <1>10 DEF RestoreRollback
<1>11. CASE Unrecoverable
  BY <1>11 DEF Unrecoverable
<1>12. CASE Remove
  BY <1>12 DEF Remove, Atomic!End
<1>13. CASE Removed
  BY <1>13 DEF Removed, Opened, Atomic!End, Atomic!OpenUnchanged, Atomic!OpenReplaced,
               Atomic!Replacement, Replaced
<1>14. CASE Fault
  BY <1>14 DEF Fault, StagingFails, ActivationFails, RecoveryFails, Atomic!End
<1>15. CASE Crash
  <2>1. CASE open
    BY <1>15, <2>1 DEF Crash, Atomic!Close
  <2>2. CASE open = FALSE
    BY <1>15, <2>2 DEF Crash
  <2> QED
    BY <2>1, <2>2 DEF TypeOK
<1>16. CASE Start
  BY <1>16 DEF Start, Opened, Atomic!OpenUnchanged, Atomic!OpenReplaced,
               Atomic!Replacement, Replaced
<1>17. CASE DropActive
  BY <1>17 DEF DropActive, ActiveUsable, Atomic!Undo
<1>18. CASE UNCHANGED vars
  BY <1>18 DEF vars
<1> QED
  BY <1>1, <1>2, <1>3, <1>4, <1>5, <1>6, <1>7, <1>8, <1>9, <1>10, <1>11, <1>12,
     <1>13, <1>14, <1>15, <1>16, <1>17, <1>18
     DEF Next, Activation, Recovery

(* The journalled file swap implements the atomic replacement: readers see *)
(* the old content or the whole new one, whatever fails and whenever the   *)
(* process stops.                                                          *)
THEOREM ImplementsAtomicRestore == Spec => AtomicForReaders
<1>1. Init => Atomic!AtomicInit
  BY DEF Init, Atomic!AtomicInit, Visible, Undoable
<1>2. IInv /\ IInv' /\ [Next]_vars => [Atomic!AtomicNext]_(Atomic!avars)
  BY StepRefines
<1> QED
  BY <1>1, <1>2, Invariance, PTL DEF Spec, AtomicForReaders, Atomic!AtomicSpec
=============================================================================
