------------------------ MODULE BackupRestoreProofs ------------------------
(***************************************************************************)
(* Restores, rollbacks and recoveries at startup, for any selection of     *)
(* parts and any number of restores, failures, restarts and deleted        *)
(* backups.                                                                *)
(***************************************************************************)
EXTENDS BackupRestore, TLAPS

-----------------------------------------------------------------------------
(* The inductive invariant *)

Running == {"applying", "clearing", "recording"}

(* The pre-restore backup is the one a failure would be undone with. *)
Needed == pc \in {"journalling", "catching"} \/ (pc \in Running /\ phase = "restore")

(* What the service is doing, for whom.  A restore that fails without a    *)
(* fault of the journal has one.                                           *)
FlowOK ==
  /\ pc \in Running => source \in 1..Last /\ (phase # "recovery" => source = Last)
  /\ pc \in {"journalling", "catching"} => Last \in 1..Last
  /\ operation = "none" =>
       pc \in {"idle", "down"} \/ (pc \in Running /\ phase = "recovery")
  /\ pc \in {"clearing", "recording"} => next = Len(Order) + 1
  /\ pc = "recording" => journal = 0
  /\ journalFaults = 0 /\ pc \in {"applying", "clearing", "catching"} => journal # 0

BackupOK == Needed => history[Last].backup # "deleted"

(* A restore leaves the parts that were not selected alone; the parts that *)
(* are done are the archive's, or in a rollback those of the backup.       *)
DataOK ==
  /\ pc = "journalling" => content = history[Last].content
  /\ pc \in Running /\ phase = "restore" =>
       \A i \in 1..Len(Order) :
         IF Order[i] \in history[source].sel THEN i < next => content[Order[i]] = source
         ELSE content[Order[i]] = history[source].content[Order[i]]
  /\ pc \in Running /\ phase # "restore" =>
       \A i \in 1..Len(Order) :
         i < next => content[Order[i]] = history[source].content[Order[i]]

(* An entry that calls the last restore done or undone is written when     *)
(* there is no journal any more, and stays true until the next restore.    *)
TruthOK ==
  history # <<>> /\ history[Last].status \in {"success", "rolled-back"} =>
    /\ journal = 0 /\ pc \in {"idle", "preflight", "down"}
    /\ history[Last].status = "success" => Restored(Last)
    /\ history[Last].status = "rolled-back" => RolledBack(Last)

(* Without a journal, and unless the journal failed, the data is whole. *)
SettledOK ==
  history # <<>> /\ journal = 0 /\ journalFaults = 0 =>
    \E k \in 1..Last : RolledBack(k) \/ Restored(k)

(* What every step of the service preserves.                               *)
IInv == TypeOK /\ FlowOK /\ BackupOK /\ DataOK /\ TruthOK /\ SettledOK

-----------------------------------------------------------------------------
(* The parts, and the entries of the history *)

Statuses == {"none", "success", "rolled-back", "failed"}

(* The service replaces every part, each at one place of the order.        *)
LEMMA OrderFacts ==
  /\ Len(Order) = 7
  /\ \A i \in 1..7 : Order[i] \in Parts
  /\ \A i, j \in 1..7 : Order[i] = Order[j] => i = j
  /\ \A p \in Parts : \E i \in 1..7 : p = Order[i]
<1>1. Len(Order) = 7
  BY DEF Order
<1>2. \A i, j \in 1..7 : Order[i] = Order[j] => i = j
  BY DEF Order
<1> QED BY <1>1, <1>2 DEF Parts

(* What a restore and a rollback write to a part is a content.             *)
LEMMA WrittenIsContent ==
  ASSUME TypeOK, source \in 1..Last, NEW p \in Parts
  PROVE  /\ source \in Nat \cup {Torn}
         /\ history[source].content[p] \in Nat \cup {Torn}
         /\ history[source].content \in Contents
<1>1. history[source] \in Restores
  BY DEF TypeOK, Last
<1>2. history[source].content \in Contents
  BY <1>1 DEF Restores
<1>3. source \in Nat
  BY DEF TypeOK, Last
<1> QED BY <1>2, <1>3 DEF Contents

(* updateHistory writes the status of one entry and nothing else.          *)
LEMMA RecordFacts ==
  ASSUME TypeOK, NEW k \in 1..Last, NEW s \in Statuses, Record(k, s)
  PROVE  /\ history' \in Seq(Restores)
         /\ Len(history') = Len(history)
         /\ \A j \in 1..Last : /\ history'[j].sel = history[j].sel
                               /\ history'[j].content = history[j].content
                               /\ history'[j].backup = history[j].backup
                               /\ history'[j].status = IF j = k THEN s ELSE history[j].status
<1>1. history \in Seq(Restores) /\ Len(history) \in Nat /\ Last = Len(history)
  BY DEF TypeOK, Last
<1>2. history[k] \in Restores
  BY <1>1
<1> PICK e : e = [history[k] EXCEPT !.status = s]  OBVIOUS
<1>3. e \in Restores
  BY <1>2 DEF Restores, Statuses
<1>4. /\ e.sel = history[k].sel /\ e.content = history[k].content
      /\ e.backup = history[k].backup /\ e.status = s
  BY <1>2 DEF Restores
<1>5. history' = [history EXCEPT ![k] = e]
  BY DEF Record
<1>6. history' \in Seq(Restores) /\ Len(history') = Len(history)
  BY <1>1, <1>3, <1>5
<1>7. \A j \in 1..Last : history'[j] = IF j = k THEN e ELSE history[j]
  BY <1>1, <1>5
<1> QED BY <1>4, <1>6, <1>7

(* A deletion marks the backup of one entry and changes nothing else.      *)
LEMMA DeleteFacts ==
  ASSUME TypeOK, NEW k \in 1..Last, history' = [history EXCEPT ![k].backup = "deleted"]
  PROVE  /\ history' \in Seq(Restores)
         /\ Len(history') = Len(history)
         /\ \A j \in 1..Last : /\ history'[j].sel = history[j].sel
                               /\ history'[j].content = history[j].content
                               /\ history'[j].status = history[j].status
<1>1. history \in Seq(Restores) /\ Len(history) \in Nat /\ Last = Len(history)
  BY DEF TypeOK, Last
<1>2. history[k] \in Restores
  BY <1>1
<1> PICK e : e = [history[k] EXCEPT !.backup = "deleted"]  OBVIOUS
<1>3. e \in Restores
  BY <1>2 DEF Restores
<1>4. e.sel = history[k].sel /\ e.content = history[k].content /\ e.status = history[k].status
  BY <1>2 DEF Restores
<1>5. history' = [history EXCEPT ![k] = e]
  OBVIOUS
<1>6. history' \in Seq(Restores) /\ Len(history') = Len(history)
  BY <1>1, <1>3, <1>5
<1>7. \A j \in 1..Last : history'[j] = IF j = k THEN e ELSE history[j]
  BY <1>1, <1>5
<1> QED BY <1>4, <1>6, <1>7

(* The entry of a new pre-restore backup comes after all others and        *)
(* changes none of them.                                                   *)
LEMMA CreateFacts ==
  ASSUME TypeOK, CreatePreRestore
  PROVE  /\ history' \in Seq(Restores)
         /\ Len(history') = Len(history) + 1
         /\ \A j \in 1..Last : history'[j] = history[j]
         /\ history'[Len(history')].content = content
         /\ history'[Len(history')].backup # "deleted"
         /\ history'[Len(history')].status = "none"
<1>1. history \in Seq(Restores) /\ Len(history) \in Nat /\ Last = Len(history)
  BY DEF TypeOK, Last
<1>2. PICK sel \in Selections, kind \in Encryptions :
        history' = Append(history, [sel |-> sel, backup |-> kind, content |-> content,
                                    notifying |-> notifying, status |-> "none"])
  BY DEF CreatePreRestore
<1> PICK e : e = [sel |-> sel, backup |-> kind, content |-> content,
                  notifying |-> notifying, status |-> "none"]  OBVIOUS
<1>3. e \in Restores
  <2>1. sel \in SUBSET Parts /\ kind \in {"plain", "encrypted", "deleted"}
    BY SelectionAssumption, ArchiveAssumption
  <2>2. content \in Contents /\ notifying \in BOOLEAN
    BY DEF TypeOK
  <2> QED BY <2>1, <2>2 DEF Restores
<1>4. e.content = content /\ e.backup = kind /\ e.status = "none"
  OBVIOUS
<1>5. kind # "deleted"
  BY ArchiveAssumption
<1>6. /\ Append(history, e) \in Seq(Restores)
      /\ Len(Append(history, e)) = Len(history) + 1
      /\ \A j \in 1..Len(history) : Append(history, e)[j] = history[j]
      /\ Append(history, e)[Len(history) + 1] = e
  BY <1>1, <1>3
<1>7. history' = Append(history, e)
  BY <1>2
<1> QED BY <1>1, <1>4, <1>5, <1>6, <1>7

(* What the data is, compared with an entry, depends on the data and on    *)
(* what the entry says was selected and saved.                             *)
LEMMA SameData ==
  ASSUME content' = content, NEW k,
         history'[k].sel = history[k].sel, history'[k].content = history[k].content
  PROVE  (RolledBack(k)' <=> RolledBack(k)) /\ (Restored(k)' <=> Restored(k))
  BY DEF RolledBack, Restored

(* A pass over all parts has made the data that of the archive, or in a    *)
(* rollback that of the backup.                                            *)
LEMMA PassIsComplete ==
  ASSUME IInv, pc \in Running, next = Len(Order) + 1
  PROVE  /\ phase = "restore" => Restored(source)
         /\ phase # "restore" => RolledBack(source)
<1>1. source \in 1..Last
  BY DEF IInv, FlowOK
<1>2. \A i \in 1..7 : i < next
  BY OrderFacts
<1>3. CASE phase = "restore"
  <2> SUFFICES ASSUME NEW p \in Parts
               PROVE  content[p] = IF p \in history[source].sel THEN source
                                   ELSE history[source].content[p]
    BY <1>3 DEF Restored
  <2>1. PICK i \in 1..7 : p = Order[i]
    BY OrderFacts
  <2>2. IF Order[i] \in history[source].sel THEN i < next => content[Order[i]] = source
        ELSE content[Order[i]] = history[source].content[Order[i]]
    BY <1>3, OrderFacts DEF IInv, DataOK
  <2> QED BY <2>1, <2>2, <1>2
<1>4. CASE phase # "restore"
  <2>1. \A p \in Parts : content[p] = history[source].content[p]
    <3> TAKE p \in Parts
    <3>1. PICK i \in 1..7 : p = Order[i]
      BY OrderFacts
    <3> QED BY <3>1, <1>2, <1>4, OrderFacts DEF IInv, DataOK
  <2>2. content \in Contents
    BY DEF IInv, TypeOK
  <2>3. history[source] \in Restores
    BY <1>1 DEF IInv, TypeOK, Last
  <2>4. history[source].content \in Contents
    BY <2>3 DEF Restores
  <2> QED BY <1>4, <2>1, <2>2, <2>4 DEF Contents, RolledBack
<1> QED BY <1>3, <1>4

(* Replacing the part whose turn it is continues the pass.                 *)
LEMMA PartReplaced ==
  ASSUME IInv, pc = "applying", NEW p \in Sections, p \in Parts, Replacing(p), Put(p)
  PROVE  content' \in Contents /\ next' \in 1..(Len(Order) + 1) /\ DataOK'
<1>1. source \in 1..Last
  BY DEF IInv, FlowOK, Running
<1>2. next \in 1..7 /\ Order[next] = p /\ next' = next + 1
  BY OrderFacts DEF IInv, TypeOK, Replacing, Put
<1> PICK v : v = IF phase = "restore" THEN source ELSE history[source].content[p]  OBVIOUS
<1>3. v \in Nat \cup {Torn}
  BY <1>1, WrittenIsContent DEF IInv
<1>4. content \in Contents /\ content' = [content EXCEPT ![p] = v]
  BY DEF IInv, TypeOK, Put
<1>5. content' \in Contents
  BY <1>3, <1>4 DEF Contents
<1>6. \A q \in Parts : content'[q] = IF q = p THEN v ELSE content[q]
  BY <1>4 DEF Contents
<1>7. \A i \in 1..7 : /\ content'[Order[i]] = IF i = next THEN v ELSE content[Order[i]]
                      /\ i < next' => i < next \/ i = next
  BY <1>2, <1>6, OrderFacts
<1>8. pc' = pc /\ phase' = phase /\ source' = source /\ history' = history
  BY DEF Put
<1>9. CASE phase = "restore"
  <2>1. p \in history[source].sel
    BY <1>9 DEF Sections
  <2>2. \A i \in 1..7 :
          IF Order[i] \in history[source].sel THEN i < next => content[Order[i]] = source
          ELSE content[Order[i]] = history[source].content[Order[i]]
    BY <1>9, OrderFacts DEF IInv, DataOK, Running
  <2>3. \A i \in 1..7 :
          IF Order[i] \in history[source].sel THEN i < next' => content'[Order[i]] = source
          ELSE content'[Order[i]] = history[source].content[Order[i]]
    BY <2>1, <2>2, <1>2, <1>7, <1>9
  <2> QED BY <1>2, <1>5, <1>8, <1>9, <2>3, OrderFacts DEF DataOK, Running
<1>10. CASE phase # "restore"
  <2>1. \A i \in 1..7 :
          i < next => content[Order[i]] = history[source].content[Order[i]]
    BY <1>10, OrderFacts DEF IInv, DataOK, Running
  <2>2. \A i \in 1..7 :
          i < next' => content'[Order[i]] = history[source].content[Order[i]]
    BY <2>1, <1>2, <1>7, <1>10
  <2> QED BY <1>2, <1>5, <1>8, <1>10, <2>2, OrderFacts DEF DataOK, Running
<1> QED BY <1>9, <1>10

-----------------------------------------------------------------------------
(* Steps that leave the data and the saved contents alone *)

(* While the service works for a restore, no entry calls it done.          *)
LEMMA NotCalledDone ==
  ASSUME IInv, history # <<>>, pc \notin {"idle", "preflight", "down"}
  PROVE  history[Last].status \notin {"success", "rolled-back"}
  BY DEF IInv, TruthOK

(* Data that is whole stays whole when it and the entries are kept.        *)
LEMMA SettledKept ==
  ASSUME IInv, content' = content, history' \in Seq(Restores), Len(history') = Len(history),
         \A j \in 1..Last : /\ history'[j].sel = history[j].sel
                            /\ history'[j].content = history[j].content,
         journal' = 0 => journal = 0, journalFaults' = 0 => journalFaults = 0
  PROVE  SettledOK'
<1> SUFFICES ASSUME history' # <<>>, journal' = 0, journalFaults' = 0
             PROVE  \E k \in 1..Last : RolledBack(k)' \/ Restored(k)'
  BY DEF SettledOK, Last
<1>1. history # <<>>
  BY DEF IInv, TypeOK
<1>2. PICK k \in 1..Last : RolledBack(k) \/ Restored(k)
  BY <1>1 DEF IInv, SettledOK
<1> QED BY <1>2, SameData

(* A step that only moves the service on, without touching the data, the   *)
(* entries or the pass, preserves what is known of them.                   *)
LEMMA EntriesKept ==
  ASSUME IInv, UNCHANGED <<content, history, journal>>, journalFaults' = 0 => journalFaults = 0,
         pc \in {"idle", "preflight", "down"} => pc' \in {"idle", "preflight", "down"}
  PROVE  TruthOK' /\ SettledOK'
<1>1. SettledOK'
  BY SettledKept DEF IInv, TypeOK
<1>2. TruthOK'
  BY DEF IInv, TruthOK, Last, Restored, RolledBack
<1> QED BY <1>1, <1>2

(* An error in a pass: the catch block, the end of a rollback, or the end  *)
(* of the process.  The journal stays.                                     *)
LEMMA ThrowOK ==
  ASSUME IInv, pc \in {"applying", "clearing"}, Throw,
         UNCHANGED <<notifying, journal, phase, source, next>>,
         content' \in Contents, handle' \in {"own", "live", "stale"},
         requests' \in Nat, faults' \in Nat, crashes' \in Nat, deletes' \in Nat,
         journalFaults' = journalFaults
  PROVE  IInv'
<1>1. source \in 1..Last /\ Last \in 1..Last /\ (phase # "recovery" => source = Last)
  BY DEF IInv, FlowOK, Running, TypeOK, Last
<1>2. history # <<>>
  BY <1>1 DEF Last
<1>3. history[Last].status \notin {"success", "rolled-back"}
  BY <1>2, NotCalledDone
<1>4. journalFaults = 0 => journal # 0
  BY DEF IInv, FlowOK
<1>5. SettledOK'
  BY <1>4 DEF SettledOK
<1>6. CASE phase = "restore" /\ pc' = "catching" /\ UNCHANGED <<history, locks>>
  <2>1. TypeOK'
    BY <1>6 DEF IInv, TypeOK, locks
  <2>2. FlowOK'
    BY <1>1, <1>4, <1>6 DEF IInv, TypeOK, FlowOK, Running, Last, locks
  <2>3. BackupOK' /\ DataOK'
    BY <1>6 DEF IInv, BackupOK, DataOK, Needed, Running, Last
  <2>4. TruthOK'
    BY <1>3, <1>6 DEF TruthOK, Last
  <2> QED BY <1>5, <2>1, <2>2, <2>3, <2>4 DEF IInv
<1>7. CASE phase = "rollback" /\ Record(Last, "failed") /\ Finish
  <2>1. /\ history' \in Seq(Restores)
        /\ Len(history') = Len(history)
        /\ history'[Last].status = "failed"
    BY <1>1, <1>7, RecordFacts DEF IInv, Statuses
  <2>2. TypeOK'
    BY <1>7, <2>1 DEF IInv, TypeOK, Finish
  <2>3. FlowOK' /\ BackupOK' /\ DataOK'
    BY <1>7 DEF FlowOK, BackupOK, DataOK, Needed, Running, Finish
  <2>4. TruthOK'
    BY <2>1 DEF TruthOK, Last
  <2> QED BY <1>5, <2>2, <2>3, <2>4 DEF IInv
<1>8. CASE phase = "recovery" /\ pc' = "down" /\ maintenance' = FALSE
             /\ UNCHANGED <<history, operation>>
  <2>1. TypeOK'
    BY <1>8 DEF IInv, TypeOK
  <2>2. FlowOK' /\ BackupOK' /\ DataOK'
    BY <1>8 DEF FlowOK, BackupOK, DataOK, Needed, Running
  <2>3. TruthOK'
    BY <1>3, <1>8 DEF TruthOK, Last
  <2> QED BY <1>5, <2>1, <2>2, <2>3 DEF IInv
<1> QED BY <1>6, <1>7, <1>8 DEF Throw

-----------------------------------------------------------------------------
(* restore() up to the replacement *)

(* A restore begins with the data as it is.                                *)
LEMMA BeginRestoreOK == IInv /\ BeginRestore => IInv'
<1> SUFFICES ASSUME IInv, BeginRestore PROVE IInv'
  OBVIOUS
<1>1. TypeOK'
  BY DEF IInv, TypeOK, BeginRestore, data, job
<1>2. FlowOK' /\ BackupOK' /\ DataOK'
  BY DEF BeginRestore, FlowOK, BackupOK, DataOK, Needed, Running
<1>3. TruthOK' /\ SettledOK'
  BY EntriesKept DEF BeginRestore, data
<1> QED BY <1>1, <1>2, <1>3 DEF IInv

(* A refused restore leaves everything as it was.                          *)
LEMMA RefuseOK == IInv /\ Refuse => IInv'
<1> SUFFICES ASSUME IInv, Refuse PROVE IInv'
  OBVIOUS
<1>1. TypeOK'
  BY DEF IInv, TypeOK, Refuse, Finish, data, job, bounds
<1>2. FlowOK' /\ BackupOK' /\ DataOK'
  BY DEF Refuse, Finish, FlowOK, BackupOK, DataOK, Needed, Running
<1>3. TruthOK' /\ SettledOK'
  BY EntriesKept DEF Refuse, Finish, data, bounds
<1> QED BY <1>1, <1>2, <1>3 DEF IInv

(* A new pre-restore backup holds the data as it is, so that the data is   *)
(* whole with respect to it.                                               *)
LEMMA CreatePreRestoreOK == IInv /\ CreatePreRestore => IInv'
<1> SUFFICES ASSUME IInv, CreatePreRestore PROVE IInv'
  OBVIOUS
<1>1. TypeOK
  BY DEF IInv
<1>2. Len(history) \in Nat /\ Len(history') = Len(history) + 1 /\ history' \in Seq(Restores)
  BY <1>1, CreateFacts DEF TypeOK
<1>3. /\ history'[Len(history')].content = content
      /\ history'[Len(history')].backup # "deleted"
      /\ history'[Len(history')].status = "none"
  BY <1>1, CreateFacts
<1>4. TypeOK'
  <2>1. journal' \in 0..Len(history') /\ source' \in 0..Len(history')
    BY <1>1, <1>2 DEF TypeOK, CreatePreRestore, job
  <2> QED BY <1>1, <1>2, <2>1 DEF TypeOK, CreatePreRestore, data, job, locks, bounds
<1>5. pc = "preflight" /\ pc' = "journalling" /\ content' = content /\ operation' = operation
  BY DEF CreatePreRestore, data, locks
<1>6. FlowOK'
  BY <1>2, <1>5 DEF IInv, FlowOK, Running, Last
<1>7. BackupOK' /\ DataOK' /\ TruthOK'
  BY <1>3, <1>5 DEF BackupOK, DataOK, TruthOK, Running, Last
<1>8. SettledOK'
  BY <1>2, <1>3, <1>5 DEF SettledOK, RolledBack, Last
<1> QED BY <1>4, <1>6, <1>7, <1>8 DEF IInv

(* The journal names the backup before anything is replaced.               *)
LEMMA WriteJournalOK == IInv /\ WriteJournal => IInv'
<1> SUFFICES ASSUME IInv, WriteJournal PROVE IInv'
  OBVIOUS
<1>1. Last \in 1..Last /\ history # <<>>
  BY DEF IInv, FlowOK, WriteJournal, Last
<1>2. TypeOK'
  <2>1. next' \in 1..(Len(Order) + 1)
    BY OrderFacts DEF WriteJournal, Apply
  <2> QED BY <1>1, <2>1 DEF IInv, TypeOK, WriteJournal, Apply, data, locks, bounds, Last
<1>3. FlowOK'
  BY <1>1 DEF IInv, FlowOK, WriteJournal, Apply, locks, Running, Last
<1>4. BackupOK'
  BY DEF IInv, BackupOK, WriteJournal, Apply, Needed, Last
<1>5. DataOK'
  <2>1. content' = history'[source'].content /\ phase' = "restore" /\ pc' = "applying" /\ next' = 1
    BY DEF IInv, DataOK, WriteJournal, Apply, data
  <2> QED BY <2>1, OrderFacts DEF DataOK
<1>6. TruthOK'
  BY <1>1, NotCalledDone DEF WriteJournal, TruthOK, Last
<1>7. SettledOK'
  BY <1>1 DEF WriteJournal, SettledOK, IInv, TypeOK, Last
<1> QED BY <1>2, <1>3, <1>4, <1>5, <1>6, <1>7 DEF IInv

-----------------------------------------------------------------------------
(* applyParsed *)

(* A step of a pass that has a journal to go back to: what is known of the *)
(* history stays.                                                          *)
LEMMA PassStepKeepsHistory ==
  ASSUME IInv, pc = "applying",
         UNCHANGED <<history, journal, pc, phase, source, locks, journalFaults>>
  PROVE  FlowOK' /\ BackupOK' /\ TruthOK' /\ SettledOK'
<1>1. source \in 1..Last /\ history # <<>>
  BY DEF IInv, FlowOK, Running, Last, TypeOK
<1>2. FlowOK'
  BY DEF IInv, FlowOK, Running, Last, locks
<1>3. BackupOK'
  BY DEF IInv, BackupOK, Needed, Running, Last
<1>4. TruthOK'
  BY <1>1, NotCalledDone DEF TruthOK, Last
<1>5. SettledOK'
  BY DEF IInv, FlowOK, SettledOK
<1> QED BY <1>2, <1>3, <1>4, <1>5

(* A part that was not selected is passed over and left alone.             *)
LEMMA SkipPartOK == IInv /\ SkipPart => IInv'
<1> SUFFICES ASSUME IInv, SkipPart PROVE IInv'
  OBVIOUS
<1>1. PICK p \in Parts \ Sections : Replacing(p)
  BY DEF SkipPart
<1>2. phase = "restore" /\ p \notin history[source].sel
  BY <1>1 DEF Sections
<1>3. next \in 1..7 /\ Order[next] = p /\ next' = next + 1
  BY <1>1, OrderFacts DEF IInv, TypeOK, Replacing, SkipPart
<1>4. TypeOK'
  <2>1. next' \in 1..(Len(Order) + 1)
    BY <1>3, OrderFacts
  <2> QED BY <2>1 DEF IInv, TypeOK, SkipPart, data, locks, bounds
<1>5. FlowOK' /\ BackupOK' /\ TruthOK' /\ SettledOK'
  BY PassStepKeepsHistory DEF SkipPart, bounds
<1>6. DataOK'
  <2>1. /\ pc = "applying"
        /\ pc' = pc /\ phase' = phase /\ source' = source /\ history' = history
        /\ content' = content
    BY DEF SkipPart, data
  <2>2. \A i \in 1..7 :
          IF Order[i] \in history[source].sel THEN i < next => content[Order[i]] = source
          ELSE content[Order[i]] = history[source].content[Order[i]]
    BY <1>2, <2>1, OrderFacts DEF IInv, DataOK, Running
  <2>3. \A i \in 1..7 :
          IF Order[i] \in history[source].sel THEN i < next' => content[Order[i]] = source
          ELSE content[Order[i]] = history[source].content[Order[i]]
    <3>1. \A i \in 1..7 : i < next' => i < next \/ i = next
      BY <1>3
    <3> QED BY <1>2, <1>3, <2>2, <3>1
  <2> QED BY <1>2, <2>1, <2>3, OrderFacts DEF DataOK, Running
<1> QED BY <1>4, <1>5, <1>6 DEF IInv

(* Any replacement of a part in its turn.                                  *)
LEMMA PutOK ==
  ASSUME IInv, pc = "applying", NEW p \in Parts, p \in Sections, Replacing(p), Put(p),
         notifying' \in BOOLEAN, handle' \in {"own", "live", "stale"}
  PROVE  IInv'
<1>1. content' \in Contents /\ next' \in 1..(Len(Order) + 1) /\ DataOK'
  BY PartReplaced
<1>2. TypeOK'
  BY <1>1 DEF IInv, TypeOK, Put, locks, bounds
<1>3. FlowOK' /\ BackupOK' /\ TruthOK' /\ SettledOK'
  BY PassStepKeepsHistory DEF Put, bounds
<1> QED BY <1>1, <1>2, <1>3 DEF IInv

(* What a pass replaces are parts of the application's data.               *)
LEMMA SectionsAreParts == IInv /\ pc = "applying" => Sections \subseteq Parts
<1> SUFFICES ASSUME IInv, pc = "applying" PROVE Sections \subseteq Parts
  OBVIOUS
<1>1. history[source] \in Restores
  BY DEF IInv, FlowOK, Running, TypeOK, Last
<1> QED BY <1>1 DEF Sections, Restores

(* The core stores, whose replacement closes the database object.          *)
LEMMA ReplaceCoreOK == IInv /\ ReplaceCore => IInv'
<1> SUFFICES ASSUME IInv, ReplaceCore PROVE IInv'
  OBVIOUS
<1>1. notifying' \in BOOLEAN /\ handle' \in {"own", "live", "stale"}
  BY DEF IInv, TypeOK, ReplaceCore, Detached
<1>2. "core" \in Parts
  BY SectionsAreParts DEF ReplaceCore
<1> QED BY <1>1, <1>2, PutOK DEF ReplaceCore

(* The telemetry, the sharing settings and the parts that are files.       *)
LEMMA ReplacePartOK == IInv /\ ReplacePart => IInv'
<1> SUFFICES ASSUME IInv, ReplacePart PROVE IInv'
  OBVIOUS
<1>1. notifying' \in BOOLEAN /\ handle' \in {"own", "live", "stale"}
  BY DEF IInv, TypeOK, ReplacePart
<1>2. PICK p \in Sections : Replacing(p) /\ Put(p)
  BY DEF ReplacePart
<1>3. p \in Parts
  BY SectionsAreParts DEF ReplacePart
<1> QED BY <1>1, <1>2, <1>3, PutOK DEF ReplacePart

(* The notifications, written through a handle that is still open.         *)
LEMMA ReplaceNotificationsOK == IInv /\ ReplaceNotifications => IInv'
<1> SUFFICES ASSUME IInv, ReplaceNotifications PROVE IInv'
  OBVIOUS
<1>1. notifying' \in BOOLEAN /\ handle' \in {"own", "live", "stale"}
  BY DEF IInv, TypeOK, ReplaceNotifications
<1>2. "notifications" \in Parts
  BY SectionsAreParts DEF ReplaceNotifications
<1> QED BY <1>1, <1>2, PutOK DEF ReplaceNotifications

(* A part half replaced is the one whose turn it is, so that neither the   *)
(* parts that are done nor those not selected are touched.                 *)
LEMMA ReplaceSomeFilesOK == IInv /\ ReplaceSomeFiles => IInv'
<1> SUFFICES ASSUME IInv, ReplaceSomeFiles PROVE IInv'
  OBVIOUS
<1>1. PICK p \in FileParts \cap Sections :
        Replacing(p) /\ content' = [content EXCEPT ![p] = Torn]
  BY DEF ReplaceSomeFiles
<1>2. /\ pc = "applying" /\ pc' = pc /\ phase' = phase /\ source' = source
      /\ next' = next /\ history' = history
  BY DEF ReplaceSomeFiles, job
<1>3. next \in 1..7 /\ Order[next] = p
  BY <1>1, OrderFacts DEF IInv, TypeOK, Replacing
<1>4. content \in Contents
  BY DEF IInv, TypeOK
<1>5. content' \in Contents
  BY <1>1, <1>4 DEF Contents
<1>6. \A i \in 1..7 : i # next => content'[Order[i]] = content[Order[i]]
  BY <1>1, <1>3, <1>4, OrderFacts DEF Contents
<1>7. TypeOK'
  BY <1>5 DEF IInv, TypeOK, ReplaceSomeFiles, job, locks, bounds
<1>8. FlowOK' /\ BackupOK' /\ TruthOK' /\ SettledOK'
  BY <1>2, PassStepKeepsHistory DEF ReplaceSomeFiles, bounds, job
<1>9. \A i \in 1..7 : i < next => i # next
  BY <1>3
<1>10. DataOK'
  <2>1. CASE phase = "restore"
    <3>1. p \in history[source].sel
      BY <1>1, <2>1 DEF Sections
    <3>2. \A i \in 1..7 :
            IF Order[i] \in history[source].sel THEN i < next => content[Order[i]] = source
            ELSE content[Order[i]] = history[source].content[Order[i]]
      BY <1>2, <2>1, OrderFacts DEF IInv, DataOK, Running
    <3>3. \A i \in 1..7 :
            IF Order[i] \in history[source].sel THEN i < next => content'[Order[i]] = source
            ELSE content'[Order[i]] = history[source].content[Order[i]]
      BY <1>3, <1>6, <1>9, <3>1, <3>2
    <3> QED BY <1>2, <2>1, <3>3, OrderFacts DEF DataOK, Running
  <2>2. CASE phase # "restore"
    <3>1. \A i \in 1..7 :
            i < next => content'[Order[i]] = history[source].content[Order[i]]
      BY <1>2, <1>6, <1>9, <2>2, OrderFacts DEF IInv, DataOK, Running
    <3> QED BY <1>2, <2>2, <3>1, OrderFacts DEF DataOK, Running
  <2> QED BY <2>1, <2>2
<1> QED BY <1>7, <1>8, <1>10 DEF IInv

(* Notifications written through a closed handle fail like any part.       *)
LEMMA NotificationsThrowOK == IInv /\ NotificationsThrow => IInv'
<1> SUFFICES ASSUME IInv, NotificationsThrow PROVE IInv'
  OBVIOUS
<1>1. /\ content' \in Contents /\ handle' \in {"own", "live", "stale"}
      /\ requests' \in Nat /\ faults' \in Nat /\ crashes' \in Nat /\ deletes' \in Nat
  BY DEF IInv, TypeOK, NotificationsThrow, data, bounds
<1> QED BY <1>1, ThrowOK DEF NotificationsThrow, data, job, bounds

(* The hook runs when every part has had its turn.                         *)
LEMMA OnRestoreAppliedOK == IInv /\ OnRestoreApplied => IInv'
<1> SUFFICES ASSUME IInv, OnRestoreApplied PROVE IInv'
  OBVIOUS
<1>1. CASE Throw
  <2>1. /\ content' \in Contents /\ handle' \in {"own", "live", "stale"}
        /\ requests' \in Nat /\ faults' \in Nat /\ crashes' \in Nat /\ deletes' \in Nat
    BY DEF IInv, TypeOK, OnRestoreApplied, data, bounds
  <2> QED BY <1>1, <2>1, ThrowOK DEF OnRestoreApplied, data, job, bounds
<1>2. CASE pc' = "clearing" /\ UNCHANGED <<history, locks>>
  <2>1. next = Len(Order) + 1
    BY OrderFacts DEF IInv, TypeOK, OnRestoreApplied
  <2>2. TypeOK'
    BY <1>2 DEF IInv, TypeOK, OnRestoreApplied, data, job, locks, bounds
  <2>3. FlowOK'
    BY <1>2, <2>1 DEF IInv, FlowOK, OnRestoreApplied, Running, Last, job, locks, bounds
  <2>4. BackupOK'
    BY <1>2 DEF IInv, BackupOK, Needed, OnRestoreApplied, Running, Last, job
  <2>5. DataOK'
    BY <1>2 DEF IInv, DataOK, OnRestoreApplied, Running, Last, data, job
  <2>6. TruthOK' /\ SettledOK'
    BY <1>2, EntriesKept DEF OnRestoreApplied, data, bounds
  <2> QED BY <2>2, <2>3, <2>4, <2>5, <2>6 DEF IInv
<1> QED BY <1>1, <1>2 DEF OnRestoreApplied

(* The journal goes when the data is whole.                                *)
LEMMA ClearJournalOK == IInv /\ ClearJournal => IInv'
<1> SUFFICES ASSUME IInv, ClearJournal PROVE IInv'
  OBVIOUS
<1>1. source \in 1..Last /\ next = Len(Order) + 1 /\ history # <<>>
  BY DEF IInv, FlowOK, Running, ClearJournal, TypeOK, Last
<1>2. Restored(source) \/ RolledBack(source)
  BY <1>1, PassIsComplete DEF ClearJournal, Running
<1>3. TypeOK'
  <2>1. journal' \in 0..Len(history')
    BY DEF IInv, TypeOK, ClearJournal
  <2> QED BY <2>1 DEF IInv, TypeOK, ClearJournal, data, job, locks, bounds
<1>4. FlowOK'
  BY <1>1 DEF IInv, FlowOK, ClearJournal, Running, Last, job, locks
<1>5. BackupOK'
  BY DEF IInv, BackupOK, Needed, ClearJournal, Running, Last, job
<1>6. DataOK'
  BY DEF IInv, DataOK, ClearJournal, Running, data, job
<1>7. TruthOK'
  BY <1>1, NotCalledDone DEF ClearJournal, TruthOK, Last
<1>8. SettledOK'
  <2>1. Restored(source)' \/ RolledBack(source)'
    BY <1>2 DEF Restored, RolledBack, ClearJournal, data, job
  <2>2. source' \in 1..Last'
    BY <1>1 DEF ClearJournal, Last, job
  <2> QED BY <2>1, <2>2 DEF SettledOK
<1> QED BY <1>3, <1>4, <1>5, <1>6, <1>7, <1>8 DEF IInv

(* The entry calls the restore done, or undone, when the data says so.     *)
LEMMA ConcludeOK == IInv /\ Conclude => IInv'
<1> SUFFICES ASSUME IInv, Conclude PROVE IInv'
  OBVIOUS
<1>1. source \in 1..Last /\ next = Len(Order) + 1 /\ history # <<>> /\ journal = 0
  BY DEF IInv, FlowOK, Running, Conclude, TypeOK, Last
<1>2. /\ phase = "restore" => Restored(source) /\ source = Last
      /\ phase # "restore" => RolledBack(source)
  BY <1>1, PassIsComplete DEF Conclude, Running, IInv, FlowOK
<1>3. /\ history' \in Seq(Restores) /\ Len(history') = Len(history)
      /\ \A j \in 1..Last : /\ history'[j].sel = history[j].sel
                            /\ history'[j].content = history[j].content
      /\ history'[Last].status = IF phase = "restore" THEN "success"
                                 ELSE IF source = Last /\ history[source].status = "none"
                                      THEN "rolled-back" ELSE history[Last].status
  <2>0. TypeOK /\ Last \in 1..Last
    BY <1>1 DEF IInv, TypeOK, Last
  <2>1. CASE phase = "restore" /\ Record(source, "success")
    BY <1>1, <1>2, <2>0, <2>1, RecordFacts DEF Statuses
  <2>2. CASE phase # "restore" /\ history[source].status = "none" /\ Record(source, "rolled-back")
    BY <1>1, <2>0, <2>2, RecordFacts DEF Statuses
  <2>3. CASE phase # "restore" /\ history[source].status # "none" /\ UNCHANGED history
    BY <2>0, <2>3 DEF TypeOK
  <2> QED BY <2>1, <2>2, <2>3 DEF Conclude
<1>4. TypeOK'
  BY <1>3 DEF IInv, TypeOK, Conclude, Finish, data, job, bounds
<1>5. FlowOK' /\ BackupOK' /\ DataOK'
  BY DEF FlowOK, BackupOK, DataOK, Needed, Running, Conclude, Finish
<1>6. SettledOK'
  BY <1>3, SettledKept DEF Conclude, data, bounds
<1>7. TruthOK'
  <2>1. history[Last].status \notin {"success", "rolled-back"}
    BY <1>1, NotCalledDone DEF Conclude
  <2>2. Last \in 1..Last /\ Last' = Last /\ content' = content
    BY <1>1, <1>3 DEF IInv, TypeOK, Last, Conclude, data
  <2>3. (RolledBack(Last) => RolledBack(Last)') /\ (Restored(Last) => Restored(Last)')
    BY <1>3, <2>2 DEF RolledBack, Restored
  <2>4. journal' = 0 /\ pc' = "idle"
    BY <1>1 DEF Conclude, Finish
  <2>5. history'[Last].status = "success" => Restored(Last)'
    BY <1>2, <1>3, <2>1, <2>3
  <2>6. history'[Last].status = "rolled-back" => RolledBack(Last)'
    BY <1>2, <1>3, <2>1, <2>3
  <2> QED BY <2>2, <2>4, <2>5, <2>6 DEF TruthOK
<1> QED BY <1>4, <1>5, <1>6, <1>7 DEF IInv

-----------------------------------------------------------------------------
(* The catch block, startup, and the other requests *)

(* The rollback is from the backup of the restore that failed.             *)
LEMMA CatchOK == IInv /\ Catch => IInv'
<1> SUFFICES ASSUME IInv, Catch PROVE IInv'
  OBVIOUS
<1>1. Last \in 1..Last /\ history # <<>>
  BY DEF IInv, FlowOK, Catch, Last
<1>2. history[Last].status \notin {"success", "rolled-back"}
  BY <1>1, NotCalledDone DEF Catch
<1>3. CASE Apply("rollback", Last) /\ UNCHANGED <<history, locks>>
  <2>1. TypeOK'
    <3>1. next' \in 1..(Len(Order) + 1)
      BY <1>3, OrderFacts DEF Apply
    <3> QED BY <1>1, <1>3, <3>1 DEF IInv, TypeOK, Catch, Apply, data, locks, bounds, Last
  <2>2. FlowOK'
    BY <1>1, <1>3 DEF IInv, FlowOK, Catch, Apply, Running, Last, locks, bounds
  <2>3. BackupOK'
    BY <1>3 DEF BackupOK, Needed, Apply, Running
  <2>4. DataOK'
    BY <1>3, OrderFacts DEF DataOK, Apply, Running
  <2>5. TruthOK' /\ SettledOK'
    BY <1>3, EntriesKept DEF Catch, data, bounds
  <2> QED BY <2>1, <2>2, <2>3, <2>4, <2>5 DEF IInv
<1>4. CASE Record(Last, "failed") /\ Finish /\ UNCHANGED job
  <2>1. /\ history' \in Seq(Restores) /\ Len(history') = Len(history)
        /\ \A j \in 1..Last : /\ history'[j].sel = history[j].sel
                              /\ history'[j].content = history[j].content
        /\ history'[Last].status = "failed"
    BY <1>1, <1>4, RecordFacts DEF IInv, Statuses
  <2>2. TypeOK'
    BY <1>4, <2>1 DEF IInv, TypeOK, Catch, Finish, data, job, bounds
  <2>3. FlowOK' /\ BackupOK' /\ DataOK'
    BY <1>4 DEF FlowOK, BackupOK, DataOK, Needed, Running, Finish
  <2>4. TruthOK'
    BY <2>1 DEF TruthOK, Last
  <2>5. SettledOK'
    BY <2>1, SettledKept DEF Catch, data, bounds
  <2> QED BY <2>2, <2>3, <2>4, <2>5 DEF IInv
<1> QED BY <1>3, <1>4 DEF Catch

(* A recovery at startup is from the backup the journal names.             *)
LEMMA StartOK == IInv /\ Start => IInv'
<1> SUFFICES ASSUME IInv, Start PROVE IInv'
  OBVIOUS
<1>1. handle' \in {"own", "live", "stale"}
  BY DEF Start
<1>2. CASE journal = 0 /\ pc' = "idle" /\ UNCHANGED <<job, maintenance>>
  <2>1. TypeOK'
    BY <1>1, <1>2 DEF IInv, TypeOK, Start, data, job, bounds
  <2>2. FlowOK' /\ BackupOK' /\ DataOK'
    BY <1>2 DEF FlowOK, BackupOK, DataOK, Needed, Running
  <2>3. TruthOK' /\ SettledOK'
    BY <1>2, EntriesKept DEF Start, data, bounds
  <2> QED BY <2>1, <2>2, <2>3 DEF IInv
<1>3. CASE journal # 0 /\ maintenance' = TRUE /\ Apply("recovery", journal)
  <2>0. journal \in 1..Last
    BY <1>3 DEF IInv, TypeOK, Last
  <2>1. TypeOK'
    <3>1. next' \in 1..(Len(Order) + 1)
      BY <1>3, OrderFacts DEF Apply
    <3> QED BY <1>1, <1>3, <3>1 DEF IInv, TypeOK, Start, Apply, data, bounds
  <2>2. FlowOK'
    BY <1>3, <2>0 DEF IInv, FlowOK, Start, Apply, Running, Last, bounds
  <2>3. BackupOK'
    BY <1>3 DEF BackupOK, Needed, Apply, Running
  <2>4. DataOK'
    BY <1>3, OrderFacts DEF DataOK, Apply, Running
  <2>5. TruthOK' /\ SettledOK'
    BY <1>3 DEF IInv, TruthOK, SettledOK, Start, Last
  <2> QED BY <2>1, <2>2, <2>3, <2>4, <2>5 DEF IInv
<1> QED BY <1>2, <1>3 DEF Start

(* A backup is deleted only when no restore is under way.                  *)
LEMMA DeleteBackupOK == IInv /\ DeleteBackup => IInv'
<1> SUFFICES ASSUME IInv, DeleteBackup PROVE IInv'
  OBVIOUS
<1>1. PICK k \in 1..Last : Delete(k)
  BY DEF DeleteBackup
<1>2. /\ history' \in Seq(Restores) /\ Len(history') = Len(history)
      /\ \A j \in 1..Last : /\ history'[j].sel = history[j].sel
                            /\ history'[j].content = history[j].content
                            /\ history'[j].status = history[j].status
  BY <1>1, DeleteFacts DEF IInv, Delete
<1>3. TypeOK'
  BY <1>1, <1>2 DEF IInv, TypeOK, Delete, data, job, locks
<1>4. pc = "idle" /\ pc' = "idle" /\ content' = content /\ journal' = journal
  BY <1>1 DEF IInv, FlowOK, DeleteBackup, Delete, data, Running
<1>5. FlowOK' /\ BackupOK' /\ DataOK'
  BY <1>4 DEF FlowOK, BackupOK, DataOK, Needed, Running
<1>6. SettledOK'
  BY <1>1, <1>2, SettledKept DEF Delete, data
<1>7. TruthOK'
  <2>1. Last \in 1..Last /\ Last' = Last /\ history # <<>>
    BY <1>1, <1>2 DEF IInv, TypeOK, Last
  <2>2. (RolledBack(Last)' <=> RolledBack(Last)) /\ (Restored(Last)' <=> Restored(Last))
    BY <1>2, <1>4, <2>1 DEF RolledBack, Restored
  <2> QED BY <1>2, <1>4, <2>1, <2>2 DEF IInv, TruthOK
<1> QED BY <1>3, <1>5, <1>6, <1>7 DEF IInv

(* A replacement that throws, whether or not the core stores had been      *)
(* replaced, leaves the journal and goes the way of every error.           *)
LEMMA FaultOK == IInv /\ Fault => IInv'
<1> SUFFICES ASSUME IInv, Fault PROVE IInv'
  OBVIOUS
<1>1. handle' \in {"own", "live", "stale"}
  BY DEF IInv, TypeOK, Fault, Detached
<1>2. content' \in Contents
  <2>1. content \in Contents /\ source \in 1..Last
    BY DEF IInv, TypeOK, FlowOK, Running, Fault
  <2>2. CASE UNCHANGED content
    BY <2>1, <2>2
  <2>3. CASE /\ "core" \in Sections /\ pc = "applying"
             /\ content' = [content EXCEPT !["core"] = IF phase = "restore" THEN source
                                                       ELSE history[source].content["core"]]
    <3>1. "core" \in Parts
      BY <2>3, SectionsAreParts
    <3>2. (IF phase = "restore" THEN source ELSE history[source].content["core"])
             \in Nat \cup {Torn}
      BY <2>1, <3>1, WrittenIsContent DEF IInv
    <3> QED BY <2>1, <2>3, <3>1, <3>2 DEF Contents
  <2> QED BY <2>2, <2>3 DEF Fault
<1>3. requests' \in Nat /\ faults' \in Nat /\ crashes' \in Nat /\ deletes' \in Nat
  BY DEF IInv, TypeOK, Fault
<1> QED BY <1>1, <1>2, <1>3, ThrowOK DEF Fault, job

(* After a failed write of the journal or of the history nothing is        *)
(* claimed of the data but what the entries say.                           *)
LEMMA JournalFaultOK == IInv /\ JournalFault => IInv'
<1> SUFFICES ASSUME IInv, JournalFault PROVE IInv'
  OBVIOUS
<1>1. journalFaults' \in Nat /\ journalFaults' # 0
  BY DEF IInv, TypeOK, JournalFault
<1>2. /\ pc \in {"journalling", "recording"} /\ UNCHANGED <<history, content, journal, job>>
      /\ pc' \in {"catching", "idle", "down"} /\ operation' \in {operation, "none"}
  BY DEF JournalFault, Finish, locks, data
<1>3. Last \in 1..Last /\ history # <<>>
  BY <1>2 DEF IInv, TypeOK, FlowOK, Running, Last
<1>4. TypeOK'
  BY <1>1 DEF IInv, TypeOK, JournalFault, Finish, data, job, locks
<1>5. FlowOK'
  BY <1>1, <1>2, <1>3 DEF IInv, FlowOK, JournalFault, Finish, Running, Last, locks, job
<1>6. BackupOK'
  BY DEF IInv, BackupOK, JournalFault, Finish, Needed, Running, Last
<1>7. DataOK'
  BY <1>2 DEF DataOK, Running
<1>8. TruthOK'
  BY <1>2, <1>3, NotCalledDone DEF TruthOK, Last
<1>9. SettledOK'
  BY <1>1 DEF SettledOK
<1> QED BY <1>4, <1>5, <1>6, <1>7, <1>8, <1>9 DEF IInv

(* The end of the process leaves the data, the journal and the history.    *)
LEMMA CrashOK == IInv /\ Crash => IInv'
<1> SUFFICES ASSUME IInv, Crash PROVE IInv'
  OBVIOUS
<1>1. TypeOK'
  <2>1. /\ requests' \in Nat /\ faults' \in Nat /\ journalFaults' \in Nat
        /\ crashes' \in Nat /\ deletes' \in Nat
    BY DEF IInv, TypeOK, Crash
  <2>2. /\ maintenance' \in BOOLEAN /\ operation' \in {"none", "restore"}
        /\ pc' \in {"idle", "preflight", "journalling", "applying", "clearing", "recording",
                    "catching", "down"}
    BY DEF Crash
  <2> QED BY <2>1, <2>2 DEF IInv, TypeOK, Crash, data, job
<1>2. FlowOK' /\ BackupOK' /\ DataOK'
  BY DEF FlowOK, BackupOK, DataOK, Needed, Running, Crash
<1>3. TruthOK' /\ SettledOK'
  BY EntriesKept DEF Crash, data
<1> QED BY <1>1, <1>2, <1>3 DEF IInv

-----------------------------------------------------------------------------
(* The theorems *)

(* The invariant holds when the service is started for the first time.     *)
LEMMA InitOK == Init => IInv
<1> SUFFICES ASSUME Init PROVE IInv
  OBVIOUS
<1>1. content \in Contents
  BY DEF Init, Contents
<1>2. TypeOK
  <2>1. /\ history \in Seq(Restores) /\ journal \in 0..Len(history) /\ source \in 0..Len(history)
        /\ next \in 1..(Len(Order) + 1)
        /\ requests \in Nat /\ faults \in Nat /\ journalFaults \in Nat
        /\ crashes \in Nat /\ deletes \in Nat
    BY OrderFacts DEF Init
  <2>2. notifying \in BOOLEAN /\ maintenance \in BOOLEAN /\ handle \in {"own", "live", "stale"}
    BY WiringAssumption DEF Init
  <2> QED BY <1>1, <2>1, <2>2 DEF Init, TypeOK
<1> QED BY <1>2 DEF Init, IInv, FlowOK, BackupOK, DataOK, TruthOK, SettledOK, Needed, Running

(* Every step of the service, and every fault, preserves the invariant.    *)
LEMMA StepOK == IInv /\ [Next]_vars => IInv'
<1> SUFFICES ASSUME IInv, [Next]_vars PROVE IInv'
  OBVIOUS
<1>1. CASE UNCHANGED vars
  BY <1>1 DEF IInv, TypeOK, FlowOK, BackupOK, DataOK, TruthOK, SettledOK, Needed, Restored,
              RolledBack, Last, vars
<1>2. CASE BeginRestore
  BY <1>2, BeginRestoreOK
<1>3. CASE Prepare
  BY <1>3, RefuseOK, CreatePreRestoreOK, WriteJournalOK DEF Prepare
<1>4. CASE Replace
  BY <1>4, SkipPartOK, ReplaceCoreOK, ReplaceSomeFilesOK, ReplacePartOK, ReplaceNotificationsOK,
     NotificationsThrowOK, OnRestoreAppliedOK, ClearJournalOK, ConcludeOK DEF Replace
<1>5. CASE Catch
  BY <1>5, CatchOK
<1>6. CASE Start
  BY <1>6, StartOK
<1>7. CASE DeleteBackup
  BY <1>7, DeleteBackupOK
<1>8. CASE Fault
  BY <1>8, FaultOK
<1>9. CASE JournalFault
  BY <1>9, JournalFaultOK
<1>10. CASE Crash
  BY <1>10, CrashOK
<1> QED BY <1>1, <1>2, <1>3, <1>4, <1>5, <1>6, <1>7, <1>8, <1>9, <1>10 DEF Next

(* The invariant holds in every state of every run of the service.         *)
LEMMA Inductive == Spec => []IInv
  BY InitOK, StepOK, PTL DEF Spec

(* Parts, wiring, journal and history keep their types whatever is         *)
(* restored, deleted, interrupted or fails.                                *)
THEOREM TypeCorrect == Spec => []TypeOK
<1>1. IInv => TypeOK
  BY DEF IInv
<1> QED BY <1>1, Inductive, PTL

(* When no restore runs or is journalled, and every write of the journal   *)
(* and of the history worked, the data is that before or that after one of *)
(* the restores: applyParsed and its rollback leave nothing half done.     *)
THEOREM WholeOrNothing == Spec => []AllOrNothing
<1>1. IInv => AllOrNothing
  BY DEF IInv, SettledOK, AllOrNothing
<1> QED BY <1>1, Inductive, PTL

(* What updateHistory last wrote of the last restore, success or           *)
(* rolled-back, is true of the data, even when writes of the journal or of *)
(* the history failed before.                                              *)
THEOREM HistoryTellsTheTruth == Spec => []HistoryIsTrue
<1>1. IInv => HistoryIsTrue
  BY DEF IInv, TruthOK, HistoryIsTrue
<1> QED BY <1>1, Inductive, PTL

(* The operation lock keeps deleteBackup from the backup that a restore    *)
(* under way would be rolled back from.                                    *)
THEOREM RecoverySourceIsKept == Spec => []RecoverySourceKept
<1>1. IInv => RecoverySourceKept
  BY DEF IInv, BackupOK, Needed, Running, RecoverySourceKept
<1> QED BY <1>1, Inductive, PTL
=============================================================================
