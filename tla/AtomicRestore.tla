--------------------------- MODULE AtomicRestore ---------------------------
(***************************************************************************)
(* What replaceStoresAtomically promises to everyone who reads or writes   *)
(* the core database: its content changes by whole commits and whole       *)
(* replacements only, also across restarts.  A replacement is computed     *)
(* from a snapshot taken earlier and becomes visible when the database is  *)
(* opened again; until it is reported, it may be undone as a whole.        *)
(***************************************************************************)
EXTENDS Integers

CONSTANT NoFile

VARIABLES content,    \* what readers see, or will see again
          snapshot,   \* content a replacement is computed from, NoFile if none
          undo,       \* content a visible replacement replaced, NoFile if none
          available   \* the database handle is open

avars == <<content, snapshot, undo, available>>

Contents == [gen : Nat, writes : Nat]

(* The selected sections replaced in a copy of c. *)
Replacement(c) == [gen |-> c.gen + 1, writes |-> c.writes]

AtomicInit ==
  /\ content = [gen |-> 0, writes |-> 0]
  /\ snapshot = NoFile
  /\ undo = NoFile
  /\ available = TRUE

Commit ==
  /\ available
  /\ content' = [content EXCEPT !.writes = @ + 1]
  /\ UNCHANGED <<snapshot, undo, available>>

Begin ==
  /\ available
  /\ snapshot' = content
  /\ UNCHANGED <<content, undo, available>>

(* The replacement is given up, or reported as done. *)
End ==
  /\ available
  /\ snapshot' = NoFile
  /\ undo' = NoFile
  /\ UNCHANGED <<content, available>>

Close ==
  /\ available
  /\ available' = FALSE
  /\ undo' = NoFile
  /\ UNCHANGED <<content, snapshot>>

Undo ==
  /\ available
  /\ undo # NoFile
  /\ content' = undo
  /\ undo' = NoFile
  /\ available' = FALSE
  /\ UNCHANGED snapshot

OpenUnchanged ==
  /\ ~available
  /\ available' = TRUE
  /\ snapshot' = NoFile
  /\ UNCHANGED <<content, undo>>

OpenReplaced ==
  /\ ~available
  /\ snapshot # NoFile
  /\ available' = TRUE
  /\ content' = Replacement(snapshot)
  /\ undo' \in {NoFile, content}
  /\ snapshot' = NoFile

AtomicNext == Commit \/ Begin \/ End \/ Close \/ Undo \/ OpenUnchanged \/ OpenReplaced

AtomicSpec == AtomicInit /\ [][AtomicNext]_avars
=============================================================================
