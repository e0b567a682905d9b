-------------------------- MODULE EngineSyncProofs --------------------------
(***************************************************************************)
(* The project commands, the kept engine handle and the browsers' workers, *)
(* for any number of browsers, changes, lost requests, lost workers and    *)
(* broken event streams.                                                   *)
(***************************************************************************)
EXTENDS EngineSync, FiniteSetTheorems, TLAPS

-----------------------------------------------------------------------------
(* The inductive invariant *)

(* The content s is one the project t has had. *)
Had(s, t) == Len(s) <= Len(t) /\ \A i \in 1..Len(s) : s[i] = t[i]

Committed(op) == \E i \in 1..Len(store) : store[i] = op

Items == [kind : {"mutation", "event"}, op : Changes, base : Nat, rev : Nat]
Events == [kind : {"patch", "invalidated"}, op : Changes, base : Nat, rev : Nat]
Mutations == [stage : {"none", "worker", "posted", "recovery"}, op : Nat, base : Nat]
Recoveries ==
  [stage : {"none", "fetch", "snapshot", "worker"}, snap : Contents, tries : Nat]
Runtimes ==
  [phase : Phases, rev : Nat, wrev : Nat, worker : Contents \cup {None},
   inbox : Seq(Items), active : Nat, mut : Mutations, rec : Recoveries,
   shown : BOOLEAN, dirty : BOOLEAN]
Posts ==
  [stage : {"none", "request", "reply"}, op : Nat, base : Nat,
   result : {"none", "conflict", "committed", "failed"}]

StateOK ==
  /\ store \in Contents
  /\ handle \in Contents \cup {None}
  /\ client \in [Clients -> Runtimes]
  /\ post \in [Clients -> Posts]
  /\ late \subseteq [op : Changes, base : Nat]
  /\ stream \in [Clients -> Seq(Events)]
  /\ conn \in [Clients -> {"none", "connecting", "open"}]
  /\ saw \in [Changes -> Contents]
  /\ issued \in 0..MaxChanges

(* A kept handle has a content the project has had. *)
HandleOK == handle # None => Had(handle, store)

(* A committed patch on its way is the change of its revision. *)
StreamOK ==
  \A c \in Clients :
    /\ \A i \in 1..Len(stream[c]) :
         LET e == stream[c][i] IN
         e.kind = "patch" =>
           e.rev = e.base + 1 /\ e.base \in 1..Len(store) /\ e.op = store[e.base]
    /\ \A i, j \in 1..Len(stream[c]) :
         i < j /\ stream[c][i].kind = "patch" /\ stream[c][j].kind = "patch" =>
           stream[c][i].base < stream[c][j].base

(* A command that is not committed yet was made on a content the project   *)
(* has had, at the revision its base names.                                *)
RequestOK(op, base) ==
  /\ op \in 1..issued
  /\ ~Committed(op)
  /\ Had(saw[op], store)
  /\ base = Rev(saw[op])

(* The mutation of a browser owns the number of its change. *)
Owns(cl) == cl.mut.stage \in {"worker", "posted"}

PostOK(c, cl) ==
  /\ cl.mut.stage = "posted" <=> post[c].stage # "none"
  /\ cl.mut.stage = "posted" =>
       /\ post[c].op = cl.mut.op
       /\ post[c].base = cl.mut.base
  /\ post[c].stage = "request" => RequestOK(post[c].op, post[c].base)
  /\ post[c].stage = "reply" /\ post[c].result = "committed" =>
       /\ post[c].base \in 1..Len(store)
       /\ store[post[c].base] = post[c].op

MutationOK(cl) ==
  /\ Owns(cl) => cl.mut.op \in 1..issued
  /\ cl.mut.stage = "worker" =>
       /\ ~Committed(cl.mut.op)
       /\ cl.rev = cl.mut.base \/ cl.rev = Rev(cl.worker)
  /\ cl.mut.stage \in {"none", "worker"} => cl.active = 0
  /\ cl.mut.stage = "posted" => cl.active \in {0, cl.mut.op}
  /\ cl.mut.stage = "recovery" => cl.rec.stage # "none"

RecoveryOK(cl) ==
  /\ cl.rec.stage \in {"snapshot", "worker"} => Had(cl.rec.snap, store)
  /\ cl.rec.stage = "worker" => cl.worker = None
  /\ cl.worker = None =>
       cl.inbox = <<>> /\ cl.active = 0 /\ cl.mut.stage # "worker"

InboxOK(cl) ==
  /\ \A i \in 1..Len(cl.inbox) :
       LET r == cl.inbox[i] IN
       /\ r.kind = "mutation" =>
            /\ cl.mut.stage = "worker"
            /\ r.op = cl.mut.op /\ r.base = cl.mut.base /\ r.rev = r.base + 1
       /\ r.kind = "event" =>
            r.rev - 1 \in 1..Len(store) /\ r.op = store[r.rev - 1]
  /\ \A i, j \in 1..Len(cl.inbox) :
       cl.inbox[i].kind = "mutation" /\ cl.inbox[j].kind = "mutation" => i = j

(* The command of a browser can still be committed. *)
Open(c) == post[c].stage = "request" /\ post[c].base = Rev(store)

(* No refused, lost or failed command of the browser is left. *)
Clean(c, cl) ==
  \/ cl.mut.stage \in {"none", "worker"}
  \/ cl.mut.stage = "posted" /\ Open(c)
  \/ cl.mut.stage = "posted" /\ post[c].stage = "reply" /\ post[c].result = "committed"

WorkerOK(c, cl) ==
  Clean(c, cl) /\ cl.worker # None =>
    /\ \/ Had(cl.worker, store)
       \/ Open(c) /\ cl.mut.stage = "posted" /\ cl.worker = Append(store, cl.mut.op)
    /\ \/ cl.wrev = cl.rev
       \/ /\ cl.mut.stage = "posted" /\ cl.active = cl.mut.op
          /\ cl.rev = cl.mut.base /\ cl.wrev = cl.mut.base + 1
    /\ \A i \in 1..Len(cl.inbox) :
         cl.inbox[i].kind = "event" => cl.inbox[i].base + 1 = cl.inbox[i].rev

(* The patches on their way to a browser are for revisions from r on. *)
StreamFrom(c, r) ==
  \A i \in 1..Len(stream[c]) : stream[c][i].kind = "patch" => stream[c][i].base >= r

(* A browser is ahead of the project by one optimistic change at most: a   *)
(* patch that was given to its worker is followed by later ones only.      *)
BoundOK(c, cl) ==
  /\ cl.rev <= Rev(store)
  /\ cl.wrev <= Rev(store) + 1
  /\ cl.wrev > cl.rev + 1 /\ cl.worker # None =>
       cl.rev <= Len(store) /\ StreamFrom(c, cl.rev + 1)
  /\ \A i \in 1..Len(cl.inbox) :
       LET r == cl.inbox[i] IN
       r.kind = "event" => r.base <= r.rev /\ StreamFrom(c, r.rev)
  /\ cl.active <= issued
  /\ cl.rec.tries < MaxStartupAttempts

ClientOK(c, cl) ==
  /\ PostOK(c, cl) /\ MutationOK(cl) /\ RecoveryOK(cl)
  /\ InboxOK(cl) /\ WorkerOK(c, cl) /\ BoundOK(c, cl)

LateOK == \A r \in late : RequestOK(r.op, r.base)

(* Every change has one owner. *)
OwnersOK ==
  /\ \A c, d \in Clients :
       Owns(client[c]) /\ Owns(client[d]) /\ client[c].mut.op = client[d].mut.op
         => c = d
  /\ \A c \in Clients, r \in late : Owns(client[c]) => r.op # client[c].mut.op
  /\ \A r, s \in late : r.op = s.op => r = s

(* The changes of the project are different ones, and were issued. *)
StoreOK ==
  /\ \A i \in 1..Len(store) : store[i] \in 1..issued
  /\ \A i, j \in 1..Len(store) : store[i] = store[j] => i = j

IInv ==
  /\ StateOK
  /\ StoreOK
  /\ HandleOK
  /\ StreamOK
  /\ \A c \in Clients : ClientOK(c, client[c])
  /\ LateOK
  /\ OwnersOK
  /\ AsSeen

-----------------------------------------------------------------------------
(* Contents *)

(* No handle and no worker is not a content: 0 is not a change. *)
LEMMA NoneIsNoContent == None \notin Contents
<1> SUFFICES ASSUME None \in Contents PROVE FALSE
  OBVIOUS
<1>1. None[1] \in Changes
  BY DEF None, Contents
<1> QED
  BY <1>1, BoundAssumption DEF None, Changes

(* A content is one the project has had when it has it now. *)
LEMMA HadNow == \A t \in Contents : Had(t, t)
BY DEF Had, Contents

(* What the project has had, it has had after another change as well. *)
LEMMA HadAppend ==
  ASSUME NEW s \in Contents, NEW t \in Contents, NEW op, Had(s, t)
  PROVE  Had(s, Append(t, op))
BY DEF Had, Contents

(* A content of the same revision as the project is the project. *)
LEMMA HadSame ==
  ASSUME NEW s \in Contents, NEW t \in Contents, Had(s, t), Rev(s) = Rev(t)
  PROVE  s = t
BY DEF Had, Contents, Rev

(* The next change leads to a content the project has had. *)
LEMMA HadNext ==
  ASSUME NEW s \in Contents, NEW t \in Contents, Had(s, t), Rev(s) \in 1..Len(t)
  PROVE  Had(Append(s, t[Rev(s)]), t)
BY DEF Had, Contents, Rev

(* Appending a change. *)
LEMMA Appended ==
  ASSUME NEW s \in Contents, NEW op \in Changes
  PROVE  /\ Append(s, op) \in Contents
         /\ Len(Append(s, op)) = Len(s) + 1
         /\ Append(s, op)[Len(s) + 1] = op
         /\ \A i \in 1..Len(s) : Append(s, op)[i] = s[i]
         /\ Rev(s) \in Nat \ {0}
BY DEF Contents, Rev

(* Had is IsPrefix. *)
LEMMA HadIsPrefix ==
  ASSUME NEW s \in Contents, NEW t \in Contents, Had(s, t)
  PROVE  IsPrefix(s, t)
BY DEF Had, Contents, IsPrefix

-----------------------------------------------------------------------------
(* The operators of the client *)

(* A recovery may have been asked for; nothing else is different. *)
Quiet(cl, d) ==
  /\ d \in Runtimes
  /\ d.rev = cl.rev /\ d.wrev = cl.wrev /\ d.worker = cl.worker
  /\ d.inbox = cl.inbox /\ d.active = cl.active /\ d.mut = cl.mut
  /\ \/ d.rec = cl.rec
     \/ cl.rec.stage = "none" /\ d.rec.stage = "fetch" /\ d.rec.tries = 0

(* The worker is gone, and with it what it has not answered. *)
Dead(cl, d) ==
  /\ d \in Runtimes
  /\ d.rev = cl.rev /\ d.wrev = 0 /\ d.worker = None
  /\ d.inbox = <<>> /\ d.active = 0
  /\ d.mut = IF cl.mut.stage = "worker" THEN NoMutation ELSE cl.mut
  /\ \/ d.rec = cl.rec
     \/ cl.rec.stage = "none" /\ d.rec.stage = "fetch" /\ d.rec.tries = 0

(* A client is what its fields say. *)
LEMMA RuntimeFields ==
  ASSUME NEW cl \in Runtimes
  PROVE  /\ cl.rev \in Nat /\ cl.wrev \in Nat /\ cl.active \in Nat
         /\ cl.worker \in Contents \cup {None}
         /\ cl.inbox \in Seq(Items)
         /\ cl.mut \in Mutations
         /\ cl.rec \in Recoveries
BY DEF Runtimes

(* The requests to a worker have revisions. *)
LEMMA ItemFields ==
  ASSUME NEW s \in Seq(Items), NEW i \in 1..Len(s)
  PROVE  /\ s[i].kind \in {"mutation", "event"}
         /\ s[i].op \in Nat /\ s[i].base \in Nat /\ s[i].rev \in Nat
<1>1. s[i] \in Items
  OBVIOUS
<1> QED
  BY <1>1, BoundAssumption DEF Items, Changes

(* So have the events of a stream. *)
LEMMA EventFields ==
  ASSUME NEW s \in Seq(Events), NEW i \in 1..Len(s)
  PROVE  /\ s[i].kind \in {"patch", "invalidated"}
         /\ s[i].op \in Nat /\ s[i].base \in Nat /\ s[i].rev \in Nat
<1>1. s[i] \in Events
  OBVIOUS
<1> QED
  BY <1>1, BoundAssumption DEF Events, Changes

(* recover changes nothing but the phase and the recovery. *)
LEMMA RecoverQuiet ==
  ASSUME NEW cl \in Runtimes, NEW phase \in Phases
  PROVE  Quiet(cl, Recover(cl, phase)) /\ Recover(cl, phase).rec.stage # "none"
<1> DEFINE new == [stage |-> "fetch", snap |-> <<>>, tries |-> 0]
<1>1. new \in Recoveries
  BY DEF Recoveries, Contents
<1>2. CASE cl.rec.stage # "none"
  BY <1>2 DEF Recover, Quiet
<1>3. CASE cl.rec.stage = "none"
  <2>1. Recover(cl, phase) = [cl EXCEPT !.phase = phase, !.rec = new]
    BY <1>3 DEF Recover
  <2>2. new.stage = "fetch" /\ new.tries = 0
    OBVIOUS
  <2> HIDE DEF new
  <2>3. Recover(cl, phase) \in Runtimes
    BY <1>1, <2>1 DEF Runtimes
  <2>4. Recover(cl, phase).rec = new
    BY <2>1 DEF Runtimes
  <2>5. \A d : d = Recover(cl, phase) =>
          /\ d.rev = cl.rev /\ d.wrev = cl.wrev /\ d.worker = cl.worker
          /\ d.inbox = cl.inbox /\ d.active = cl.active /\ d.mut = cl.mut
    BY <2>1 DEF Runtimes
  <2> QED
    BY <1>3, <2>2, <2>3, <2>4, <2>5 DEF Quiet
<1> QED
  BY <1>2, <1>3

(* A rejected event, too. *)
LEMMA EventFailedQuiet ==
  ASSUME NEW cl \in Runtimes
  PROVE  Quiet(cl, EventFailed(cl))
<1>1. CASE cl.shown
  BY <1>1, RecoverQuiet DEF EventFailed, Phases
<1>2. CASE ~cl.shown
  BY <1>2 DEF EventFailed, Quiet, Runtimes
<1> QED
  BY <1>1, <1>2

(* terminateWorker. *)
LEMMA TerminateDead ==
  ASSUME NEW cl \in Runtimes
  PROVE  Dead(cl, Terminate(cl))
<1> DEFINE mut == IF cl.mut.stage = "worker" THEN NoMutation ELSE cl.mut
           dead == [cl EXCEPT !.worker = None, !.wrev = 0, !.active = 0,
                              !.inbox = <<>>,
                              !.mut = IF @.stage = "worker" THEN NoMutation ELSE @]
<1>1. mut \in Mutations
  BY DEF Runtimes, Mutations, NoMutation
<1>2. dead \in Runtimes /\ Dead(cl, dead) /\ dead.rec = cl.rec
  <2>1. dead = [cl EXCEPT !.worker = None, !.wrev = 0, !.active = 0,
                          !.inbox = <<>>, !.mut = mut]
    BY DEF Runtimes
  <2> HIDE DEF dead, mut
  <2>2. dead \in Runtimes
    <3>1. <<>> \in Seq(Items) /\ None \in Contents \cup {None}
      OBVIOUS
    <3> QED
      BY <1>1, <2>1, <3>1, Zenon DEF Runtimes
  <2>3. /\ dead.rev = cl.rev /\ dead.wrev = 0 /\ dead.worker = None
        /\ dead.inbox = <<>> /\ dead.active = 0 /\ dead.mut = mut
        /\ dead.rec = cl.rec
    BY <2>1 DEF Runtimes
  <2> QED
    BY <2>2, <2>3 DEF Dead, mut
<1>3. Terminate(cl) \in {dead, EventFailed(dead)}
  BY DEF Terminate
<1> HIDE DEF dead
<1>4. Quiet(dead, EventFailed(dead))
  BY <1>2, EventFailedQuiet
<1> QED
  BY <1>2, <1>3, <1>4 DEF Dead, Quiet

-----------------------------------------------------------------------------
(* What the operators keep *)

(* A step that only asks for a recovery keeps a client sound. *)
LEMMA QuietOK ==
  ASSUME NEW c \in Clients, NEW cl \in Runtimes, NEW d, ClientOK(c, cl), Quiet(cl, d)
  PROVE  ClientOK(c, d)
<1>1. PostOK(c, d) /\ MutationOK(d)
  BY DEF ClientOK, Quiet, PostOK, MutationOK, Owns
<1>2. RecoveryOK(d)
  BY DEF ClientOK, Quiet, RecoveryOK
<1>3. InboxOK(d)
  BY DEF ClientOK, Quiet, InboxOK
<1>4. WorkerOK(c, d)
  BY DEF ClientOK, Quiet, WorkerOK, Clean
<1>5. BoundOK(c, d)
  BY BoundAssumption DEF ClientOK, Quiet, BoundOK
<1> QED
  BY <1>1, <1>2, <1>3, <1>4, <1>5 DEF ClientOK

(* The end of the worker keeps a client sound. *)
LEMMA DeadOK ==
  ASSUME StateOK, NEW c \in Clients, NEW cl \in Runtimes, NEW d, ClientOK(c, cl),
         Dead(cl, d)
  PROVE  ClientOK(c, d) /\ d.mut.stage # "worker"
<1>1. /\ d.mut.stage = IF cl.mut.stage = "worker" THEN "none" ELSE cl.mut.stage
      /\ cl.mut.stage # "worker" => d.mut = cl.mut
  BY DEF Dead, NoMutation
<1>2. PostOK(c, d)
  BY <1>1 DEF ClientOK, PostOK
<1>3. MutationOK(d) /\ RecoveryOK(d)
  BY <1>1 DEF ClientOK, Dead, MutationOK, RecoveryOK, Owns
<1>4. InboxOK(d) /\ WorkerOK(c, d)
  BY DEF Dead, InboxOK, WorkerOK
<1>5. BoundOK(c, d)
  BY BoundAssumption DEF StateOK, Contents, Rev, ClientOK, Dead, BoundOK
<1> QED
  BY <1>1, <1>2, <1>3, <1>4, <1>5 DEF ClientOK

(* The end of a recovery, which a failed mutation may be waiting for. *)
LEMMA RecoveredFields ==
  ASSUME NEW cl \in Runtimes
  PROVE  LET d == Recovered(cl) IN
         /\ d \in Runtimes
         /\ d.rec = NoRecovery
         /\ d.mut = IF cl.mut.stage = "recovery" THEN NoMutation ELSE cl.mut
         /\ d.rev = cl.rev /\ d.wrev = cl.wrev /\ d.worker = cl.worker
         /\ d.inbox = cl.inbox /\ d.active = cl.active
<1> DEFINE mut == IF cl.mut.stage = "recovery" THEN NoMutation ELSE cl.mut
<1>1. mut \in Mutations
  BY DEF Runtimes, Mutations, NoMutation
<1>2. NoRecovery \in Recoveries
  BY DEF NoRecovery, Recoveries, Contents
<1>3. Recovered(cl) = [cl EXCEPT !.rec = NoRecovery, !.mut = mut]
  BY DEF Recovered, Runtimes
<1> HIDE DEF mut
<1>4. Recovered(cl) \in Runtimes
  BY <1>1, <1>2, <1>3 DEF Runtimes
<1> QED
  BY <1>3, <1>4 DEF Runtimes, mut

(* A failed attempt of a recovery keeps a client sound. *)
LEMMA AttemptFailedOK ==
  ASSUME StateOK, NEW c \in Clients, NEW cl \in Runtimes, ClientOK(c, cl),
         cl.rec.stage # "none"
  PROVE  LET d == AttemptFailed(cl) IN
         /\ d \in Runtimes
         /\ ClientOK(c, d)
         /\ Owns(d) => Owns(cl) /\ d.mut.op = cl.mut.op
<1> DEFINE dead == Terminate(cl)
           again == [stage |-> "fetch", snap |-> <<>>, tries |-> cl.rec.tries + 1]
           d == AttemptFailed(cl)
<1>1. Dead(cl, dead) /\ dead \in Runtimes
  BY TerminateDead DEF Dead
<1>2. ClientOK(c, dead) /\ dead.mut.stage # "worker"
  BY <1>1, DeadOK
<1>3. dead.mut = cl.mut \/ dead.mut = NoMutation
  BY <1>1 DEF Dead
<1> HIDE DEF dead
<1>4. CASE cl.rec.tries + 1 < MaxStartupAttempts
  <2>1. d = [dead EXCEPT !.rec = again]
    BY <1>4 DEF AttemptFailed, dead
  <2>2. again \in Recoveries /\ again.stage = "fetch" /\ again.tries = cl.rec.tries + 1
    BY RuntimeFields DEF Recoveries, Contents
  <2> HIDE DEF again, d
  <2>3. /\ d \in Runtimes
        /\ d.rev = dead.rev /\ d.wrev = dead.wrev /\ d.worker = dead.worker
        /\ d.inbox = dead.inbox /\ d.active = dead.active /\ d.mut = dead.mut
        /\ d.rec = again
    BY <1>1, <2>1, <2>2 DEF Runtimes
  <2>4. PostOK(c, d) /\ MutationOK(d) /\ RecoveryOK(d)
    BY <1>2, <2>2, <2>3 DEF ClientOK, PostOK, MutationOK, RecoveryOK, Owns
  <2>5. InboxOK(d) /\ WorkerOK(c, d)
    BY <1>1, <2>3 DEF Dead, InboxOK, WorkerOK
  <2>6. BoundOK(c, d)
    BY <1>2, <1>4, <2>2, <2>3 DEF ClientOK, BoundOK
  <2>7. ClientOK(c, d)
    BY <2>4, <2>5, <2>6 DEF ClientOK
  <2> QED
    BY <1>3, <2>3, <2>7 DEF Owns, NoMutation, d
<1>5. CASE ~(cl.rec.tries + 1 < MaxStartupAttempts)
  <2>1. d = [Recovered(dead) EXCEPT !.phase = "failed"]
    BY <1>5 DEF AttemptFailed, dead
  <2> HIDE DEF d
  <2>2. /\ d \in Runtimes
        /\ d.rev = dead.rev /\ d.wrev = dead.wrev /\ d.worker = dead.worker
        /\ d.inbox = dead.inbox /\ d.active = dead.active
        /\ d.mut = IF dead.mut.stage = "recovery" THEN NoMutation ELSE dead.mut
        /\ d.rec = NoRecovery
    BY <1>1, <2>1, RecoveredFields DEF Runtimes, Phases
  <2>3. PostOK(c, d) /\ MutationOK(d) /\ RecoveryOK(d)
    BY <1>1, <1>2, <2>2 DEF ClientOK, PostOK, MutationOK, RecoveryOK, Owns,
       NoMutation, NoRecovery, Dead
  <2>4. InboxOK(d) /\ WorkerOK(c, d)
    BY <1>1, <2>2 DEF Dead, InboxOK, WorkerOK
  <2>5. BoundOK(c, d)
    BY <1>2, <2>2, BoundAssumption DEF ClientOK, BoundOK, NoRecovery
  <2>6. ClientOK(c, d)
    BY <2>3, <2>4, <2>5 DEF ClientOK
  <2> QED
    BY <1>3, <2>2, <2>6 DEF Owns, NoMutation, d
<1> QED
  BY <1>4, <1>5

(* A new client is a client. *)
LEMMA NewClientIsRuntime == NewClient \in Runtimes
<1>1. NoMutation \in Mutations /\ NoRecovery \in Recoveries /\ <<>> \in Seq(Items)
  BY DEF NoMutation, Mutations, NoRecovery, Recoveries, Contents
<1> QED
  BY <1>1 DEF NewClient, Runtimes, Phases

(* It is sound when its browser awaits nothing. *)
LEMMA NewClientOK ==
  ASSUME StateOK, NEW c \in Clients, post[c].stage = "none"
  PROVE  ClientOK(c, NewClient)
<1> DEFINE cl == NewClient
<1>1. /\ cl.rev = 0 /\ cl.wrev = 0 /\ cl.worker = None /\ cl.inbox = <<>>
      /\ cl.active = 0 /\ cl.mut.stage = "none" /\ cl.rec.stage = "none"
      /\ cl.rec.tries = 0
  BY DEF NewClient, NoMutation, NoRecovery
<1> HIDE DEF cl
<1>2. Rev(store) \in Nat /\ issued \in Nat
  BY DEF StateOK, Rev, Contents
<1>3. PostOK(c, cl) /\ MutationOK(cl) /\ RecoveryOK(cl)
  BY <1>1 DEF PostOK, MutationOK, RecoveryOK, Owns
<1>4. InboxOK(cl) /\ WorkerOK(c, cl)
  BY <1>1 DEF InboxOK, WorkerOK
<1>5. BoundOK(c, cl)
  BY <1>1, <1>2, BoundAssumption DEF BoundOK
<1> QED
  BY <1>3, <1>4, <1>5 DEF ClientOK, cl

-----------------------------------------------------------------------------
(* Steps of one client *)

(* Events are taken from the front of a stream. *)
Later(s, t) ==
  \E k \in 0..Len(t) :
    Len(s) = Len(t) - k /\ \A i \in 1..Len(s) : s[i] = t[i + k]

(* An event of the later stream is one of the earlier stream. *)
LEMMA LaterEvent ==
  ASSUME NEW s \in Seq(Events), NEW t \in Seq(Events), Later(s, t)
  PROVE  \E k \in 0..Len(t) : /\ \A i \in 1..Len(s) : i + k \in 1..Len(t)
                             /\ \A i \in 1..Len(s) : s[i] = t[i + k]
<1>1. PICK k \in 0..Len(t) : Len(s) = Len(t) - k /\ \A i \in 1..Len(s) : s[i] = t[i + k]
  BY DEF Later
<1>2. \A i \in 1..Len(s) : i + k \in 1..Len(t)
  BY <1>1
<1> QED
  BY <1>1, <1>2

(* An unchanged stream and an emptied one are later ones. *)
LEMMA LaterSame ==
  ASSUME NEW t \in Seq(Events)
  PROVE  Later(t, t) /\ Later(<<>>, t)
<1>1. Later(t, t)
  <2>1. 0 \in 0..Len(t) /\ Len(t) = Len(t) - 0 /\ \A i \in 1..Len(t) : t[i] = t[i + 0]
    OBVIOUS
  <2> QED
    BY <2>1 DEF Later
<1>2. Later(<<>>, t)
  <2>1. Len(t) \in 0..Len(t) /\ Len(<<>>) = Len(t) - Len(t) /\ 1..Len(<<>>) = {}
    OBVIOUS
  <2> QED
    BY <2>1 DEF Later
<1> QED
  BY <1>1, <1>2

(* Nothing the soundness of a client refers to is different. *)
Still == UNCHANGED <<store, post, saw, issued>>

(* Then a client stays sound. *)
LEMMA StillOK ==
  ASSUME Still, UNCHANGED stream, NEW c \in Clients, NEW d, ClientOK(c, d)
  PROVE  ClientOK(c, d)'
BY DEF Still, ClientOK, PostOK, MutationOK, RecoveryOK, InboxOK, WorkerOK,
   BoundOK, RequestOK, Committed, Clean, Open, Owns, Had, Rev, StreamFrom

(* A stream that has advanced does not go back. *)
LEMMA StreamFromLater ==
  ASSUME NEW c, stream[c] \in Seq(Events), stream'[c] \in Seq(Events),
         Later(stream'[c], stream[c]), NEW r, StreamFrom(c, r)
  PROVE  StreamFrom(c, r)'
<1>1. PICK k \in 0..Len(stream[c]) :
        /\ \A i \in 1..Len(stream'[c]) : i + k \in 1..Len(stream[c])
        /\ \A i \in 1..Len(stream'[c]) : stream'[c][i] = stream[c][i + k]
  BY LaterEvent
<1> QED
  BY <1>1 DEF StreamFrom

(* What a step without effect on the server keeps of a client. *)
LEMMA StillParts ==
  ASSUME Still, NEW c \in Clients, NEW d, PostOK(c, d), MutationOK(d),
         RecoveryOK(d), InboxOK(d), WorkerOK(c, d)
  PROVE  /\ PostOK(c, d)' /\ MutationOK(d)' /\ RecoveryOK(d)'
         /\ InboxOK(d)' /\ WorkerOK(c, d)'
BY DEF Still, PostOK, MutationOK, RecoveryOK, InboxOK, WorkerOK, RequestOK,
   Committed, Clean, Open, Owns, Had, Rev

(* A client whose stream has advanced stays sound. *)
LEMMA LaterOK ==
  ASSUME StateOK, Still, NEW c \in Clients, NEW d \in Runtimes, ClientOK(c, d),
         stream'[c] \in Seq(Events), Later(stream'[c], stream[c])
  PROVE  ClientOK(c, d)'
<1>1. ASSUME NEW r, StreamFrom(c, r) PROVE StreamFrom(c, r)'
  BY <1>1, StreamFromLater DEF StateOK
<1>2. /\ PostOK(c, d)' /\ MutationOK(d)' /\ RecoveryOK(d)'
      /\ InboxOK(d)' /\ WorkerOK(c, d)'
  BY StillParts DEF ClientOK
<1>3. BoundOK(c, d)'
  BY <1>1 DEF Still, ClientOK, BoundOK, Rev
<1> QED
  BY <1>2, <1>3 DEF ClientOK

(* A step of one client that leaves the server alone keeps the invariant   *)
(* when it keeps that client sound.                                        *)
LEMMA OneClient ==
  ASSUME IInv, NEW c \in Clients, NEW d \in Runtimes,
         client' = [client EXCEPT ![c] = d],
         ClientOK(c, d)',
         Owns(d) => Owns(client[c]) /\ d.mut.op = client[c].mut.op,
         Still, UNCHANGED <<handle, late>>,
         stream' \in [Clients -> Seq(Events)],
         \A x \in Clients : Later(stream'[x], stream[x]),
         conn' \in [Clients -> {"none", "connecting", "open"}]
  PROVE  IInv'
<1>1. StateOK'
  BY DEF IInv, StateOK, Still
<1>2. StoreOK' /\ HandleOK' /\ AsSeen' /\ LateOK'
  BY DEF IInv, Still, StoreOK, HandleOK, AsSeen, LateOK, RequestOK,
     Committed, Had, Rev
<1>3. StreamOK'
  <2> SUFFICES ASSUME NEW x \in Clients
               PROVE  /\ \A i \in 1..Len(stream'[x]) :
                           LET e == stream'[x][i] IN
                           e.kind = "patch" =>
                             /\ e.rev = e.base + 1
                             /\ e.base \in 1..Len(store') /\ e.op = store'[e.base]
                      /\ \A i, j \in 1..Len(stream'[x]) :
                           /\ i < j
                           /\ stream'[x][i].kind = "patch"
                           /\ stream'[x][j].kind = "patch"
                           => stream'[x][i].base < stream'[x][j].base
    BY DEF StreamOK
  <2>1. PICK k \in 0..Len(stream[x]) :
          /\ \A i \in 1..Len(stream'[x]) : i + k \in 1..Len(stream[x])
          /\ \A i \in 1..Len(stream'[x]) : stream'[x][i] = stream[x][i + k]
    <3>1. stream[x] \in Seq(Events) /\ stream'[x] \in Seq(Events)
      BY DEF IInv, StateOK
    <3> QED
      BY <3>1, LaterEvent
  <2>2. ASSUME NEW i \in 1..Len(stream'[x]), stream'[x][i].kind = "patch"
        PROVE  /\ stream'[x][i].rev = stream'[x][i].base + 1
               /\ stream'[x][i].base \in 1..Len(store')
               /\ stream'[x][i].op = store'[stream'[x][i].base]
    BY <2>1, <2>2 DEF IInv, Still, StreamOK
  <2>3. ASSUME NEW i \in 1..Len(stream'[x]), NEW j \in 1..Len(stream'[x]), i < j,
               stream'[x][i].kind = "patch", stream'[x][j].kind = "patch"
        PROVE  stream'[x][i].base < stream'[x][j].base
    <3>1. i + k < j + k
      BY <2>3
    <3>2. /\ i + k \in 1..Len(stream[x]) /\ stream'[x][i] = stream[x][i + k]
          /\ j + k \in 1..Len(stream[x]) /\ stream'[x][j] = stream[x][j + k]
      BY <2>1
    <3>3. \A a, b \in 1..Len(stream[x]) :
            a < b /\ stream[x][a].kind = "patch" /\ stream[x][b].kind = "patch" =>
              stream[x][a].base < stream[x][b].base
      BY DEF IInv, StreamOK
    <3> QED
      BY <2>3, <3>1, <3>2, <3>3, Zenon
  <2> QED
    BY <2>2, <2>3
<1>4. ASSUME NEW x \in Clients PROVE ClientOK(x, client[x])'
  <2>1. CASE x = c
    BY <2>1 DEF IInv, StateOK
  <2>2. CASE x # c
    <3>1. client'[x] = client[x] /\ client[x] \in Runtimes /\ ClientOK(x, client[x])
      BY <2>2 DEF IInv, StateOK
    <3> QED
      BY <3>1, LaterOK DEF IInv
  <2> QED
    BY <2>1, <2>2
<1>5. OwnersOK'
  BY DEF IInv, StateOK, OwnersOK, Owns
<1> QED
  BY <1>1, <1>2, <1>3, <1>4, <1>5 DEF IInv

(* A step that takes no event. *)
LEMMA SoundStep ==
  ASSUME IInv, NEW c \in Clients, NEW d \in Runtimes,
         client' = [client EXCEPT ![c] = d],
         ClientOK(c, d),
         Owns(d) => Owns(client[c]) /\ d.mut.op = client[c].mut.op,
         UNCHANGED <<store, handle, post, late, stream, saw, issued>>,
         conn' \in [Clients -> {"none", "connecting", "open"}]
  PROVE  IInv'
<1>1. Still /\ UNCHANGED stream /\ UNCHANGED <<handle, late>>
  BY DEF Still
<1>2. ClientOK(c, d)'
  BY <1>1, StillOK
<1>3. stream' \in [Clients -> Seq(Events)]
  BY DEF IInv, StateOK
<1>4. ASSUME NEW x \in Clients PROVE Later(stream'[x], stream[x])
  <2>1. stream'[x] = stream[x] /\ stream[x] \in Seq(Events)
    BY DEF IInv, StateOK
  <2> QED
    BY <2>1, LaterSame
<1> QED
  BY <1>1, <1>2, <1>3, <1>4, OneClient

(* A step that at most asks for a recovery. *)
LEMMA QuietStep ==
  ASSUME IInv, NEW c \in Clients, NEW d, Quiet(client[c], d),
         client' = [client EXCEPT ![c] = d],
         UNCHANGED <<store, handle, post, late, stream, conn, saw, issued>>
  PROVE  IInv'
<1>1. client[c] \in Runtimes /\ ClientOK(c, client[c])
  BY DEF IInv, StateOK
<1>2. d \in Runtimes /\ ClientOK(c, d)
  BY <1>1, QuietOK DEF Quiet
<1>3. Owns(d) => Owns(client[c]) /\ d.mut.op = client[c].mut.op
  BY DEF Quiet, Owns
<1>4. conn' \in [Clients -> {"none", "connecting", "open"}]
  BY DEF IInv, StateOK
<1> QED
  BY <1>2, <1>3, <1>4, SoundStep

(* Quiet steps follow one another. *)
LEMMA QuietTwice ==
  ASSUME NEW cl, NEW d, NEW e, Quiet(cl, d), Quiet(d, e)
  PROVE  Quiet(cl, e)
BY DEF Quiet

(* The flags of a client are of no consequence to its worker. *)
LEMMA FlagsQuiet ==
  ASSUME NEW cl \in Runtimes, NEW f \in BOOLEAN, NEW g \in BOOLEAN
  PROVE  /\ Quiet(cl, [cl EXCEPT !.dirty = f])
         /\ Quiet(cl, [cl EXCEPT !.shown = f])
         /\ Quiet(cl, [cl EXCEPT !.shown = f, !.dirty = g])
<1>1. /\ [cl EXCEPT !.dirty = f] \in Runtimes
      /\ [cl EXCEPT !.shown = f] \in Runtimes
      /\ [cl EXCEPT !.shown = f, !.dirty = g] \in Runtimes
  BY DEF Runtimes
<1> QED
  BY <1>1 DEF Quiet, Runtimes

(* activate keeps the invariant. *)
LEMMA StartKeeps ==
  ASSUME IInv, NEW c \in Clients, Start(c)
  PROVE  IInv'
<1> DEFINE cl == [client[c] EXCEPT !.dirty = FALSE]
<1>1. client[c] \in Runtimes
  BY DEF IInv, StateOK
<1>2. Quiet(client[c], cl) /\ cl \in Runtimes
  BY <1>1, FlagsQuiet DEF Quiet
<1>3. Quiet(cl, Recover(cl, "loading"))
  BY <1>2, RecoverQuiet DEF Phases
<1>4. Quiet(client[c], Recover(cl, "loading"))
  BY <1>2, <1>3, QuietTwice
<1>5. /\ client' = [client EXCEPT ![c] = Recover(cl, "loading")]
      /\ UNCHANGED <<store, handle, post, late, stream, conn, saw, issued>>
  BY DEF Start, Update
<1> QED
  BY <1>4, <1>5, QuietStep

(* synchronizeCanonicalRevision keeps the invariant. *)
LEMMA SynchronizeKeeps ==
  ASSUME IInv, NEW c \in Clients, NEW r, Synchronize(c, r)
  PROVE  IInv'
<1>1. client[c] \in Runtimes
  BY DEF IInv, StateOK
<1>2. Quiet(client[c], Recover(client[c], "rebuilding"))
  BY <1>1, RecoverQuiet DEF Phases
<1>3. /\ client' = [client EXCEPT ![c] = Recover(client[c], "rebuilding")]
      /\ UNCHANGED <<store, handle, post, late, stream, conn, saw, issued>>
  BY DEF Synchronize, Update
<1> QED
  BY <1>2, <1>3, QuietStep

(* A canvas that is left or shown again keeps the invariant. *)
LEMMA CanvasKeeps ==
  ASSUME IInv, NEW c \in Clients, Hide(c) \/ Show(c)
  PROVE  IInv'
<1>1. client[c] \in Runtimes
  BY DEF IInv, StateOK
<1>2. CASE Hide(c)
  <2>1. Quiet(client[c], [client[c] EXCEPT !.shown = FALSE])
    BY <1>1, FlagsQuiet
  <2>2. /\ client' = [client EXCEPT ![c] = [client[c] EXCEPT !.shown = FALSE]]
        /\ UNCHANGED <<store, handle, post, late, stream, conn, saw, issued>>
    BY <1>2 DEF Hide, Update
  <2> QED
    BY <2>1, <2>2, QuietStep
<1>3. CASE Show(c)
  <2> DEFINE cl == [client[c] EXCEPT !.shown = TRUE, !.dirty = FALSE]
             d == IF client[c].dirty THEN Recover(cl, "rebuilding") ELSE cl
  <2>1. Quiet(client[c], cl) /\ cl \in Runtimes
    BY <1>1, FlagsQuiet DEF Quiet
  <2>2. Quiet(cl, Recover(cl, "rebuilding"))
    BY <2>1, RecoverQuiet DEF Phases
  <2>3. Quiet(client[c], Recover(cl, "rebuilding"))
    BY <2>1, <2>2, QuietTwice
  <2>4. /\ client' = [client EXCEPT ![c] = d]
        /\ UNCHANGED <<store, handle, post, late, stream, conn, saw, issued>>
    BY <1>3 DEF Show, Update
  <2>5. d = cl \/ d = Recover(cl, "rebuilding")
    OBVIOUS
  <2>6. Quiet(client[c], d)
    BY <2>1, <2>3, <2>5
  <2> HIDE DEF d
  <2> QED
    BY <2>4, <2>6, QuietStep
<1> QED
  BY <1>2, <1>3

(* fetchSnapshot at the server, and a failed attempt, keep the invariant. *)
LEMMA FetchKeeps ==
  ASSUME IInv, NEW c \in Clients, ServeSnapshot(c) \/ FetchFails(c)
  PROVE  IInv'
<1>1. client[c] \in Runtimes /\ ClientOK(c, client[c]) /\ StateOK
  BY DEF IInv, StateOK
<1>2. CASE ServeSnapshot(c)
  <2> DEFINE d == [client[c] EXCEPT !.rec.stage = "snapshot", !.rec.snap = store]
  <2>1. /\ d \in Runtimes
        /\ d.rev = client[c].rev /\ d.wrev = client[c].wrev
        /\ d.worker = client[c].worker /\ d.inbox = client[c].inbox
        /\ d.active = client[c].active /\ d.mut = client[c].mut
        /\ d.rec.stage = "snapshot" /\ d.rec.snap = store
        /\ d.rec.tries = client[c].rec.tries
    <3>1. [client[c].rec EXCEPT !.stage = "snapshot", !.snap = store] \in Recoveries
      BY <1>1 DEF Runtimes, Recoveries, StateOK
    <3>2. d = [client[c] EXCEPT
                 !.rec = [client[c].rec EXCEPT !.stage = "snapshot", !.snap = store]]
      BY <1>1 DEF Runtimes
    <3>3. d \in Runtimes
      BY <1>1, <3>1, <3>2 DEF Runtimes
    <3> QED
      BY <1>1, <3>3 DEF Runtimes, Recoveries
  <2>2. /\ client' = [client EXCEPT ![c] = d]
        /\ UNCHANGED <<store, handle, post, late, stream, conn, saw, issued>>
    BY <1>2 DEF ServeSnapshot, Update
  <2>3. client[c].rec.stage = "fetch"
    BY <1>2 DEF ServeSnapshot
  <2> HIDE DEF d
  <2>4. Had(store, store)
    BY <1>1, HadNow DEF StateOK
  <2>5. PostOK(c, d) /\ MutationOK(d) /\ RecoveryOK(d)
    BY <1>1, <2>1, <2>3, <2>4 DEF ClientOK, PostOK, MutationOK, RecoveryOK, Owns
  <2>6. InboxOK(d) /\ WorkerOK(c, d) /\ BoundOK(c, d)
    BY <1>1, <2>1 DEF ClientOK, InboxOK, WorkerOK, BoundOK, Clean
  <2>7. Owns(d) => Owns(client[c]) /\ d.mut.op = client[c].mut.op
    BY <2>1 DEF Owns
  <2>8. ClientOK(c, d) /\ conn' \in [Clients -> {"none", "connecting", "open"}]
    BY <1>1, <2>2, <2>5, <2>6 DEF ClientOK, StateOK
  <2> QED
    BY <2>1, <2>2, <2>7, <2>8, SoundStep
<1>3. CASE FetchFails(c)
  <2> DEFINE d == AttemptFailed(client[c])
  <2>1. client[c].rec.stage # "none"
    BY <1>3 DEF FetchFails
  <2>2. /\ client' = [client EXCEPT ![c] = d]
        /\ UNCHANGED <<store, handle, post, late, stream, conn, saw, issued>>
    BY <1>3 DEF FetchFails, Update
  <2>3. /\ d \in Runtimes /\ ClientOK(c, d)
        /\ Owns(d) => Owns(client[c]) /\ d.mut.op = client[c].mut.op
    BY <1>1, <2>1, AttemptFailedOK
  <2>4. conn' \in [Clients -> {"none", "connecting", "open"}]
    BY <1>1, <2>2 DEF StateOK
  <2> HIDE DEF d
  <2> QED
    BY <2>2, <2>3, <2>4, SoundStep
<1> QED
  BY <1>2, <1>3

(* initializeWorker keeps the invariant. *)
LEMMA InitializeKeeps ==
  ASSUME IInv, NEW c \in Clients, InitializeWorker(c)
  PROVE  IInv'
<1> DEFINE cl == client[c]
           dead == Terminate(cl)
           d == [dead EXCEPT !.rec.stage = "worker"]
<1>1. cl \in Runtimes /\ ClientOK(c, cl) /\ StateOK
  BY DEF IInv, StateOK
<1>2. /\ cl.rec.stage = "snapshot"
      /\ client' = [client EXCEPT ![c] = d]
      /\ UNCHANGED <<store, handle, post, late, stream, conn, saw, issued>>
  BY DEF InitializeWorker, Update
<1>3. Dead(cl, dead) /\ dead \in Runtimes
  BY <1>1, TerminateDead DEF Dead
<1>4. ClientOK(c, dead) /\ dead.mut.stage # "worker"
  BY <1>1, <1>3, DeadOK
<1>5. dead.rec = cl.rec /\ (dead.mut = cl.mut \/ dead.mut = NoMutation)
  BY <1>2, <1>3 DEF Dead
<1> HIDE DEF dead, cl
<1>6. /\ d \in Runtimes
      /\ d.rev = dead.rev /\ d.wrev = dead.wrev /\ d.worker = dead.worker
      /\ d.inbox = dead.inbox /\ d.active = dead.active /\ d.mut = dead.mut
      /\ d.rec.stage = "worker" /\ d.rec.snap = dead.rec.snap
      /\ d.rec.tries = dead.rec.tries
  <2>1. [dead.rec EXCEPT !.stage = "worker"] \in Recoveries
    BY <1>3 DEF Runtimes, Recoveries
  <2>2. d = [dead EXCEPT !.rec = [dead.rec EXCEPT !.stage = "worker"]]
    BY <1>3 DEF Runtimes
  <2>3. d \in Runtimes
    BY <1>3, <2>1, <2>2 DEF Runtimes
  <2> QED
    BY <1>3, <2>3 DEF Runtimes, Recoveries
<1> HIDE DEF d
<1>7. PostOK(c, d) /\ MutationOK(d)
  BY <1>4, <1>6 DEF ClientOK, PostOK, MutationOK, Owns
<1>8. RecoveryOK(d)
  BY <1>1, <1>2, <1>3, <1>4, <1>5, <1>6 DEF ClientOK, RecoveryOK, Dead, cl
<1>9. InboxOK(d) /\ WorkerOK(c, d) /\ BoundOK(c, d)
  BY <1>4, <1>6 DEF ClientOK, InboxOK, WorkerOK, BoundOK, Clean
<1>10. ClientOK(c, d) /\ conn' \in [Clients -> {"none", "connecting", "open"}]
  BY <1>1, <1>2, <1>7, <1>8, <1>9 DEF ClientOK, StateOK
<1>11. Owns(d) => Owns(client[c]) /\ d.mut.op = client[c].mut.op
  BY <1>5, <1>6 DEF Owns, NoMutation, cl
<1> QED
  BY <1>2, <1>6, <1>10, <1>11, SoundStep

(* The worker's ready message keeps the invariant. *)
LEMMA ReadyKeeps ==
  ASSUME IInv, NEW c \in Clients, WorkerReady(c)
  PROVE  IInv'
<1> DEFINE cl == client[c]
           snap == cl.rec.snap
           done == Recovered(cl)
           d == [done EXCEPT !.worker = snap, !.wrev = Rev(snap), !.rev = Rev(snap),
                             !.phase = "ready"]
<1>1. cl \in Runtimes /\ ClientOK(c, cl) /\ StateOK
  BY DEF IInv, StateOK
<1>2. /\ cl.rec.stage = "worker"
      /\ client' = [client EXCEPT ![c] = d]
      /\ conn' = [conn EXCEPT ![c] = IF @ = "none" THEN "connecting" ELSE @]
      /\ UNCHANGED <<store, handle, post, late, stream, saw, issued>>
  BY DEF WorkerReady, Update
<1>3. /\ done \in Runtimes
      /\ done.rec = NoRecovery
      /\ done.mut = IF cl.mut.stage = "recovery" THEN NoMutation ELSE cl.mut
      /\ done.inbox = cl.inbox /\ done.active = cl.active
  BY <1>1, RecoveredFields
<1>4. snap \in Contents /\ Rev(snap) \in Nat /\ Had(snap, store) /\ snap # None
  BY <1>1, <1>2, NoneIsNoContent
  DEF Runtimes, Recoveries, ClientOK, RecoveryOK, Rev, Contents
<1>5. cl.worker = None /\ cl.inbox = <<>> /\ cl.active = 0 /\ cl.mut.stage # "worker"
  BY <1>1, <1>2 DEF ClientOK, RecoveryOK
<1> HIDE DEF done, snap, cl
<1>6. /\ d \in Runtimes
      /\ d.rev = Rev(snap) /\ d.wrev = Rev(snap) /\ d.worker = snap
      /\ d.inbox = <<>> /\ d.active = 0 /\ d.mut = done.mut /\ d.rec = NoRecovery
  BY <1>3, <1>4, <1>5 DEF Runtimes, Phases
<1> HIDE DEF d
<1>7. Rev(snap) <= Rev(store)
  BY <1>1, <1>4 DEF Had, Rev, Contents, StateOK
<1>8. PostOK(c, d) /\ MutationOK(d)
  BY <1>1, <1>3, <1>5, <1>6
  DEF ClientOK, PostOK, MutationOK, Owns, NoMutation, NoRecovery
<1>9. RecoveryOK(d) /\ InboxOK(d)
  BY <1>4, <1>6 DEF RecoveryOK, InboxOK, NoRecovery
<1>10. WorkerOK(c, d)
  BY <1>4, <1>6 DEF WorkerOK
<1>11. BoundOK(c, d)
  <2>1. StateOK /\ Rev(store) \in Nat
    BY <1>1 DEF StateOK, Rev, Contents
  <2> QED
    BY <1>4, <1>6, <1>7, <2>1, BoundAssumption DEF BoundOK, NoRecovery, StateOK
<1>12. ClientOK(c, d) /\ conn' \in [Clients -> {"none", "connecting", "open"}]
  BY <1>1, <1>2, <1>8, <1>9, <1>10, <1>11 DEF ClientOK, StateOK
<1>13. Owns(d) => Owns(client[c]) /\ d.mut.op = client[c].mut.op
  BY <1>3, <1>6 DEF Owns, NoMutation, cl
<1> QED
  BY <1>2, <1>6, <1>12, <1>13, SoundStep

(* A lost worker keeps the invariant. *)
LEMMA LoseWorkerKeeps ==
  ASSUME IInv, NEW c \in Clients, LoseWorker(c)
  PROVE  IInv'
<1> DEFINE cl == client[c]
           dead == Terminate(cl)
           d == IF cl.rec.stage = "worker" THEN AttemptFailed(cl)
                ELSE IF cl.phase = "ready" THEN Recover(dead, "rebuilding")
                ELSE dead
<1>1. cl \in Runtimes /\ ClientOK(c, cl) /\ StateOK
  BY DEF IInv, StateOK
<1>2. /\ client' = [client EXCEPT ![c] = d]
      /\ UNCHANGED <<store, handle, post, late, stream, conn, saw, issued>>
  BY DEF LoseWorker, Update
<1>3. conn' \in [Clients -> {"none", "connecting", "open"}]
  BY <1>1, <1>2 DEF StateOK
<1>4. /\ d \in Runtimes /\ ClientOK(c, d)
      /\ Owns(d) => Owns(cl) /\ d.mut.op = cl.mut.op
  <2>1. CASE cl.rec.stage = "worker"
    BY <1>1, <2>1, AttemptFailedOK
  <2>2. CASE cl.rec.stage # "worker"
    <3>1. Dead(cl, dead) /\ dead \in Runtimes
      BY <1>1, TerminateDead DEF Dead
    <3>2. ClientOK(c, dead)
      BY <1>1, <3>1, DeadOK
    <3>3. Owns(dead) => Owns(cl) /\ dead.mut.op = cl.mut.op
      BY <3>1 DEF Dead, Owns, NoMutation
    <3>4. Quiet(dead, Recover(dead, "rebuilding"))
      BY <3>1, RecoverQuiet DEF Phases
    <3>5. d = dead \/ d = Recover(dead, "rebuilding")
      BY <2>2
    <3> HIDE DEF dead, d
    <3>6. CASE d = dead
      BY <3>1, <3>2, <3>3, <3>6
    <3>7. CASE d = Recover(dead, "rebuilding")
      <4>1. Quiet(dead, d) /\ d \in Runtimes
        BY <3>4, <3>7 DEF Quiet
      <4>2. ClientOK(c, d)
        BY <3>1, <3>2, <4>1, QuietOK
      <4> QED
        BY <3>3, <4>1, <4>2 DEF Quiet, Owns
    <3> QED
      BY <3>5, <3>6, <3>7
  <2> QED
    BY <2>1, <2>2
<1> HIDE DEF d
<1> QED
  BY <1>2, <1>3, <1>4, SoundStep

(* The event stream of a browser is opened or breaks. *)
LEMMA ConnectionKeeps ==
  ASSUME IInv, NEW c \in Clients, Connect(c) \/ Disconnect(c)
  PROVE  IInv'
<1>1. client[c] \in Runtimes /\ ClientOK(c, client[c]) /\ StateOK
  BY DEF IInv, StateOK
<1>2. /\ client' = [client EXCEPT ![c] = client[c]]
      /\ Still /\ UNCHANGED <<handle, late>>
      /\ stream' = stream \/ stream' = [stream EXCEPT ![c] = <<>>]
      /\ conn' = [conn EXCEPT ![c] = "open"] \/ conn' = [conn EXCEPT ![c] = "connecting"]
  BY <1>1 DEF Connect, Disconnect, Still, StateOK
<1>3. /\ conn' \in [Clients -> {"none", "connecting", "open"}]
      /\ stream' \in [Clients -> Seq(Events)]
  <2>1. conn' \in [Clients -> {"none", "connecting", "open"}]
    BY <1>1, <1>2 DEF StateOK
  <2>2. <<>> \in Seq(Events)
    OBVIOUS
  <2>3. stream' \in [Clients -> Seq(Events)]
    BY <1>1, <1>2, <2>2 DEF StateOK
  <2> QED
    BY <2>1, <2>3
<1>4. ASSUME NEW x \in Clients PROVE Later(stream'[x], stream[x])
  <2>1. stream[x] \in Seq(Events) /\ (stream'[x] = stream[x] \/ stream'[x] = <<>>)
    BY <1>1, <1>2 DEF StateOK
  <2> QED
    BY <2>1, LaterSame
<1>5. ASSUME NEW d, d = client[c] PROVE ClientOK(c, d)'
  BY <1>1, <1>2, <1>3, <1>4, <1>5, LaterOK
<1> QED
  BY <1>1, <1>2, <1>3, <1>4, <1>5, OneClient

(* The cache evicts a runtime. *)
LEMMA EvictKeeps ==
  ASSUME IInv, NEW c \in Clients, Evict(c)
  PROVE  IInv'
<1>1. client[c] \in Runtimes /\ ClientOK(c, client[c]) /\ StateOK
  BY DEF IInv, StateOK
<1>2. /\ client[c].mut.stage = "none"
      /\ client' = [client EXCEPT ![c] = NewClient]
      /\ Still /\ UNCHANGED <<handle, late>>
      /\ stream' = [stream EXCEPT ![c] = <<>>]
      /\ conn' = [conn EXCEPT ![c] = "none"]
  BY <1>1 DEF Evict, Still, Update
<1>3. /\ conn' \in [Clients -> {"none", "connecting", "open"}]
      /\ stream' \in [Clients -> Seq(Events)]
  BY <1>1, <1>2 DEF StateOK
<1>4. ASSUME NEW x \in Clients PROVE Later(stream'[x], stream[x])
  <2>1. stream[x] \in Seq(Events) /\ (stream'[x] = stream[x] \/ stream'[x] = <<>>)
    BY <1>1, <1>2 DEF StateOK
  <2> QED
    BY <2>1, LaterSame
<1>5. NewClient \in Runtimes /\ ~Owns(NewClient)
  BY NewClientIsRuntime DEF NewClient, NoMutation, Owns
<1>6. post[c].stage = "none"
  BY <1>1, <1>2 DEF ClientOK, PostOK, StateOK, Posts
<1>7. ClientOK(c, NewClient)
  BY <1>1, <1>6, NewClientOK
<1>8. ClientOK(c, NewClient)'
  BY <1>1, <1>2, <1>3, <1>4, <1>5, <1>7, LaterOK
<1> QED
  BY <1>2, <1>3, <1>4, <1>5, <1>8, OneClient

-----------------------------------------------------------------------------
(* Events *)

(* The first event is taken. *)
LEMMA TailLater ==
  ASSUME NEW t \in Seq(Events), t # <<>>
  PROVE  /\ Tail(t) \in Seq(Events)
         /\ Later(Tail(t), t)
         /\ Head(t) \in Events /\ Head(t) = t[1] /\ 1 \in 1..Len(t)
         /\ Len(Tail(t)) = Len(t) - 1
         /\ \A i \in 1..Len(Tail(t)) : i + 1 \in 1..Len(t) /\ Tail(t)[i] = t[i + 1]
<1>1. Len(t) \in Nat /\ Len(t) >= 1
  OBVIOUS
<1>2. /\ Tail(t) \in Seq(Events) /\ Len(Tail(t)) = Len(t) - 1
      /\ Head(t) \in Events /\ Head(t) = t[1]
  OBVIOUS
<1>3. \A i \in 1..Len(Tail(t)) : i + 1 \in 1..Len(t) /\ Tail(t)[i] = t[i + 1]
  BY <1>1
<1>4. Later(Tail(t), t)
  <2>1. 1 \in 0..Len(t)
    BY <1>1
  <2> QED
    BY <1>2, <1>3, <2>1 DEF Later
<1> QED
  BY <1>1, <1>2, <1>3, <1>4

(* An event that was taken, and the stream after it. *)
Taken(c, e) ==
  /\ stream[c] # <<>> /\ e = Head(stream[c])
  /\ stream' = [stream EXCEPT ![c] = Tail(@)]
  /\ Still /\ UNCHANGED <<handle, late, conn>>

(* A patch that was taken is the change of its revision, and the ones      *)
(* after it are for later revisions.                                       *)
LEMMA TakenFacts ==
  ASSUME IInv, NEW c \in Clients, NEW e, Taken(c, e)
  PROVE  /\ e \in Events
         /\ e.kind = "patch" =>
              /\ e.rev = e.base + 1 /\ e.base \in 1..Len(store) /\ e.op = store[e.base]
              /\ StreamFrom(c, e.rev)'
         /\ stream' \in [Clients -> Seq(Events)]
         /\ \A x \in Clients : Later(stream'[x], stream[x])
<1>1. stream[c] \in Seq(Events) /\ stream[c] # <<>> /\ e = Head(stream[c])
  BY DEF IInv, StateOK, Taken
<1>2. stream'[c] = Tail(stream[c]) /\ \A x \in Clients \ {c} : stream'[x] = stream[x]
  BY DEF IInv, StateOK, Taken
<1>3. e \in Events /\ e = stream[c][1] /\ 1 \in 1..Len(stream[c])
  BY <1>1, TailLater
<1>4. \A i \in 1..Len(stream'[c]) :
        i + 1 \in 1..Len(stream[c]) /\ stream'[c][i] = stream[c][i + 1]
  BY <1>1, <1>2, TailLater
<1>5. stream' \in [Clients -> Seq(Events)]
  <2>1. Tail(stream[c]) \in Seq(Events)
    BY <1>1, TailLater
  <2> QED
    BY <2>1 DEF IInv, StateOK, Taken
<1>6. ASSUME NEW x \in Clients PROVE Later(stream'[x], stream[x])
  <2>1. CASE x = c
    BY <1>1, <1>2, <2>1, TailLater
  <2>2. CASE x # c
    BY <1>2, <2>2, LaterSame DEF IInv, StateOK
  <2> QED
    BY <2>1, <2>2
<1>7. ASSUME e.kind = "patch"
      PROVE  /\ e.rev = e.base + 1 /\ e.base \in 1..Len(store) /\ e.op = store[e.base]
             /\ StreamFrom(c, e.rev)'
  <2>1. e.rev = e.base + 1 /\ e.base \in 1..Len(store) /\ e.op = store[e.base]
    BY <1>3, <1>7 DEF IInv, StreamOK
  <2>2. \A a, b \in 1..Len(stream[c]) :
          a < b /\ stream[c][a].kind = "patch" /\ stream[c][b].kind = "patch" =>
            stream[c][a].base < stream[c][b].base
    BY DEF IInv, StreamOK
  <2>3. ASSUME NEW i \in 1..Len(stream'[c]), stream'[c][i].kind = "patch"
        PROVE  stream'[c][i].base >= e.rev
    <3>1. /\ i + 1 \in 1..Len(stream[c]) /\ stream'[c][i] = stream[c][i + 1]
          /\ 1 < i + 1
      BY <1>4
    <3>2. e.base < stream[c][i + 1].base
      BY <1>3, <1>7, <2>2, <2>3, <3>1, Zenon
    <3>3. stream[c][i + 1].base \in Nat
      BY <1>1, <3>1, EventFields
    <3> QED
      BY <1>3, <2>1, <3>1, <3>2, <3>3 DEF Events
  <2> QED
    BY <2>1, <2>3 DEF StreamFrom
<1> QED
  BY <1>3, <1>5, <1>6, <1>7

(* A client that takes an event and at most asks for a recovery. *)
LEMMA TakenQuietly ==
  ASSUME IInv, NEW c \in Clients, NEW e, Taken(c, e),
         NEW d, Quiet(client[c], d), client' = [client EXCEPT ![c] = d]
  PROVE  IInv'
<1>1. client[c] \in Runtimes /\ ClientOK(c, client[c]) /\ StateOK /\ d \in Runtimes
  BY DEF IInv, StateOK, Quiet
<1>2. ClientOK(c, d)
  BY <1>1, QuietOK
<1>3. /\ stream' \in [Clients -> Seq(Events)]
      /\ \A x \in Clients : Later(stream'[x], stream[x])
      /\ Still /\ UNCHANGED <<handle, late>>
  BY TakenFacts DEF Taken
<1>4. stream'[c] \in Seq(Events)
  BY <1>3
<1>5. ClientOK(c, d)'
  BY <1>1, <1>2, <1>3, <1>4, LaterOK
<1>6. Owns(d) => Owns(client[c]) /\ d.mut.op = client[c].mut.op
  BY DEF Quiet, Owns
<1>7. conn' \in [Clients -> {"none", "connecting", "open"}]
  BY <1>1 DEF StateOK, Taken
<1> QED
  BY <1>1, <1>3, <1>5, <1>6, <1>7, OneClient

(* A patch that is taken for the answer to the client's own command moves  *)
(* its revision to the one the worker has.                                 *)
LEMMA OwnPatchOK ==
  ASSUME IInv, NEW c \in Clients, NEW e, Taken(c, e), e.kind = "patch",
         client[c].active # 0, client[c].rev = e.base, client[c].wrev = e.rev,
         NEW d, d = [client[c] EXCEPT !.rev = e.rev, !.phase = "ready"],
         client' = [client EXCEPT ![c] = d]
  PROVE  IInv'
<1> DEFINE cl == client[c]
<1>1. cl \in Runtimes /\ ClientOK(c, cl) /\ StateOK
  BY DEF IInv, StateOK
<1>2. /\ e \in Events /\ e.rev = e.base + 1 /\ e.base \in 1..Len(store)
      /\ stream' \in [Clients -> Seq(Events)]
      /\ \A x \in Clients : Later(stream'[x], stream[x])
      /\ Still /\ UNCHANGED <<handle, late>>
  BY TakenFacts DEF Taken
<1> HIDE DEF cl
<1>3. e.rev \in Nat /\ e.rev <= Rev(store) /\ Rev(store) \in Nat
  BY <1>1, <1>2 DEF Events, Rev, StateOK, Contents
<1>4. /\ d \in Runtimes
      /\ d.rev = e.rev /\ d.wrev = cl.wrev /\ d.worker = cl.worker
      /\ d.inbox = cl.inbox /\ d.active = cl.active /\ d.mut = cl.mut
      /\ d.rec = cl.rec
  BY <1>1, <1>3 DEF Runtimes, Phases, cl
<1>5. cl.mut.stage \notin {"none", "worker"}
  BY <1>1 DEF ClientOK, MutationOK, cl
<1>6. PostOK(c, d) /\ MutationOK(d) /\ RecoveryOK(d) /\ InboxOK(d)
  BY <1>1, <1>4, <1>5
  DEF ClientOK, PostOK, MutationOK, RecoveryOK, InboxOK, Owns
<1>7. WorkerOK(c, d)
  BY <1>1, <1>4 DEF ClientOK, WorkerOK, Clean, cl
<1>8. BoundOK(c, d)
  <2>1. /\ d.rev <= Rev(store) /\ d.wrev <= Rev(store) + 1 /\ ~(d.wrev > d.rev + 1)
        /\ d.active <= issued /\ d.rec.tries < MaxStartupAttempts
    BY <1>1, <1>3, <1>4 DEF ClientOK, BoundOK, cl
  <2>2. \A i \in 1..Len(d.inbox) :
          d.inbox[i].kind = "event" =>
            d.inbox[i].base <= d.inbox[i].rev /\ StreamFrom(c, d.inbox[i].rev)
    BY <1>1, <1>4 DEF ClientOK, BoundOK
  <2> QED
    BY <2>1, <2>2 DEF BoundOK
<1>9. ClientOK(c, d)
  BY <1>6, <1>7, <1>8 DEF ClientOK
<1>10. stream'[c] \in Seq(Events)
  BY <1>2
<1>11. ClientOK(c, d)'
  BY <1>1, <1>2, <1>4, <1>9, <1>10, LaterOK
<1>12. Owns(d) => Owns(client[c]) /\ d.mut.op = client[c].mut.op
  BY <1>4 DEF Owns, cl
<1>13. conn' \in [Clients -> {"none", "connecting", "open"}]
  BY <1>1 DEF StateOK, Taken
<1> QED
  BY <1>2, <1>4, <1>11, <1>12, <1>13, OneClient

(* Appending a request to the inbox of a worker. *)
LEMMA InboxAppended ==
  ASSUME NEW s \in Seq(Items), NEW r \in Items
  PROVE  /\ Append(s, r) \in Seq(Items)
         /\ Len(Append(s, r)) = Len(s) + 1
         /\ \A i \in 1..Len(Append(s, r)) :
              \/ i \in 1..Len(s) /\ Append(s, r)[i] = s[i]
              \/ i = Len(s) + 1 /\ Append(s, r)[i] = r
OBVIOUS

(* A patch for the revision of the client is given to its worker.  Unless  *)
(* a command of the client has been refused, the worker has that revision: *)
(* the patch of the client's own command has the client's request id.      *)
LEMMA QueuedPatchOK ==
  ASSUME IInv, NEW c \in Clients, NEW e, Taken(c, e), e.kind = "patch",
         NEW sameId \in SameId(client[c], e),
         ~(sameId /\ client[c].rev = e.base /\ client[c].wrev = e.rev),
         client[c].rev = e.base, client[c].worker # None,
         NEW d, d = [client[c] EXCEPT !.inbox =
                       Append(@, [kind |-> "event", op |-> e.op,
                                  base |-> client[c].wrev, rev |-> e.rev])],
         client' = [client EXCEPT ![c] = d]
  PROVE  IInv'
<1> DEFINE cl == client[c]
           r == [kind |-> "event", op |-> e.op, base |-> cl.wrev, rev |-> e.rev]
<1>1. cl \in Runtimes /\ ClientOK(c, cl) /\ StateOK
  BY DEF IInv, StateOK
<1>2. /\ e \in Events /\ e.rev = e.base + 1 /\ e.base \in 1..Len(store)
      /\ e.op = store[e.base] /\ StreamFrom(c, e.rev)'
      /\ stream' \in [Clients -> Seq(Events)]
      /\ \A x \in Clients : Later(stream'[x], stream[x])
      /\ Still /\ UNCHANGED <<handle, late>>
  BY TakenFacts DEF Taken
<1>3. r \in Items /\ r.kind = "event" /\ r.op = e.op /\ r.base = cl.wrev /\ r.rev = e.rev
  BY <1>1, <1>2, RuntimeFields DEF Items, Events
<1>4. cl.rev = e.base /\ cl.worker # None
  OBVIOUS
<1>5. cl.rev \in Nat /\ cl.wrev \in Nat /\ cl.inbox \in Seq(Items)
  BY <1>1, RuntimeFields
<1>6. d = [cl EXCEPT !.inbox = Append(cl.inbox, r)]
  BY <1>1 DEF Runtimes
<1>7. cl.mut.stage = "posted" /\ cl.active = cl.mut.op /\ cl.mut.op # 0
        /\ cl.wrev = e.rev => e.op # cl.mut.op
  BY DEF SameId
<1> HIDE DEF r, cl
<1>8. /\ d \in Runtimes
      /\ d.rev = cl.rev /\ d.wrev = cl.wrev /\ d.worker = cl.worker
      /\ d.inbox = Append(cl.inbox, r) /\ d.active = cl.active /\ d.mut = cl.mut
      /\ d.rec = cl.rec
  <2>1. Append(cl.inbox, r) \in Seq(Items)
    BY <1>3, <1>5, InboxAppended
  <2>2. d \in Runtimes
    BY <1>1, <1>6, <2>1, Zenon DEF Runtimes
  <2> QED
    BY <1>1, <1>6, <2>2 DEF Runtimes
<1>9. \A i \in 1..Len(d.inbox) :
        \/ i \in 1..Len(cl.inbox) /\ d.inbox[i] = cl.inbox[i]
        \/ i = Len(cl.inbox) + 1 /\ d.inbox[i] = r
  BY <1>3, <1>5, <1>8, InboxAppended
<1>10. PostOK(c, d) /\ MutationOK(d) /\ RecoveryOK(d)
  BY <1>1, <1>4, <1>8 DEF ClientOK, PostOK, MutationOK, RecoveryOK, Owns
<1>11. InboxOK(d)
  <2>1. e.rev - 1 \in 1..Len(store) /\ e.op = store[e.rev - 1]
    BY <1>2 DEF Events
  <2>2. ASSUME NEW i \in 1..Len(d.inbox)
        PROVE  /\ d.inbox[i].kind = "mutation" =>
                    /\ d.mut.stage = "worker"
                    /\ d.inbox[i].op = d.mut.op /\ d.inbox[i].base = d.mut.base
                    /\ d.inbox[i].rev = d.inbox[i].base + 1
               /\ d.inbox[i].kind = "event" =>
                    /\ d.inbox[i].rev - 1 \in 1..Len(store)
                    /\ d.inbox[i].op = store[d.inbox[i].rev - 1]
    <3>1. CASE i \in 1..Len(cl.inbox) /\ d.inbox[i] = cl.inbox[i]
      BY <1>1, <1>8, <3>1 DEF ClientOK, InboxOK
    <3>2. CASE d.inbox[i] = r
      BY <1>3, <2>1, <3>2
    <3> QED
      BY <1>9, <3>1, <3>2
  <2>3. ASSUME NEW i \in 1..Len(d.inbox), NEW j \in 1..Len(d.inbox),
               d.inbox[i].kind = "mutation", d.inbox[j].kind = "mutation"
        PROVE  i = j
    <3>1. /\ i \in 1..Len(cl.inbox) /\ d.inbox[i] = cl.inbox[i]
          /\ j \in 1..Len(cl.inbox) /\ d.inbox[j] = cl.inbox[j]
      BY <1>3, <1>9, <2>3
    <3> QED
      BY <1>1, <2>3, <3>1 DEF ClientOK, InboxOK
  <2> QED
    BY <2>2, <2>3 DEF InboxOK
<1>12. WorkerOK(c, d)
  <2> SUFFICES ASSUME Clean(c, d), d.worker # None
               PROVE  /\ \/ Had(d.worker, store)
                         \/ /\ Open(c) /\ d.mut.stage = "posted"
                            /\ d.worker = Append(store, d.mut.op)
                      /\ \/ d.wrev = d.rev
                         \/ /\ d.mut.stage = "posted" /\ d.active = d.mut.op
                            /\ d.rev = d.mut.base /\ d.wrev = d.mut.base + 1
                      /\ \A i \in 1..Len(d.inbox) : d.inbox[i].kind = "event" =>
                           d.inbox[i].base + 1 = d.inbox[i].rev
    BY DEF WorkerOK
  <2>1. Clean(c, cl) /\ cl.worker # None
    BY <1>8 DEF Clean
  <2>2. /\ \/ Had(cl.worker, store)
           \/ Open(c) /\ cl.mut.stage = "posted" /\ cl.worker = Append(store, cl.mut.op)
        /\ \/ cl.wrev = cl.rev
           \/ /\ cl.mut.stage = "posted" /\ cl.active = cl.mut.op
              /\ cl.rev = cl.mut.base /\ cl.wrev = cl.mut.base + 1
        /\ \A i \in 1..Len(cl.inbox) :
             cl.inbox[i].kind = "event" => cl.inbox[i].base + 1 = cl.inbox[i].rev
    BY <1>1, <2>1 DEF ClientOK, WorkerOK
  <2>3. cl.wrev = cl.rev
    <3> SUFFICES ASSUME cl.mut.stage = "posted", cl.active = cl.mut.op,
                        cl.rev = cl.mut.base, cl.wrev = cl.mut.base + 1
                 PROVE  FALSE
      BY <2>2
    <3>1. /\ post[c].op = cl.mut.op /\ post[c].base = cl.mut.base
          /\ cl.mut.op \in 1..issued
      BY <1>1 DEF ClientOK, PostOK, MutationOK, Owns
    <3>2. e.op # cl.mut.op
      <4>1. cl.mut.op # 0
        BY <1>1, <3>1 DEF StateOK
      <4>2. cl.wrev = e.rev
        BY <1>2, <1>4
      <4> QED
        BY <1>7, <4>1, <4>2
    <3>3. CASE Open(c)
      BY <1>1, <1>2, <1>4, <3>1, <3>3 DEF Open, Rev, StateOK, Contents
    <3>4. CASE post[c].stage = "reply" /\ post[c].result = "committed"
      <4>1. store[post[c].base] = post[c].op
        BY <1>1, <3>4 DEF ClientOK, PostOK
      <4> QED
        BY <1>2, <1>4, <3>1, <3>2, <4>1
    <3> QED
      BY <2>1, <3>3, <3>4 DEF Clean
  <2>4. r.base + 1 = r.rev
    BY <1>2, <1>3, <1>4, <2>3
  <2> QED
    BY <1>8, <1>9, <2>2, <2>3, <2>4
<1>13. \A n : StreamFrom(c, n) => StreamFrom(c, n)'
  <2>1. stream[c] \in Seq(Events) /\ stream'[c] \in Seq(Events)
    BY <1>1, <1>2 DEF StateOK
  <2>2. Later(stream'[c], stream[c])
    BY <1>2
  <2> QED
    BY <2>1, <2>2, StreamFromLater
<1>14. /\ PostOK(c, d)' /\ MutationOK(d)' /\ RecoveryOK(d)'
       /\ InboxOK(d)' /\ WorkerOK(c, d)'
  BY <1>2, <1>10, <1>11, <1>12, StillParts
<1>15. BoundOK(c, d)'
  <2>1. Rev(store) = Len(store) + 1 /\ Len(store) \in Nat /\ e.base \in Nat
    BY <1>1, <1>2 DEF Rev, StateOK, Contents, Events
  <2>2. cl.wrev <= cl.rev + 1
    <3> SUFFICES ASSUME cl.wrev > cl.rev + 1 PROVE FALSE
      BY <1>5
    <3>1. StreamFrom(c, cl.rev + 1)
      BY <1>1, <1>4 DEF ClientOK, BoundOK
    <3>2. stream[c] \in Seq(Events) /\ e = stream[c][1] /\ 1 \in 1..Len(stream[c])
      BY <1>1, TailLater DEF Taken, StateOK
    <3>3. e.base >= cl.rev + 1
      BY <3>1, <3>2 DEF StreamFrom
    <3> QED
      BY <1>4, <1>5, <3>3
  <2>3. /\ d.rev <= Rev(store') /\ d.wrev <= Rev(store') + 1 /\ ~(d.wrev > d.rev + 1)
        /\ d.active <= issued' /\ d.rec.tries < MaxStartupAttempts
    <3>1. /\ cl.rev <= Rev(store) /\ cl.wrev <= Rev(store) + 1
          /\ cl.active <= issued /\ cl.rec.tries < MaxStartupAttempts
      BY <1>1 DEF ClientOK, BoundOK
    <3>2. store' = store /\ issued' = issued
      BY <1>2 DEF Still
    <3> QED
      BY <1>5, <1>8, <2>1, <2>2, <3>1, <3>2
  <2>4. ASSUME NEW i \in 1..Len(d.inbox), d.inbox[i].kind = "event"
        PROVE  d.inbox[i].base <= d.inbox[i].rev /\ StreamFrom(c, d.inbox[i].rev)'
    <3>1. CASE i \in 1..Len(cl.inbox) /\ d.inbox[i] = cl.inbox[i]
      BY <1>1, <1>8, <1>13, <2>4, <3>1 DEF ClientOK, BoundOK
    <3>2. CASE d.inbox[i] = r
      <4>1. r.base <= r.rev
        BY <1>2, <1>3, <1>4, <1>5, <1>8, <2>1, <2>2
      <4>2. d.inbox[i].rev = e.rev
        BY <1>3, <3>2
      <4>3. StreamFrom(c, d.inbox[i].rev)'
        BY <1>2, <4>2
      <4> QED
        BY <3>2, <4>1, <4>3
    <3> QED
      BY <1>9, <3>1, <3>2
  <2> QED
    BY <2>3, <2>4 DEF BoundOK
<1>16. ClientOK(c, d)'
  BY <1>14, <1>15 DEF ClientOK
<1>17. Owns(d) => Owns(client[c]) /\ d.mut.op = client[c].mut.op
  BY <1>8 DEF Owns, cl
<1>18. conn' \in [Clients -> {"none", "connecting", "open"}]
  BY <1>1 DEF StateOK, Taken
<1> QED
  BY <1>2, <1>8, <1>16, <1>17, <1>18, OneClient

(* A committed event is handled, whatever it makes of the client. *)
LEMMA HandleEventKeeps ==
  ASSUME IInv, NEW c \in Clients, HandleEvent(c)
  PROVE  IInv'
<1> DEFINE cl == client[c]
           e == Head(stream[c])
<1>1. cl \in Runtimes
  BY DEF IInv, StateOK
<1>2. Taken(c, e)
  BY DEF HandleEvent, Taken, Still
<1>3. e \in Events
  BY <1>2, TakenFacts
<1>4. /\ Quiet(cl, cl)
      /\ Quiet(cl, Recover(cl, "rebuilding"))
      /\ Quiet(cl, EventFailed(cl))
  BY <1>1, RecoverQuiet, EventFailedQuiet DEF Quiet, Phases
<1>5. CASE e.kind = "invalidated"
  <2>1. client' = [client EXCEPT ![c] = InvalidatedEvent(cl, e)]
    BY <1>5 DEF HandleEvent, Update
  <2>2. Quiet(cl, InvalidatedEvent(cl, e))
    BY <1>4 DEF InvalidatedEvent
  <2> QED
    BY <1>2, <2>1, <2>2, TakenQuietly
<1>6. CASE e.kind # "invalidated"
  <2>1. e.kind = "patch"
    BY <1>3, <1>6 DEF Events
  <2>2. PICK sameId \in SameId(cl, e), supported \in BOOLEAN :
          client' = [client EXCEPT ![c] = PatchEvent(cl, e, sameId, supported)]
    BY <1>6 DEF HandleEvent, Update
  <2> DEFINE d == PatchEvent(cl, e, sameId, supported)
             own == [cl EXCEPT !.rev = e.rev, !.phase = "ready"]
             queued == [cl EXCEPT !.inbox =
                          Append(@, [kind |-> "event", op |-> e.op,
                                     base |-> cl.wrev, rev |-> e.rev])]
  <2>3. \/ d = cl \/ d = Recover(cl, "rebuilding") \/ d = EventFailed(cl)
        \/ sameId /\ cl.rev = e.base /\ cl.wrev = e.rev /\ d = own
        \/ /\ ~(sameId /\ cl.rev = e.base /\ cl.wrev = e.rev)
           /\ cl.rev = e.base /\ cl.worker # None /\ d = queued
    BY DEF PatchEvent
  <2>4. sameId = TRUE => cl.active # 0
    BY DEF SameId
  <2>5. sameId \in BOOLEAN
    BY DEF SameId
  <2> HIDE DEF d
  <2>6. client' = [client EXCEPT ![c] = d]
    BY <2>2 DEF d
  <2>7. CASE d = cl \/ d = Recover(cl, "rebuilding") \/ d = EventFailed(cl)
    <3>1. Quiet(cl, d)
      BY <1>4, <2>7
    <3> QED
      BY <1>2, <2>6, <3>1, TakenQuietly
  <2>8. CASE sameId /\ cl.rev = e.base /\ cl.wrev = e.rev /\ d = own
    BY <1>2, <2>1, <2>4, <2>5, <2>6, <2>8, OwnPatchOK
  <2>9. CASE /\ ~(sameId /\ cl.rev = e.base /\ cl.wrev = e.rev)
             /\ cl.rev = e.base /\ cl.worker # None /\ d = queued
    BY <1>2, <2>1, <2>6, <2>9, QueuedPatchOK
  <2> QED
    BY <2>3, <2>7, <2>8, <2>9
<1> QED
  BY <1>5, <1>6

(* The request at the head of a worker's inbox, and the ones after it. *)
LEMMA InboxTail ==
  ASSUME NEW s \in Seq(Items), s # <<>>
  PROVE  /\ Head(s) \in Items /\ Head(s) = s[1] /\ 1 \in 1..Len(s)
         /\ Tail(s) \in Seq(Items)
         /\ \A i \in 1..Len(Tail(s)) : i + 1 \in 1..Len(s) /\ Tail(s)[i] = s[i + 1]
<1>1. Len(s) \in Nat \ {0} /\ Head(s) = s[1] /\ s[1] \in Items
  OBVIOUS
<1>2. Tail(s) \in Seq(Items) /\ Len(Tail(s)) = Len(s) - 1
  OBVIOUS
<1>3. \A i \in 1..Len(Tail(s)) : i + 1 \in 1..Len(s) /\ Tail(s)[i] = s[i + 1]
  BY <1>1
<1> QED
  BY <1>1, <1>2, <1>3

(* The requests that are left in the inbox are sound as they were. *)
LEMMA RestOK ==
  ASSUME NEW cl \in Runtimes, InboxOK(cl), cl.inbox # <<>>,
         NEW d, d.inbox = Tail(cl.inbox),
         d.mut = cl.mut \/ cl.inbox[1].kind = "mutation"
  PROVE  /\ InboxOK(d)
         /\ cl.inbox[1].kind = "mutation" =>
              \A i \in 1..Len(d.inbox) : d.inbox[i].kind = "event"
<1>1. cl.inbox \in Seq(Items) /\ 1 \in 1..Len(cl.inbox)
  BY RuntimeFields, InboxTail
<1>2. \A i \in 1..Len(d.inbox) :
        i + 1 \in 1..Len(cl.inbox) /\ d.inbox[i] = cl.inbox[i + 1]
  BY <1>1, InboxTail
<1>3. ASSUME NEW i \in 1..Len(d.inbox), cl.inbox[1].kind = "mutation"
      PROVE  d.inbox[i].kind = "event"
  <2>1. i + 1 \in 1..Len(cl.inbox) /\ d.inbox[i] = cl.inbox[i + 1] /\ i + 1 # 1
    BY <1>2
  <2>2. cl.inbox[i + 1].kind # "mutation"
    BY <1>1, <1>3, <2>1, Zenon DEF InboxOK
  <2> QED
    BY <1>1, <2>1, <2>2, ItemFields
<1>4. ASSUME NEW i \in 1..Len(d.inbox)
      PROVE  /\ d.inbox[i].kind = "mutation" =>
                  /\ d.mut.stage = "worker"
                  /\ d.inbox[i].op = d.mut.op /\ d.inbox[i].base = d.mut.base
                  /\ d.inbox[i].rev = d.inbox[i].base + 1
             /\ d.inbox[i].kind = "event" =>
                  /\ d.inbox[i].rev - 1 \in 1..Len(store)
                  /\ d.inbox[i].op = store[d.inbox[i].rev - 1]
  <2>1. i + 1 \in 1..Len(cl.inbox) /\ d.inbox[i] = cl.inbox[i + 1]
    BY <1>2
  <2> QED
    BY <1>3, <2>1 DEF InboxOK
<1>5. ASSUME NEW i \in 1..Len(d.inbox), NEW j \in 1..Len(d.inbox),
             d.inbox[i].kind = "mutation", d.inbox[j].kind = "mutation"
      PROVE  i = j
  <2>1. /\ i + 1 \in 1..Len(cl.inbox) /\ d.inbox[i] = cl.inbox[i + 1]
        /\ j + 1 \in 1..Len(cl.inbox) /\ d.inbox[j] = cl.inbox[j + 1]
    BY <1>2
  <2>2. i + 1 = j + 1
    BY <1>5, <2>1, Zenon DEF InboxOK
  <2> QED
    BY <2>2
<1> QED
  BY <1>3, <1>4, <1>5 DEF InboxOK

(* The worker answers the command made of a committed patch.  On a worker  *)
(* without a refused command it is the next change of the project.         *)
LEMMA AnswerEventKeeps ==
  ASSUME IInv, NEW c \in Clients, AnswerEvent(c)
  PROVE  IInv'
<1> DEFINE cl == client[c]
           r == Head(cl.inbox)
           rest == [cl EXCEPT !.inbox = Tail(@)]
           next == [rest EXCEPT !.worker = Append(@, r.op), !.wrev = r.base + 1]
           good == [next EXCEPT !.rev = r.rev, !.phase = "ready"]
           d == IF r.base # Rev(cl.worker) THEN Recover(rest, "rebuilding")
                ELSE IF r.base + 1 # r.rev THEN Recover(next, "rebuilding")
                ELSE good
<1>1. cl \in Runtimes /\ ClientOK(c, cl) /\ StateOK
  BY DEF IInv, StateOK
<1>2. /\ cl.inbox # <<>> /\ r.kind = "event"
      /\ client' = [client EXCEPT ![c] = d]
      /\ UNCHANGED <<store, handle, post, late, stream, conn, saw, issued>>
  BY DEF AnswerEvent, Update
<1>3. /\ cl.inbox \in Seq(Items) /\ r \in Items /\ r = cl.inbox[1]
      /\ 1 \in 1..Len(cl.inbox) /\ Tail(cl.inbox) \in Seq(Items)
      /\ \A i \in 1..Len(Tail(cl.inbox)) :
           i + 1 \in 1..Len(cl.inbox) /\ Tail(cl.inbox)[i] = cl.inbox[i + 1]
  BY <1>1, <1>2, InboxTail, RuntimeFields
<1>4. cl.worker # None /\ cl.worker \in Contents /\ cl.rec.stage # "worker"
  BY <1>1, <1>2, RuntimeFields DEF ClientOK, RecoveryOK
<1>5. /\ r.op \in Changes /\ r.base \in Nat /\ r.rev \in Nat
      /\ r.rev - 1 \in 1..Len(store) /\ r.op = store[r.rev - 1]
  <2>1. r.rev - 1 \in 1..Len(store) /\ r.op = store[r.rev - 1]
    BY <1>1, <1>2, <1>3 DEF ClientOK, InboxOK
  <2>2. r.base \in Nat /\ r.rev \in Nat
    BY <1>3 DEF Items
  <2> QED
    BY <1>1, <2>1, <2>2 DEF StateOK, Contents
<1>6. r.base <= r.rev /\ StreamFrom(c, r.rev)
  BY <1>1, <1>2, <1>3 DEF ClientOK, BoundOK
<1>7. /\ Append(cl.worker, r.op) \in Contents
      /\ Append(cl.worker, r.op) # None
      /\ Rev(Append(cl.worker, r.op)) = Rev(cl.worker) + 1
      /\ Rev(cl.worker) \in Nat
  BY <1>4, <1>5, Appended, NoneIsNoContent DEF Rev
<1>8. Len(store) \in Nat /\ Rev(store) = Len(store) + 1
  BY <1>1 DEF StateOK, Contents, Rev
<1>9. cl.rev \in Nat /\ cl.wrev \in Nat /\ cl.active \in Nat
  BY <1>1, RuntimeFields
<1> HIDE DEF cl, r
<1>10. /\ rest \in Runtimes
       /\ rest.rev = cl.rev /\ rest.wrev = cl.wrev /\ rest.worker = cl.worker
       /\ rest.inbox = Tail(cl.inbox) /\ rest.active = cl.active
       /\ rest.mut = cl.mut /\ rest.rec = cl.rec
  <2>1. rest \in Runtimes
    BY <1>1, <1>3, Zenon DEF Runtimes
  <2> QED
    BY <1>1, <2>1 DEF Runtimes
<1> HIDE DEF rest
<1>11. /\ next \in Runtimes
       /\ next.rev = cl.rev /\ next.wrev = r.base + 1
       /\ next.worker = Append(cl.worker, r.op)
       /\ next.inbox = Tail(cl.inbox) /\ next.active = cl.active
       /\ next.mut = cl.mut /\ next.rec = cl.rec
  <2>1. next = [rest EXCEPT !.worker = Append(cl.worker, r.op), !.wrev = r.base + 1]
    BY <1>10 DEF Runtimes
  <2>2. r.base + 1 \in Nat /\ Append(cl.worker, r.op) \in Contents \cup {None}
    BY <1>5, <1>7
  <2>3. next \in Runtimes
    BY <1>10, <2>1, <2>2, Zenon DEF Runtimes
  <2> QED
    BY <1>10, <2>1, <2>3 DEF Runtimes
<1> HIDE DEF next
<1>12. /\ good \in Runtimes
       /\ good.rev = r.rev /\ good.wrev = r.base + 1
       /\ good.worker = Append(cl.worker, r.op)
       /\ good.inbox = Tail(cl.inbox) /\ good.active = cl.active
       /\ good.mut = cl.mut /\ good.rec = cl.rec
  BY <1>5, <1>11 DEF Runtimes, Phases
<1> HIDE DEF good
<1>13. ASSUME NEW x, x \in {rest, next, good}
       PROVE  /\ PostOK(c, x) /\ InboxOK(x) /\ RecoveryOK(x)
              /\ x.mut = cl.mut /\ x.active = cl.active /\ x.rec = cl.rec
              /\ x.worker # None
              /\ \A i \in 1..Len(x.inbox) : x.inbox[i].kind = "event" =>
                   x.inbox[i].base <= x.inbox[i].rev /\ StreamFrom(c, x.inbox[i].rev)
  <2>1. /\ x.mut = cl.mut /\ x.inbox = Tail(cl.inbox) /\ x.rec = cl.rec
        /\ x.active = cl.active /\ x.worker # None
    BY <1>4, <1>7, <1>10, <1>11, <1>12, <1>13
  <2>2. PostOK(c, x) /\ RecoveryOK(x)
    BY <1>1, <1>4, <2>1 DEF ClientOK, PostOK, RecoveryOK
  <2>3. InboxOK(x)
    BY <1>1, <1>2, <2>1, RestOK DEF ClientOK
  <2>4. \A i \in 1..Len(x.inbox) : x.inbox[i].kind = "event" =>
          x.inbox[i].base <= x.inbox[i].rev /\ StreamFrom(c, x.inbox[i].rev)
    BY <1>1, <1>3, <2>1 DEF ClientOK, BoundOK
  <2> QED
    BY <2>1, <2>2, <2>3, <2>4
<1>14. \A x : x.mut = cl.mut /\ Clean(c, x) => Clean(c, cl)
  BY DEF Clean
<1>15. /\ cl.rev <= Rev(store) /\ cl.wrev <= Rev(store) + 1
       /\ cl.wrev > cl.rev + 1 => cl.rev <= Len(store) /\ StreamFrom(c, cl.rev + 1)
       /\ cl.active <= issued /\ cl.rec.tries < MaxStartupAttempts
  BY <1>1, <1>4 DEF ClientOK, BoundOK
<1>16. ASSUME Clean(c, cl)
       PROVE  /\ \/ Had(cl.worker, store)
                 \/ /\ Open(c) /\ cl.mut.stage = "posted"
                    /\ cl.worker = Append(store, cl.mut.op)
              /\ \/ cl.wrev = cl.rev
                 \/ /\ cl.mut.stage = "posted" /\ cl.active = cl.mut.op
                    /\ cl.rev = cl.mut.base /\ cl.wrev = cl.mut.base + 1
              /\ \A i \in 1..Len(cl.inbox) :
                   cl.inbox[i].kind = "event" => cl.inbox[i].base + 1 = cl.inbox[i].rev
              /\ r.base + 1 = r.rev
  BY <1>1, <1>2, <1>3, <1>4, <1>16 DEF ClientOK, WorkerOK
<1>17. cl.mut.stage \in {"none", "worker"} => Clean(c, cl)
  BY DEF Clean
<1>18. ClientOK(c, rest)
  <2>1. MutationOK(rest)
    BY <1>1, <1>10 DEF ClientOK, MutationOK, Owns
  <2>2. WorkerOK(c, rest)
    BY <1>3, <1>10, <1>14, <1>16 DEF WorkerOK
  <2>3. BoundOK(c, rest)
    BY <1>10, <1>13, <1>15 DEF BoundOK
  <2> QED
    BY <1>13, <2>1, <2>2, <2>3 DEF ClientOK
<1>19. ASSUME r.base + 1 # r.rev PROVE ClientOK(c, next)
  <2>1. ~Clean(c, cl)
    BY <1>16, <1>19
  <2>2. MutationOK(next)
    BY <1>1, <1>11, <1>17, <2>1 DEF ClientOK, MutationOK, Owns
  <2>3. WorkerOK(c, next)
    BY <1>11, <1>14, <2>1 DEF WorkerOK
  <2>4. next.wrev <= Rev(store) + 1
    BY <1>5, <1>6, <1>8, <1>11
  <2>5. ASSUME next.wrev > next.rev + 1
        PROVE  next.rev <= Len(store) /\ StreamFrom(c, next.rev + 1)
    <3>1. cl.rev < r.base /\ cl.rev + 1 <= r.rev /\ next.rev = cl.rev
      BY <1>5, <1>6, <1>9, <1>11, <2>5
    <3>2. next.rev <= Len(store)
      BY <1>5, <1>8, <1>9, <3>1
    <3>3. ASSUME NEW i \in 1..Len(stream[c]), stream[c][i].kind = "patch"
          PROVE  stream[c][i].base >= cl.rev + 1
      <4>1. stream[c][i].base >= r.rev
        BY <1>6, <3>3 DEF StreamFrom
      <4>2. stream[c][i].base \in Nat
        BY <1>1, <3>3, EventFields DEF StateOK
      <4> QED
        BY <1>5, <1>9, <3>1, <4>1, <4>2
    <3> QED
      BY <3>1, <3>2, <3>3 DEF StreamFrom
  <2>6. BoundOK(c, next)
    BY <1>11, <1>13, <1>15, <2>4, <2>5 DEF BoundOK
  <2> QED
    BY <1>13, <2>2, <2>3, <2>6 DEF ClientOK
<1>20. ASSUME r.base = Rev(cl.worker), r.base + 1 = r.rev PROVE ClientOK(c, good)
  <2>1. good.rev = Rev(good.worker) /\ good.wrev = good.rev
    BY <1>7, <1>12, <1>20
  <2>2. MutationOK(good)
    BY <1>1, <1>12, <2>1 DEF ClientOK, MutationOK, Owns
  <2>3. WorkerOK(c, good)
    <3> SUFFICES ASSUME Clean(c, good)
                 PROVE  /\ Had(good.worker, store)
                        /\ good.wrev = good.rev
                        /\ \A i \in 1..Len(good.inbox) : good.inbox[i].kind = "event" =>
                             good.inbox[i].base + 1 = good.inbox[i].rev
      BY DEF WorkerOK
    <3>1. Clean(c, cl)
      BY <1>12, <1>14
    <3>2. r.base \in 1..Len(store) /\ r.op = store[r.base]
      BY <1>5, <1>20
    <3>3. Had(cl.worker, store)
      <4> SUFFICES ASSUME cl.worker = Append(store, cl.mut.op) PROVE FALSE
        BY <1>16, <3>1
      <4>1. Len(cl.worker) = Len(store) + 1
        BY <1>1 DEF StateOK, Contents
      <4> QED
        BY <1>8, <1>20, <3>2, <4>1 DEF Rev
    <3>4. Had(Append(cl.worker, store[Rev(cl.worker)]), store)
      BY <1>1, <1>4, <1>20, <3>2, <3>3, HadNext DEF StateOK
    <3>5. Had(good.worker, store)
      BY <1>12, <1>20, <3>2, <3>4
    <3> QED
      BY <1>3, <1>12, <1>16, <2>1, <3>1, <3>5
  <2>4. BoundOK(c, good)
    <3>1. good.rev <= Rev(store) /\ good.wrev <= Rev(store) + 1 /\ ~(good.wrev > good.rev + 1)
      BY <1>5, <1>8, <1>12, <2>1
    <3> QED
      BY <1>12, <1>13, <1>15, <3>1 DEF BoundOK
  <2> QED
    BY <1>13, <2>2, <2>3, <2>4 DEF ClientOK
<1>21. d \in Runtimes /\ ClientOK(c, d) /\ d.mut = cl.mut
  <2>1. Quiet(rest, Recover(rest, "rebuilding")) /\ Quiet(next, Recover(next, "rebuilding"))
    BY <1>10, <1>11, RecoverQuiet DEF Phases
  <2>2. CASE r.base # Rev(cl.worker)
    <3>1. d = Recover(rest, "rebuilding")
      BY <2>2
    <3> HIDE DEF d
    <3>2. Quiet(rest, d)
      BY <2>1, <3>1
    <3>3. ClientOK(c, d)
      BY <1>10, <1>18, <3>2, QuietOK
    <3> QED
      BY <1>10, <3>2, <3>3 DEF Quiet
  <2>3. CASE r.base = Rev(cl.worker) /\ r.base + 1 # r.rev
    <3>1. d = Recover(next, "rebuilding")
      BY <2>3
    <3> HIDE DEF d
    <3>2. Quiet(next, d)
      BY <2>1, <3>1
    <3>3. ClientOK(c, d)
      BY <1>11, <1>19, <2>3, <3>2, QuietOK
    <3> QED
      BY <1>11, <3>2, <3>3 DEF Quiet
  <2>4. CASE r.base = Rev(cl.worker) /\ r.base + 1 = r.rev
    <3>1. d = good
      BY <2>4
    <3> HIDE DEF d
    <3> QED
      BY <1>12, <1>20, <2>4, <3>1
  <2> QED
    BY <2>2, <2>3, <2>4
<1> HIDE DEF d
<1>22. Owns(d) => Owns(client[c]) /\ d.mut.op = client[c].mut.op
  BY <1>21 DEF Owns, cl
<1>23. conn' \in [Clients -> {"none", "connecting", "open"}]
  BY <1>1, <1>2 DEF StateOK
<1> QED
  BY <1>2, <1>21, <1>22, <1>23, SoundStep

-----------------------------------------------------------------------------
(* Steps that issue, post or commit a change *)

(* The project has at most one more change. *)
Grown(op) == store' = store \/ (op \in Changes /\ store' = Append(store, op))

(* What the project was, it has had, and what it has had stays so. *)
LEMMA GrownFacts ==
  ASSUME StateOK, NEW op, Grown(op)
  PROVE  /\ store' \in Contents /\ Len(store) \in Nat /\ Len(store') \in Nat
         /\ Len(store) <= Len(store') /\ Len(store') <= Len(store) + 1
         /\ Rev(store) = Len(store) + 1 /\ Rev(store') = Len(store') + 1
         /\ \A i \in 1..Len(store) : i \in 1..Len(store') /\ store'[i] = store[i]
         /\ \A s \in Contents : Had(s, store) => Had(s, store')
         /\ \A n : Committed(n)' => Committed(n) \/ n = op
         /\ store' # store => Len(store') = Len(store) + 1
<1>1. store \in Contents /\ Len(store) \in Nat
  BY DEF StateOK, Contents
<1>2. CASE store' = store
  BY <1>1, <1>2 DEF Committed, Rev
<1>3. CASE op \in Changes /\ store' = Append(store, op)
  <2>1. /\ store' \in Contents /\ Len(store') = Len(store) + 1
        /\ store'[Len(store) + 1] = op
        /\ \A i \in 1..Len(store) : store'[i] = store[i]
    BY <1>1, <1>3, Appended
  <2>2. \A s \in Contents : Had(s, store) => Had(s, store')
    BY <1>1, <1>3, HadAppend
  <2>3. ASSUME NEW n, Committed(n)' PROVE Committed(n) \/ n = op
    <3>1. PICK i \in 1..Len(store') : store'[i] = n
      BY <2>3 DEF Committed
    <3>2. i \in 1..Len(store) \/ i = Len(store) + 1
      BY <1>1, <2>1
    <3> QED
      BY <2>1, <3>1, <3>2 DEF Committed
  <2>4. \A i \in 1..Len(store) : i \in 1..Len(store')
    BY <1>1, <2>1
  <2> QED
    BY <1>1, <2>1, <2>2, <2>3, <2>4 DEF Rev
<1> QED
  BY <1>2, <1>3 DEF Grown

(* The stream of a browser gets at most the event of this change. *)
Heard(c) ==
  \/ stream'[c] = stream[c]
  \/ \E e \in Events : /\ stream'[c] = Append(stream[c], e)
                       /\ e.kind = "patch" => e.base = Rev(store)

(* It is one for the newest revision. *)
LEMMA HeardFrom ==
  ASSUME StateOK, NEW c \in Clients, Heard(c), NEW r \in Nat, r <= Rev(store),
         StreamFrom(c, r)
  PROVE  StreamFrom(c, r)'
<1>1. CASE stream'[c] = stream[c]
  BY <1>1 DEF StreamFrom
<1>2. CASE stream'[c] # stream[c]
  <2>1. PICK e \in Events : /\ stream'[c] = Append(stream[c], e)
                            /\ e.kind = "patch" => e.base = Rev(store)
    BY <1>2 DEF Heard
  <2>2. stream[c] \in Seq(Events)
    BY DEF StateOK
  <2>3. ASSUME NEW i \in 1..Len(stream'[c]), stream'[c][i].kind = "patch"
        PROVE  stream'[c][i].base >= r
    <3>1. CASE i \in 1..Len(stream[c])
      <4>1. stream'[c][i] = stream[c][i]
        BY <2>1, <2>2, <3>1
      <4> QED
        BY <2>3, <3>1, <4>1 DEF StreamFrom
    <3>2. CASE i \notin 1..Len(stream[c])
      <4>1. stream'[c][i] = e
        BY <2>1, <2>2, <3>2
      <4>2. Rev(store) \in Nat
        BY DEF StateOK, Contents, Rev
      <4> QED
        BY <2>1, <2>3, <4>1, <4>2
    <3> QED
      BY <3>1, <3>2
  <2> QED
    BY <2>3 DEF StreamFrom
<1> QED
  BY <1>1, <1>2

(* What a change of the project keeps of any client. *)
LEMMA GrownParts ==
  ASSUME StateOK, NEW op, Grown(op), NEW c \in Clients, Heard(c),
         NEW cl \in Runtimes, ClientOK(c, cl), issued' \in Nat, issued <= issued'
  PROVE  RecoveryOK(cl)' /\ InboxOK(cl)' /\ BoundOK(c, cl)'
<1>1. RecoveryOK(cl) /\ InboxOK(cl) /\ BoundOK(c, cl)
  BY DEF ClientOK
<1>2. cl.rec.snap \in Contents
  BY RuntimeFields DEF Recoveries
<1>3. RecoveryOK(cl)'
  BY <1>1, <1>2, GrownFacts DEF RecoveryOK
<1>4. InboxOK(cl)'
  BY <1>1, GrownFacts DEF InboxOK
<1>5. BoundOK(c, cl)'
  <2>1. cl.rev \in Nat /\ cl.wrev \in Nat /\ cl.active \in Nat /\ cl.inbox \in Seq(Items)
    BY RuntimeFields
  <2>2. /\ Len(store) \in Nat /\ Len(store') \in Nat /\ Len(store) <= Len(store')
        /\ Rev(store) = Len(store) + 1 /\ Rev(store') = Len(store') + 1
    BY GrownFacts
  <2>3. cl.rev <= Rev(store') /\ cl.wrev <= Rev(store') + 1
    BY <1>1, <2>1, <2>2 DEF BoundOK
  <2>4. ASSUME cl.wrev > cl.rev + 1, cl.worker # None
        PROVE  cl.rev <= Len(store') /\ StreamFrom(c, cl.rev + 1)'
    <3>1. cl.rev <= Len(store) /\ StreamFrom(c, cl.rev + 1)
      BY <1>1, <2>4 DEF BoundOK
    <3>2. cl.rev + 1 \in Nat /\ cl.rev + 1 <= Rev(store)
      BY <2>1, <2>2, <3>1
    <3>3. StreamFrom(c, cl.rev + 1)'
      BY <3>1, <3>2, HeardFrom
    <3> QED
      BY <2>1, <2>2, <3>1, <3>3
  <2>5. ASSUME NEW i \in 1..Len(cl.inbox), cl.inbox[i].kind = "event"
        PROVE  cl.inbox[i].base <= cl.inbox[i].rev /\ StreamFrom(c, cl.inbox[i].rev)'
    <3>1. cl.inbox[i].base <= cl.inbox[i].rev /\ StreamFrom(c, cl.inbox[i].rev)
      BY <1>1, <2>5 DEF BoundOK
    <3>2. cl.inbox[i].rev \in Nat
      BY <2>1, <2>5, ItemFields
    <3>3. cl.inbox[i].rev - 1 \in 1..Len(store)
      BY <1>1, <2>5 DEF InboxOK
    <3>4. cl.inbox[i].rev <= Rev(store)
      BY <2>2, <3>2, <3>3
    <3> QED
      BY <3>1, <3>2, <3>4, HeardFrom
  <2>6. cl.active <= issued' /\ cl.rec.tries < MaxStartupAttempts
    BY <1>1, <2>1 DEF BoundOK, StateOK
  <2> QED
    BY <2>3, <2>4, <2>5, <2>6 DEF BoundOK
<1> QED
  BY <1>3, <1>4, <1>5

(* A client that another actor's change does not concern stays sound. *)
LEMMA OthersOK ==
  ASSUME StateOK, NEW op, Grown(op), NEW c \in Clients, Heard(c),
         NEW cl \in Runtimes, ClientOK(c, cl), issued' \in Nat, issued <= issued',
         post'[c] = post[c],
         Owns(cl) /\ store' # store => op # cl.mut.op,
         post[c].stage = "request" => saw'[post[c].op] = saw[post[c].op]
  PROVE  ClientOK(c, cl)'
<1>1. PostOK(c, cl) /\ MutationOK(cl) /\ WorkerOK(c, cl)
  BY DEF ClientOK
<1>2. RecoveryOK(cl)' /\ InboxOK(cl)' /\ BoundOK(c, cl)'
  BY GrownParts
<1>3. /\ Len(store) \in Nat /\ Len(store') \in Nat
      /\ Rev(store) = Len(store) + 1 /\ Rev(store') = Len(store') + 1
      /\ \A i \in 1..Len(store) : i \in 1..Len(store') /\ store'[i] = store[i]
      /\ \A s \in Contents : Had(s, store) => Had(s, store')
      /\ \A n : Committed(n)' => Committed(n) \/ n = op
      /\ store' # store => Len(store') = Len(store) + 1
  BY GrownFacts
<1>4. store' = store => \A n : Committed(n)' => Committed(n)
  BY DEF Committed
<1>5. issued \in Nat /\ post[c] \in Posts
  BY DEF StateOK
<1>6. ASSUME Owns(cl), ~Committed(cl.mut.op) PROVE ~Committed(cl.mut.op)'
  BY <1>3, <1>4, <1>6
<1>7. MutationOK(cl)'
  <2>1. Owns(cl) => cl.mut.op \in 1..issued'
    BY <1>1, <1>5 DEF MutationOK
  <2> QED
    BY <1>1, <1>6, <2>1 DEF MutationOK, Owns
<1>8. ASSUME post[c].stage = "request"
      PROVE  /\ RequestOK(post[c].op, post[c].base)'
             /\ post[c].base \in Nat /\ post[c].base <= Rev(store)
  <2>1. /\ RequestOK(post[c].op, post[c].base) /\ Owns(cl) /\ post[c].op = cl.mut.op
    BY <1>1, <1>8 DEF PostOK, Owns
  <2>2. post[c].op \in Changes /\ saw[post[c].op] \in Contents
    <3>1. 1..issued \subseteq Changes
      BY BoundAssumption DEF StateOK, Changes
    <3> QED
      BY <2>1, <3>1 DEF RequestOK, StateOK
  <2>3. ~Committed(post[c].op)'
    BY <1>6, <2>1 DEF RequestOK
  <2>4. post[c].op \in 1..issued'
    BY <1>5, <2>1 DEF RequestOK
  <2>5. Had(saw'[post[c].op], store') /\ post[c].base = Rev(saw'[post[c].op])
    BY <1>3, <1>8, <2>1, <2>2 DEF RequestOK
  <2>6. post[c].base \in Nat /\ post[c].base <= Rev(store)
    BY <1>3, <2>1, <2>2 DEF RequestOK, Had, Rev, Contents
  <2>7. RequestOK(post[c].op, post[c].base)'
    <3>1. ASSUME NEW o, NEW b, o = post[c].op, b = post[c].base
          PROVE  RequestOK(o, b)'
      BY <2>3, <2>4, <2>5, <3>1 DEF RequestOK
    <3>2. post'[c].op = post[c].op /\ post'[c].base = post[c].base
      OBVIOUS
    <3> QED
      BY <3>1, <3>2
  <2> QED
    BY <2>6, <2>7
<1>9. PostOK(c, cl)'
  BY <1>1, <1>3, <1>8 DEF PostOK
<1>10. Open(c)' => store' = store /\ Open(c)
  BY <1>3, <1>8 DEF Open
<1>11. WorkerOK(c, cl)'
  <2> SUFFICES ASSUME Clean(c, cl)', cl.worker # None
               PROVE  /\ \/ Had(cl.worker, store')
                         \/ /\ Open(c)' /\ cl.mut.stage = "posted"
                            /\ cl.worker = Append(store', cl.mut.op)
                      /\ \/ cl.wrev = cl.rev
                         \/ /\ cl.mut.stage = "posted" /\ cl.active = cl.mut.op
                            /\ cl.rev = cl.mut.base /\ cl.wrev = cl.mut.base + 1
                      /\ \A i \in 1..Len(cl.inbox) : cl.inbox[i].kind = "event" =>
                           cl.inbox[i].base + 1 = cl.inbox[i].rev
    BY DEF WorkerOK
  <2>1. Clean(c, cl)
    BY <1>10 DEF Clean
  <2>2. cl.worker \in Contents
    BY RuntimeFields
  <2>3. CASE Had(cl.worker, store)
    BY <1>1, <1>3, <2>1, <2>2, <2>3 DEF WorkerOK
  <2>4. CASE ~Had(cl.worker, store)
    <3>1. Open(c) /\ cl.mut.stage = "posted" /\ cl.worker = Append(store, cl.mut.op)
      BY <1>1, <2>1, <2>4 DEF WorkerOK
    <3>2. Open(c)' /\ store' = store
      BY <1>10, <3>1 DEF Clean, Open
    <3> QED
      BY <1>1, <2>1, <3>1, <3>2 DEF WorkerOK
  <2> QED
    BY <2>3, <2>4
<1> QED
  BY <1>2, <1>7, <1>9, <1>11 DEF ClientOK

(* A step of one client that posts, gives up on or ends its own command    *)
(* keeps the invariant when it keeps that client sound: the number of the  *)
(* command is nobody else's.                                               *)
LEMMA OwnStep ==
  ASSUME IInv, NEW c \in Clients, NEW d \in Runtimes, NEW p \in Posts,
         client' = [client EXCEPT ![c] = d],
         post' = [post EXCEPT ![c] = p],
         ClientOK(c, d)',
         UNCHANGED <<store, handle, stream, conn>>,
         issued' \in issued..MaxChanges,
         saw' \in [Changes -> Contents],
         \A i \in Changes :
           saw'[i] = saw[i] \/ (~Committed(i) /\ Owns(client[c]) /\ i = client[c].mut.op),
         late' \subseteq [op : Changes, base : Nat],
         \A r \in late' :
           r \in late \/ /\ RequestOK(r.op, r.base)'
                         /\ Owns(client[c]) /\ r.op = client[c].mut.op /\ ~Owns(d),
         \A r, s \in late' : r.op = s.op /\ r \notin late /\ s \notin late => r = s,
         Owns(d) => \/ Owns(client[c]) /\ d.mut.op = client[c].mut.op
                    \/ d.mut.op = issued + 1
  PROVE  IInv'
<1>1. issued \in Nat /\ issued' \in Nat /\ issued <= issued' /\ issued' \in 0..MaxChanges
  BY BoundAssumption DEF IInv, StateOK
<1>2. StateOK'
  BY <1>1 DEF IInv, StateOK
<1>3. StoreOK' /\ HandleOK' /\ StreamOK'
  <2>1. \A i \in 1..Len(store) : store[i] \in 1..issued'
    BY <1>1 DEF IInv, StoreOK
  <2> QED
    BY <2>1 DEF IInv, StoreOK, HandleOK, StreamOK
<1>4. AsSeen'
  <2> SUFFICES ASSUME NEW i \in DOMAIN store
               PROVE  saw'[store[i]] = SubSeq(store, 1, i - 1)
    BY DEF AsSeen
  <2>1. i \in 1..Len(store) /\ store[i] \in Changes
    BY DEF IInv, StateOK, Contents
  <2>2. Committed(store[i])
    BY <2>1 DEF Committed
  <2> QED
    BY <2>1, <2>2 DEF IInv, AsSeen
<1>5. ASSUME NEW r \in late, Owns(client[c]) PROVE r.op # client[c].mut.op
  BY <1>5 DEF IInv, OwnersOK
<1>6. ASSUME NEW r \in late PROVE r.op \in 1..issued /\ RequestOK(r.op, r.base)'
  <2>1. RequestOK(r.op, r.base)
    BY DEF IInv, LateOK
  <2>2. r.op \in 1..issued /\ r.op \in Changes
    BY <2>1, BoundAssumption DEF RequestOK, IInv, StateOK, Changes
  <2>3. saw'[r.op] = saw[r.op]
    BY <1>5, <2>2
  <2>4. r.op \in 1..issued'
    BY <1>1, <2>2
  <2> QED
    BY <2>1, <2>2, <2>3, <2>4 DEF RequestOK, Committed
<1>7. LateOK'
  <2> SUFFICES ASSUME NEW r \in late' PROVE RequestOK(r.op, r.base)'
    BY DEF LateOK
  <2> QED
    BY <1>6
<1>8. ASSUME NEW x \in Clients, x # c, Owns(client[x])
      PROVE  /\ client[x].mut.op \in 1..issued
             /\ Owns(client[c]) => client[x].mut.op # client[c].mut.op
  BY <1>8 DEF IInv, OwnersOK, ClientOK, MutationOK
<1>9. ASSUME NEW x \in Clients PROVE ClientOK(x, client[x])'
  <2>1. CASE x = c
    BY <2>1 DEF IInv, StateOK
  <2>2. CASE x # c
    <3>1. /\ client'[x] = client[x] /\ client[x] \in Runtimes /\ post'[x] = post[x]
          /\ ClientOK(x, client[x]) /\ StateOK
      BY <2>2 DEF IInv, StateOK
    <3>2. ASSUME post[x].stage = "request" PROVE saw'[post[x].op] = saw[post[x].op]
      <4>1. Owns(client[x]) /\ post[x].op = client[x].mut.op
        BY <3>1, <3>2 DEF ClientOK, PostOK, Owns
      <4>2. post[x].op \in Changes
        BY <1>8, <2>2, <4>1, BoundAssumption DEF Changes, IInv, StateOK
      <4> QED
        BY <1>8, <2>2, <4>1, <4>2
    <3>3. Grown(0) /\ Heard(x) /\ store' = store
      BY DEF Grown, Heard
    <3>4. ASSUME NEW cl, cl = client[x] PROVE ClientOK(x, cl)'
      BY <1>1, <3>1, <3>2, <3>3, <3>4, OthersOK
    <3> QED
      BY <3>1, <3>4
  <2> QED
    BY <2>1, <2>2
<1>10. OwnersOK'
  <2>1. client'[c] = d /\ \A x \in Clients : x # c => client'[x] = client[x]
    BY DEF IInv, StateOK
  <2>2. ASSUME NEW x \in Clients, x # c, Owns(client[x]), Owns(d)
        PROVE  client[x].mut.op # d.mut.op
    BY <1>1, <1>8, <2>2
  <2>3. ASSUME NEW x \in Clients, NEW y \in Clients,
               Owns(client'[x]), Owns(client'[y]), client'[x].mut.op = client'[y].mut.op
        PROVE  x = y
    BY <2>1, <2>2, <2>3 DEF IInv, OwnersOK
  <2>4. ASSUME NEW x \in Clients, NEW r \in late', Owns(client'[x])
        PROVE  r.op # client'[x].mut.op
    <3>1. CASE x = c
      <4>1. r \in late /\ Owns(d) /\ client'[x] = d
        BY <2>1, <2>4, <3>1
      <4> QED
        BY <1>1, <1>5, <1>6, <4>1
    <3>2. CASE x # c
      BY <1>8, <2>1, <2>4, <3>2 DEF IInv, OwnersOK
    <3> QED
      BY <3>1, <3>2
  <2>5. ASSUME NEW r \in late', NEW s \in late', r.op = s.op
        PROVE  r = s
    <3>1. CASE r \in late /\ s \in late
      BY <2>5, <3>1 DEF IInv, OwnersOK
    <3>2. CASE r \notin late /\ s \notin late
      BY <2>5, <3>2
    <3>3. CASE (r \in late /\ s \notin late) \/ (r \notin late /\ s \in late)
      BY <1>5, <2>5, <3>3
    <3> QED
      BY <3>1, <3>2, <3>3
  <2> QED
    BY <2>3, <2>4, <2>5, Zenon DEF OwnersOK, Owns
<1> QED
  BY <1>2, <1>3, <1>4, <1>7, <1>9, <1>10 DEF IInv

(* Without a change of the project and its streams, what concerns them     *)
(* stays as it was.                                                        *)
LEMMA UngrownParts ==
  ASSUME NEW c \in Clients, NEW d \in Runtimes, UNCHANGED <<store, stream>>,
         issued \in Nat, issued' \in Nat, issued <= issued',
         RecoveryOK(d), InboxOK(d), BoundOK(c, d)
  PROVE  RecoveryOK(d)' /\ InboxOK(d)' /\ BoundOK(c, d)'
<1>1. RecoveryOK(d)' /\ InboxOK(d)'
  BY DEF RecoveryOK, InboxOK, Had
<1>2. d.active \in Nat
  BY RuntimeFields
<1>3. \A r : StreamFrom(c, r)' <=> StreamFrom(c, r)
  BY DEF StreamFrom
<1>4. Rev(store') = Rev(store) /\ Len(store') = Len(store)
  BY DEF Rev
<1>5. d.active <= issued'
  BY <1>2 DEF BoundOK
<1>6. BoundOK(c, d)'
  BY <1>3, <1>4, <1>5 DEF BoundOK
<1> QED
  BY <1>1, <1>6

(* mutate up to the request to the worker keeps the invariant. *)
LEMMA MutateKeeps ==
  ASSUME IInv, NEW c \in Clients, Mutate(c)
  PROVE  IInv'
<1> DEFINE cl == client[c]
           mut == [stage |-> "worker", op |-> issued + 1, base |-> cl.rev]
           r == [kind |-> "mutation", op |-> issued + 1, base |-> cl.rev,
                 rev |-> cl.rev + 1]
<1> PICK d : d = [cl EXCEPT !.mut = mut, !.inbox = Append(@, r)]
  OBVIOUS
<1>1. cl \in Runtimes /\ ClientOK(c, cl) /\ StateOK /\ StoreOK
  BY DEF IInv, StateOK
<1>2. /\ issued < MaxChanges /\ cl.mut.stage = "none" /\ cl.wrev = cl.rev
      /\ cl.worker # None
      /\ issued' = issued + 1
      /\ client' = [client EXCEPT ![c] = d]
      /\ UNCHANGED <<store, handle, post, late, stream, conn, saw>>
  BY DEF Mutate, Update
<1>3. /\ issued \in Nat /\ issued' \in Nat /\ issued <= issued'
      /\ issued' \in issued..MaxChanges /\ issued + 1 \in 1..issued'
  BY <1>1, <1>2, BoundAssumption DEF StateOK
<1>4. cl.rev \in Nat /\ cl.inbox \in Seq(Items)
  BY <1>1, RuntimeFields
<1>5. /\ mut \in Mutations /\ mut.stage = "worker" /\ mut.op = issued + 1
      /\ mut.base = cl.rev
      /\ r \in Items /\ r.kind = "mutation" /\ r.op = issued + 1 /\ r.base = cl.rev
      /\ r.rev = cl.rev + 1
  <2>1. issued + 1 \in Changes
    BY <1>2, <1>3, BoundAssumption DEF Changes
  <2> QED
    BY <1>3, <1>4, <2>1 DEF Mutations, Items
<1>6. d = [cl EXCEPT !.mut = mut, !.inbox = Append(cl.inbox, r)]
  BY <1>1 DEF Runtimes
<1>7. /\ Append(cl.inbox, r) \in Seq(Items)
      /\ \A i \in 1..Len(Append(cl.inbox, r)) :
           \/ i \in 1..Len(cl.inbox) /\ Append(cl.inbox, r)[i] = cl.inbox[i]
           \/ i = Len(cl.inbox) + 1 /\ Append(cl.inbox, r)[i] = r
  BY <1>4, <1>5, InboxAppended
<1> HIDE DEF mut, r, cl
<1>8. /\ d \in Runtimes
      /\ d.rev = cl.rev /\ d.wrev = cl.wrev /\ d.worker = cl.worker
      /\ d.inbox = Append(cl.inbox, r) /\ d.active = cl.active
      /\ d.mut = mut /\ d.rec = cl.rec
  <2>1. d \in Runtimes
    BY <1>1, <1>5, <1>6, <1>7, Zenon DEF Runtimes
  <2> QED
    BY <1>1, <1>6, <2>1 DEF Runtimes
<1>9. /\ post[c].stage = "none" /\ cl.active = 0
      /\ \A i \in 1..Len(cl.inbox) : cl.inbox[i].kind # "mutation"
  <2>1. post[c].stage = "none" /\ cl.active = 0
    BY <1>1, <1>2 DEF ClientOK, PostOK, MutationOK
  <2>2. \A i \in 1..Len(cl.inbox) : cl.inbox[i].kind # "mutation"
    BY <1>1, <1>2 DEF ClientOK, InboxOK
  <2> QED
    BY <2>1, <2>2
<1>10. \A i \in 1..Len(d.inbox) :
         \/ /\ i \in 1..Len(cl.inbox) /\ d.inbox[i] = cl.inbox[i]
            /\ d.inbox[i].kind # "mutation"
         \/ i = Len(cl.inbox) + 1 /\ d.inbox[i] = r
  BY <1>7, <1>8, <1>9
<1>11. RecoveryOK(d)
  BY <1>1, <1>2, <1>8 DEF ClientOK, RecoveryOK
<1>12. InboxOK(d)
  <2>1. ASSUME NEW i \in 1..Len(d.inbox)
        PROVE  /\ d.inbox[i].kind = "mutation" =>
                    /\ d.mut.stage = "worker"
                    /\ d.inbox[i].op = d.mut.op /\ d.inbox[i].base = d.mut.base
                    /\ d.inbox[i].rev = d.inbox[i].base + 1
               /\ d.inbox[i].kind = "event" =>
                    /\ d.inbox[i].rev - 1 \in 1..Len(store)
                    /\ d.inbox[i].op = store[d.inbox[i].rev - 1]
    <3>1. CASE /\ i \in 1..Len(cl.inbox) /\ d.inbox[i] = cl.inbox[i]
               /\ d.inbox[i].kind # "mutation"
      BY <1>1, <3>1 DEF ClientOK, InboxOK
    <3>2. CASE d.inbox[i] = r
      BY <1>5, <1>8, <3>2
    <3> QED
      BY <1>10, <3>1, <3>2
  <2>2. ASSUME NEW i \in 1..Len(d.inbox), NEW j \in 1..Len(d.inbox),
               d.inbox[i].kind = "mutation", d.inbox[j].kind = "mutation"
        PROVE  i = j
    BY <1>10, <2>2
  <2> QED
    BY <2>1, <2>2 DEF InboxOK
<1>13. BoundOK(c, d)
  <2>1. \A i \in 1..Len(d.inbox) : d.inbox[i].kind = "event" =>
          d.inbox[i].base <= d.inbox[i].rev /\ StreamFrom(c, d.inbox[i].rev)
    BY <1>1, <1>5, <1>10 DEF ClientOK, BoundOK
  <2> QED
    BY <1>1, <1>8, <2>1 DEF ClientOK, BoundOK
<1>14. RecoveryOK(d)' /\ InboxOK(d)' /\ BoundOK(c, d)'
  BY <1>2, <1>3, <1>8, <1>11, <1>12, <1>13, UngrownParts
<1>15. PostOK(c, d)'
  BY <1>2, <1>5, <1>8, <1>9 DEF PostOK
<1>16. MutationOK(d)'
  <2>1. ~Committed(d.mut.op)'
    BY <1>1, <1>2, <1>3, <1>5, <1>8 DEF StoreOK, Committed
  <2> QED
    BY <1>3, <1>5, <1>8, <1>9, <2>1 DEF MutationOK, Owns
<1>17. WorkerOK(c, d)'
  <2>1. /\ Had(cl.worker, store)
        /\ \A i \in 1..Len(cl.inbox) :
             cl.inbox[i].kind = "event" => cl.inbox[i].base + 1 = cl.inbox[i].rev
    BY <1>1, <1>2 DEF ClientOK, WorkerOK, Clean
  <2>2. Had(d.worker, store')
    BY <1>2, <1>8, <2>1
  <2>3. \A i \in 1..Len(d.inbox) :
          d.inbox[i].kind = "event" => d.inbox[i].base + 1 = d.inbox[i].rev
    BY <1>5, <1>10, <2>1
  <2> QED
    BY <1>2, <1>8, <2>2, <2>3 DEF WorkerOK
<1>18. ClientOK(c, d)'
  BY <1>14, <1>15, <1>16, <1>17 DEF ClientOK
<1>19. post[c] \in Posts /\ post' = [post EXCEPT ![c] = post[c]]
  BY <1>1, <1>2 DEF StateOK
<1>20. Owns(d) => d.mut.op = issued + 1
  BY <1>5, <1>8
<1>21. /\ saw' \in [Changes -> Contents] /\ late' \subseteq [op : Changes, base : Nat]
       /\ \A i \in Changes : saw'[i] = saw[i]
       /\ \A r1 \in late' : r1 \in late
  BY <1>1, <1>2 DEF StateOK
<1> QED
  BY <1>2, <1>3, <1>8, <1>18, <1>19, <1>20, <1>21, OwnStep

(* A command that failed at the browser waits for the recovery. *)
LEMMA BadOK ==
  ASSUME IInv, NEW c \in Clients, post[c].stage # "none",
         NEW phase \in Phases, NEW bad,
         bad = [client[c] EXCEPT !.phase = phase, !.mut.stage = "recovery"],
         NEW d, d = Recover(bad, "rebuilding"),
         post' = [post EXCEPT ![c] = NoPost],
         UNCHANGED <<store, stream, issued>>
  PROVE  /\ d \in Runtimes /\ ClientOK(c, d)' /\ ~Owns(d)
         /\ Owns(client[c]) /\ post[c].op = client[c].mut.op
         /\ post[c].base = client[c].mut.base
<1> DEFINE cl == client[c]
<1>1. cl \in Runtimes /\ ClientOK(c, cl) /\ StateOK
  BY DEF IInv, StateOK
<1>2. cl.mut.stage = "posted" /\ post[c].op = cl.mut.op /\ post[c].base = cl.mut.base
  BY <1>1 DEF ClientOK, PostOK
<1>3. /\ bad \in Runtimes
      /\ bad.rev = cl.rev /\ bad.wrev = cl.wrev /\ bad.worker = cl.worker
      /\ bad.inbox = cl.inbox /\ bad.active = cl.active /\ bad.rec = cl.rec
      /\ bad.mut.stage = "recovery"
  <2>1. [cl.mut EXCEPT !.stage = "recovery"] \in Mutations
    BY <1>1 DEF Runtimes, Mutations
  <2>2. bad = [cl EXCEPT !.phase = phase,
                         !.mut = [cl.mut EXCEPT !.stage = "recovery"]]
    BY <1>1 DEF Runtimes
  <2>3. bad \in Runtimes
    BY <1>1, <2>1, <2>2 DEF Runtimes
  <2> QED
    BY <1>1, <2>2, <2>3 DEF Runtimes, Mutations
<1>4. Quiet(bad, d) /\ d.rec.stage # "none" /\ d \in Runtimes
  <2>1. "rebuilding" \in Phases
    BY DEF Phases
  <2>2. Quiet(bad, Recover(bad, "rebuilding"))
        /\ Recover(bad, "rebuilding").rec.stage # "none"
    BY <1>3, <2>1, RecoverQuiet
  <2> QED
    BY <2>2 DEF Quiet
<1> HIDE DEF cl
<1>5. /\ d.rev = cl.rev /\ d.wrev = cl.wrev /\ d.worker = cl.worker
      /\ d.inbox = cl.inbox /\ d.active = cl.active /\ d.mut.stage = "recovery"
      /\ \/ d.rec = cl.rec
         \/ cl.rec.stage = "none" /\ d.rec.stage = "fetch" /\ d.rec.tries = 0
  BY <1>3, <1>4 DEF Quiet
<1>6. RecoveryOK(d)
  BY <1>1, <1>5 DEF ClientOK, RecoveryOK
<1>7. InboxOK(d)
  <2>1. \A i \in 1..Len(cl.inbox) : cl.inbox[i].kind # "mutation"
    BY <1>1, <1>2 DEF ClientOK, InboxOK, cl
  <2>2. \A i \in 1..Len(cl.inbox) : cl.inbox[i].kind = "event" =>
          /\ cl.inbox[i].rev - 1 \in 1..Len(store)
          /\ cl.inbox[i].op = store[cl.inbox[i].rev - 1]
    BY <1>1 DEF ClientOK, InboxOK
  <2>3. d.inbox = cl.inbox
    BY <1>5
  <2>4. \A i \in 1..Len(d.inbox) : d.inbox[i].kind # "mutation"
    BY <2>1, <2>3
  <2>5. \A i \in 1..Len(d.inbox) : d.inbox[i].kind = "event" =>
          /\ d.inbox[i].rev - 1 \in 1..Len(store)
          /\ d.inbox[i].op = store[d.inbox[i].rev - 1]
    BY <2>2, <2>3
  <2> QED
    BY <2>4, <2>5 DEF InboxOK
<1>8. BoundOK(c, d)
  BY <1>1, <1>5, BoundAssumption DEF ClientOK, BoundOK
<1>9. issued \in Nat /\ issued' \in Nat /\ issued <= issued'
  BY <1>1 DEF StateOK
<1>10. RecoveryOK(d)' /\ InboxOK(d)' /\ BoundOK(c, d)'
  BY <1>4, <1>6, <1>7, <1>8, <1>9, UngrownParts
<1>11. post'[c] = NoPost /\ post'[c].stage = "none"
  BY <1>1 DEF StateOK, NoPost
<1>12. PostOK(c, d)' /\ MutationOK(d)'
  BY <1>4, <1>5, <1>11 DEF PostOK, MutationOK, Owns
<1>13. WorkerOK(c, d)'
  BY <1>5 DEF WorkerOK, Clean
<1> QED
  BY <1>2, <1>4, <1>5, <1>10, <1>12, <1>13 DEF ClientOK, Owns, cl

(* The worker answers a mutation: the command that is posted was made on   *)
(* what the worker had, a content the project has had.                     *)
LEMMA AnswerMutationKeeps ==
  ASSUME IInv, NEW c \in Clients, AnswerMutation(c)
  PROVE  IInv'
<1> DEFINE cl == client[c]
           r == Head(cl.inbox)
           rest == [cl EXCEPT !.inbox = Tail(@)]
           posted == [cl.mut EXCEPT !.stage = "posted"]
           p == [stage |-> "request", op |-> r.op, base |-> r.base, result |-> "none"]
<1>1. cl \in Runtimes /\ ClientOK(c, cl) /\ StateOK
  BY DEF IInv, StateOK
<1>2. /\ cl.inbox # <<>> /\ r.kind = "mutation"
      /\ UNCHANGED <<store, handle, late, stream, conn, issued>>
  BY DEF AnswerMutation
<1>3. /\ cl.inbox \in Seq(Items) /\ r \in Items /\ r = cl.inbox[1]
      /\ 1 \in 1..Len(cl.inbox) /\ Tail(cl.inbox) \in Seq(Items)
      /\ \A i \in 1..Len(Tail(cl.inbox)) :
           i + 1 \in 1..Len(cl.inbox) /\ Tail(cl.inbox)[i] = cl.inbox[i + 1]
  BY <1>1, <1>2, InboxTail, RuntimeFields
<1>4. /\ cl.mut.stage = "worker" /\ r.op = cl.mut.op /\ r.base = cl.mut.base
      /\ r.rev = r.base + 1
  BY <1>1, <1>2, <1>3 DEF ClientOK, InboxOK
<1>5. r.op \in Nat /\ r.base \in Nat /\ r.rev \in Nat
  BY <1>3, BoundAssumption DEF Items, Changes
<1>6. cl.worker # None /\ cl.worker \in Contents /\ cl.rec.stage # "worker"
  BY <1>1, <1>2, RuntimeFields DEF ClientOK, RecoveryOK
<1>7. /\ Had(cl.worker, store) /\ cl.wrev = cl.rev
      /\ \A i \in 1..Len(cl.inbox) :
           cl.inbox[i].kind = "event" => cl.inbox[i].base + 1 = cl.inbox[i].rev
  BY <1>1, <1>4, <1>6 DEF ClientOK, WorkerOK, Clean
<1>8. /\ r.op \in 1..issued /\ ~Committed(r.op) /\ cl.active = 0
      /\ cl.rev = cl.mut.base \/ cl.rev = Rev(cl.worker)
      /\ post[c].stage = "none"
  BY <1>1, <1>4 DEF ClientOK, PostOK, MutationOK, Owns
<1>9. r.op \in Changes /\ issued \in Nat
  BY <1>1, <1>8, BoundAssumption DEF StateOK, Changes
<1>10. cl.rev \in Nat /\ cl.wrev \in Nat /\ cl.mut \in Mutations
  BY <1>1, RuntimeFields
<1>11. /\ \A i \in 1..Len(cl.inbox) : cl.inbox[i].kind = "event" =>
            cl.inbox[i].base <= cl.inbox[i].rev /\ StreamFrom(c, cl.inbox[i].rev)
       /\ cl.rev <= Rev(store) /\ cl.wrev <= Rev(store) + 1
       /\ cl.rec.tries < MaxStartupAttempts
  BY <1>1 DEF ClientOK, BoundOK
<1>12. /\ Rev(store) = Len(store) + 1 /\ Len(store) \in Nat
       /\ Rev(cl.worker) \in Nat /\ Rev(cl.worker) <= Rev(store)
  BY <1>1, <1>6, <1>7 DEF StateOK, Contents, Rev, Had
<1>13. /\ p \in Posts /\ p.stage = "request" /\ p.op = r.op /\ p.base = r.base
       /\ posted \in Mutations /\ posted.stage = "posted" /\ posted.op = cl.mut.op
       /\ posted.base = cl.mut.base
  BY <1>5, <1>10 DEF Posts, Mutations
<1>14. CASE r.base = Rev(cl.worker)
  <2> PICK d : d = [rest EXCEPT !.worker = Append(@, r.op), !.wrev = r.rev,
                                !.active = r.op, !.mut.stage = "posted"]
    OBVIOUS
  <2>1. /\ client' = [client EXCEPT ![c] = d]
        /\ post' = [post EXCEPT ![c] = p]
        /\ saw' = [saw EXCEPT ![r.op] = cl.worker]
    BY <1>14 DEF AnswerMutation, Update
  <2>2. d = [cl EXCEPT !.inbox = Tail(cl.inbox), !.worker = Append(cl.worker, r.op),
                       !.wrev = r.rev, !.active = r.op, !.mut = posted]
    BY <1>1 DEF Runtimes
  <2>3. Append(cl.worker, r.op) \in Contents /\ Append(cl.worker, r.op) # None
    BY <1>6, <1>9, Appended, NoneIsNoContent
  <2> HIDE DEF cl, r, posted, p
  <2>4. /\ d \in Runtimes
        /\ d.rev = cl.rev /\ d.wrev = r.rev /\ d.worker = Append(cl.worker, r.op)
        /\ d.inbox = Tail(cl.inbox) /\ d.active = r.op
        /\ d.mut = posted /\ d.rec = cl.rec
    <3>1. d \in Runtimes
      <4>1. Append(cl.worker, r.op) \in Contents \cup {None}
        BY <2>3
      <4> QED
        BY <1>1, <1>3, <1>5, <1>13, <2>2, <4>1, Zenon DEF Runtimes
    <3> QED
      BY <1>1, <2>2, <3>1 DEF Runtimes
  <2>5. post'[c] = p /\ saw'[r.op] = cl.worker
    BY <1>1, <1>9, <2>1 DEF StateOK
  <2>6. RecoveryOK(d)
    BY <1>1, <1>6, <2>3, <2>4 DEF ClientOK, RecoveryOK
  <2>7. InboxOK(d)
    BY <1>1, <1>2, <1>3, <2>4, RestOK DEF ClientOK
  <2>8. d.rev = d.mut.base /\ d.wrev = d.mut.base + 1
    BY <1>4, <1>8, <1>13, <1>14, <2>4
  <2>9. BoundOK(c, d)
    <3>1. \A i \in 1..Len(d.inbox) : d.inbox[i].kind = "event" =>
            d.inbox[i].base <= d.inbox[i].rev /\ StreamFrom(c, d.inbox[i].rev)
      BY <1>3, <1>11, <2>4
    <3>2. /\ d.rev <= Rev(store) /\ d.wrev <= Rev(store) + 1 /\ ~(d.wrev > d.rev + 1)
          /\ d.active <= issued
      BY <1>4, <1>5, <1>8, <1>9, <1>10, <1>11, <1>12, <1>13, <1>14, <2>4, <2>8
    <3> QED
      BY <1>11, <2>4, <3>1, <3>2 DEF BoundOK
  <2>10. issued' \in Nat /\ issued <= issued' /\ issued' = issued
    BY <1>2, <1>9
  <2>11. RecoveryOK(d)' /\ InboxOK(d)' /\ BoundOK(c, d)'
    BY <1>2, <1>9, <2>4, <2>6, <2>7, <2>9, <2>10, UngrownParts
  <2>12. PostOK(c, d)'
    <3>1. ASSUME NEW o, NEW b, o = r.op, b = r.base PROVE RequestOK(o, b)'
      <4>1. o \in 1..issued' /\ ~Committed(o)'
        BY <1>2, <1>8, <3>1 DEF Committed
      <4>2. saw'[o] = cl.worker /\ Had(saw'[o], store') /\ b = Rev(saw'[o])
        BY <1>2, <1>7, <1>14, <2>5, <3>1
      <4> QED
        BY <4>1, <4>2 DEF RequestOK
    <3>2. RequestOK(post[c].op, post[c].base)'
      BY <1>13, <2>5, <3>1
    <3> QED
      BY <1>4, <1>13, <2>4, <2>5, <3>2 DEF PostOK
  <2>13. MutationOK(d)'
    BY <1>2, <1>4, <1>8, <1>13, <2>4 DEF MutationOK, Owns
  <2>14. WorkerOK(c, d)'
    <3> SUFFICES ASSUME Clean(c, d)'
                 PROVE  /\ Open(c)' /\ d.mut.stage = "posted"
                        /\ d.worker = Append(store', d.mut.op)
                        /\ d.mut.stage = "posted" /\ d.active = d.mut.op
                        /\ d.rev = d.mut.base /\ d.wrev = d.mut.base + 1
                        /\ \A i \in 1..Len(d.inbox) : d.inbox[i].kind = "event" =>
                             d.inbox[i].base + 1 = d.inbox[i].rev
      BY DEF WorkerOK
    <3>1. Open(c)'
      BY <1>13, <2>4, <2>5 DEF Clean
    <3>2. Rev(cl.worker) = Rev(store)
      BY <1>2, <1>13, <1>14, <2>5, <3>1 DEF Open
    <3>3. cl.worker = store
      BY <1>1, <1>6, <1>7, <3>2, HadSame DEF StateOK
    <3>4. \A i \in 1..Len(d.inbox) :
            d.inbox[i].kind = "event" => d.inbox[i].base + 1 = d.inbox[i].rev
      BY <1>3, <1>7, <2>4
    <3> QED
      BY <1>2, <1>4, <1>13, <2>4, <2>8, <3>1, <3>3, <3>4
  <2>15. ClientOK(c, d)'
    BY <2>11, <2>12, <2>13, <2>14 DEF ClientOK
  <2>16. Owns(client[c]) /\ d.mut.op = client[c].mut.op
    BY <1>4, <1>13, <2>4 DEF Owns, cl
  <2>17. /\ saw' \in [Changes -> Contents]
         /\ \A i \in Changes : saw'[i] = saw[i] \/ i = r.op
    BY <1>1, <1>6, <2>1 DEF StateOK
  <2>18. ASSUME NEW i \in Changes
         PROVE  saw'[i] = saw[i] \/ (~Committed(i) /\ Owns(client[c]) /\ i = client[c].mut.op)
    BY <1>4, <1>8, <2>16, <2>17 DEF cl
  <2>19. /\ late' \subseteq [op : Changes, base : Nat] /\ \A r1 \in late' : r1 \in late
         /\ issued' \in issued..MaxChanges
    BY <1>1, <1>2, <2>10, BoundAssumption DEF StateOK
  <2> QED
    BY <1>2, <1>13, <2>1, <2>4, <2>15, <2>16, <2>17, <2>18, <2>19, OwnStep
<1>15. CASE r.base # Rev(cl.worker)
  <2> PICK d : d = [rest EXCEPT !.mut = NoMutation]
    OBVIOUS
  <2>1. client' = [client EXCEPT ![c] = d] /\ UNCHANGED <<post, saw>>
    BY <1>15 DEF AnswerMutation, Update
  <2>2. d = [cl EXCEPT !.inbox = Tail(cl.inbox), !.mut = NoMutation]
    BY <1>1 DEF Runtimes
  <2>3. NoMutation \in Mutations /\ NoMutation.stage = "none"
    BY DEF NoMutation, Mutations
  <2> HIDE DEF cl, r, posted, p
  <2>4. /\ d \in Runtimes
        /\ d.rev = cl.rev /\ d.wrev = cl.wrev /\ d.worker = cl.worker
        /\ d.inbox = Tail(cl.inbox) /\ d.active = 0
        /\ d.mut.stage = "none" /\ d.rec = cl.rec
    <3>1. d \in Runtimes
      BY <1>1, <1>3, <2>2, <2>3, Zenon DEF Runtimes
    <3> QED
      BY <1>1, <1>8, <2>2, <2>3, <3>1 DEF Runtimes
  <2>5. PostOK(c, d) /\ MutationOK(d) /\ RecoveryOK(d)
    BY <1>1, <1>6, <1>8, <2>4 DEF ClientOK, PostOK, MutationOK, RecoveryOK, Owns
  <2>6. InboxOK(d)
    BY <1>1, <1>2, <1>3, <2>4, RestOK DEF ClientOK
  <2>7. WorkerOK(c, d)
    BY <1>3, <1>7, <2>4 DEF WorkerOK
  <2>8. BoundOK(c, d)
    <3>1. \A i \in 1..Len(d.inbox) : d.inbox[i].kind = "event" =>
            d.inbox[i].base <= d.inbox[i].rev /\ StreamFrom(c, d.inbox[i].rev)
      BY <1>3, <1>11, <2>4
    <3>2. d.active <= issued /\ ~(d.wrev > d.rev + 1)
      BY <1>7, <1>9, <1>10, <2>4
    <3> QED
      BY <1>11, <2>4, <3>1, <3>2 DEF BoundOK
  <2>9. ClientOK(c, d) /\ ~Owns(d)
    BY <2>4, <2>5, <2>6, <2>7, <2>8 DEF ClientOK, Owns
  <2>10. conn' \in [Clients -> {"none", "connecting", "open"}]
    BY <1>1, <1>2 DEF StateOK
  <2> QED
    BY <1>2, <2>1, <2>4, <2>9, <2>10, SoundStep
<1> QED
  BY <1>14, <1>15

(* The end of a command without a new request: what OwnStep needs of the   *)
(* variables that stay the same.                                           *)
LEMMA NothingPosted ==
  ASSUME IInv, UNCHANGED <<saw, issued>>
  PROVE  /\ NoPost \in Posts
         /\ saw' \in [Changes -> Contents] /\ \A i \in Changes : saw'[i] = saw[i]
         /\ late \subseteq [op : Changes, base : Nat]
         /\ issued' \in issued..MaxChanges
<1>1. NoPost \in Posts
  BY DEF NoPost, Posts
<1>2. saw' \in [Changes -> Contents] /\ late \subseteq [op : Changes, base : Nat]
  BY DEF IInv, StateOK
<1>3. issued' \in issued..MaxChanges
  BY BoundAssumption DEF IInv, StateOK
<1> QED
  BY <1>1, <1>2, <1>3

(* The reply to a command keeps the invariant. *)
LEMMA CommandReplyKeeps ==
  ASSUME IInv, NEW c \in Clients, CommandReply(c)
  PROVE  IInv'
<1> DEFINE cl == client[c]
           base == post[c].base
<1>1. cl \in Runtimes /\ ClientOK(c, cl) /\ StateOK
  BY DEF IInv, StateOK
<1>2. /\ post[c].stage = "reply"
      /\ post' = [post EXCEPT ![c] = NoPost]
      /\ UNCHANGED <<store, handle, late, stream, conn, saw, issued>>
  BY DEF CommandReply
<1>3. CASE post[c].result = "committed"
  <2> PICK d : d = [cl EXCEPT !.wrev = base + 1, !.rev = base + 1,
                              !.phase = "ready", !.active = 0, !.mut = NoMutation]
    OBVIOUS
  <2>1. client' = [client EXCEPT ![c] = d]
    BY <1>3 DEF CommandReply, Update
  <2>2. /\ cl.mut.stage = "posted" /\ base \in 1..Len(store)
    BY <1>1, <1>2, <1>3 DEF ClientOK, PostOK
  <2>3. NoMutation \in Mutations /\ NoMutation.stage = "none"
    BY DEF NoMutation, Mutations
  <2>4. base + 1 \in Nat /\ base + 1 <= Rev(store) /\ Rev(store) \in Nat
    BY <1>1, <2>2 DEF StateOK, Contents, Rev
  <2> HIDE DEF cl, base
  <2>5. /\ d \in Runtimes
        /\ d.rev = base + 1 /\ d.wrev = base + 1 /\ d.worker = cl.worker
        /\ d.inbox = cl.inbox /\ d.active = 0
        /\ d.mut.stage = "none" /\ d.rec = cl.rec
    <3>1. d \in Runtimes
      BY <1>1, <2>3, <2>4 DEF Runtimes, Phases
    <3> QED
      BY <1>1, <2>3, <3>1 DEF Runtimes
  <2>6. post'[c].stage = "none"
    BY <1>1, <1>2 DEF StateOK, NoPost
  <2>7. PostOK(c, d)' /\ MutationOK(d)'
    BY <2>5, <2>6 DEF PostOK, MutationOK, Owns
  <2>8. RecoveryOK(d)
    BY <1>1, <2>5 DEF ClientOK, RecoveryOK
  <2>9. InboxOK(d)
    <3>1. \A i \in 1..Len(d.inbox) : d.inbox[i].kind # "mutation"
      BY <1>1, <2>2, <2>5 DEF ClientOK, InboxOK
    <3>2. \A i \in 1..Len(d.inbox) : d.inbox[i].kind = "event" =>
            /\ d.inbox[i].rev - 1 \in 1..Len(store)
            /\ d.inbox[i].op = store[d.inbox[i].rev - 1]
      BY <1>1, <2>5 DEF ClientOK, InboxOK
    <3> QED
      BY <3>1, <3>2 DEF InboxOK
  <2>10. BoundOK(c, d)
    <3>1. \A i \in 1..Len(d.inbox) : d.inbox[i].kind = "event" =>
            d.inbox[i].base <= d.inbox[i].rev /\ StreamFrom(c, d.inbox[i].rev)
      BY <1>1, <2>5 DEF ClientOK, BoundOK
    <3>2. /\ d.rev <= Rev(store) /\ d.wrev <= Rev(store) + 1 /\ ~(d.wrev > d.rev + 1)
          /\ d.active <= issued
      BY <1>1, <2>4, <2>5 DEF StateOK
    <3>3. d.rec.tries < MaxStartupAttempts
      BY <1>1, <2>5 DEF ClientOK, BoundOK
    <3> QED
      BY <3>1, <3>2, <3>3 DEF BoundOK
  <2>11. issued \in Nat /\ issued' \in Nat /\ issued <= issued'
    BY <1>1, <1>2 DEF StateOK
  <2>12. RecoveryOK(d)' /\ InboxOK(d)' /\ BoundOK(c, d)'
    BY <1>2, <2>5, <2>8, <2>9, <2>10, <2>11, UngrownParts
  <2>13. WorkerOK(c, d)'
    <3>1. Clean(c, cl)
      BY <1>2, <1>3, <2>2 DEF Clean
    <3>2. cl.worker # None =>
            /\ Had(cl.worker, store)
            /\ \A i \in 1..Len(cl.inbox) :
                 cl.inbox[i].kind = "event" => cl.inbox[i].base + 1 = cl.inbox[i].rev
      BY <1>1, <1>2, <3>1 DEF ClientOK, WorkerOK, Open
    <3>3. store' = store
      BY <1>2
    <3> QED
      BY <2>5, <3>2, <3>3 DEF WorkerOK
  <2>14. ClientOK(c, d)' /\ ~Owns(d)
    BY <2>5, <2>7, <2>12, <2>13 DEF ClientOK, Owns
  <2> QED
    BY <1>2, <2>1, <2>5, <2>14, NothingPosted, OwnStep
<1>4. CASE post[c].result # "committed"
  <2> PICK phase : phase = IF post[c].result = "conflict" THEN "conflict" ELSE cl.phase
    OBVIOUS
  <2> PICK bad : bad = [cl EXCEPT !.phase = phase, !.mut.stage = "recovery"]
    OBVIOUS
  <2> PICK d : d = Recover(bad, "rebuilding")
    OBVIOUS
  <2>1. client' = [client EXCEPT ![c] = d]
    BY <1>1, <1>4 DEF CommandReply, Update, Runtimes
  <2>2. phase \in Phases
    BY <1>1 DEF Runtimes, Phases
  <2>3. d \in Runtimes /\ ClientOK(c, d)' /\ ~Owns(d)
    BY <1>2, <2>2, BadOK
  <2> QED
    BY <1>2, <2>1, <2>3, NothingPosted, OwnStep
<1> QED
  BY <1>3, <1>4

(* A command its browser gives up on may still be committed, as the one    *)
(* that was made.                                                          *)
LEMMA CommandTimesOutKeeps ==
  ASSUME IInv, NEW c \in Clients, CommandTimesOut(c)
  PROVE  IInv'
<1> DEFINE cl == client[c]
           r == [op |-> post[c].op, base |-> post[c].base]
<1> PICK bad : bad = [cl EXCEPT !.phase = cl.phase, !.mut.stage = "recovery"]
  OBVIOUS
<1> PICK d : d = Recover(bad, "rebuilding")
  OBVIOUS
<1>1. cl \in Runtimes /\ ClientOK(c, cl) /\ StateOK
  BY DEF IInv, StateOK
<1>2. /\ post[c].stage # "none"
      /\ post' = [post EXCEPT ![c] = NoPost]
      /\ late' = IF post[c].stage = "request" THEN late \cup {r} ELSE late
      /\ UNCHANGED <<store, handle, stream, conn, saw, issued>>
  BY DEF CommandTimesOut
<1>3. client' = [client EXCEPT ![c] = d]
  <2>1. bad = [cl EXCEPT !.mut.stage = "recovery"]
    BY <1>1 DEF Runtimes
  <2> QED
    BY <2>1 DEF CommandTimesOut, Update
<1>4. cl.phase \in Phases
  BY <1>1 DEF Runtimes
<1>5. /\ d \in Runtimes /\ ClientOK(c, d)' /\ ~Owns(d)
      /\ Owns(client[c]) /\ post[c].op = client[c].mut.op
  BY <1>2, <1>4, BadOK
<1>6. post[c].op \in Changes /\ post[c].base \in Nat
  <2>1. post[c].op \in 1..issued
    BY <1>1, <1>5 DEF ClientOK, MutationOK
  <2> QED
    BY <1>1, <2>1, BoundAssumption DEF StateOK, Posts, Changes
<1>7. r \in [op : Changes, base : Nat] /\ r.op = post[c].op /\ r.base = post[c].base
  BY <1>6
<1>8. ASSUME NEW o, NEW b, RequestOK(o, b) PROVE RequestOK(o, b)'
  BY <1>2, <1>8 DEF RequestOK, Committed, Had, Rev
<1> HIDE DEF r
<1>9. ASSUME NEW s \in late', s \notin late
      PROVE  s = r /\ RequestOK(s.op, s.base)' /\ s.op = client[c].mut.op
  <2>1. s = r /\ post[c].stage = "request"
    BY <1>2, <1>9
  <2>2. RequestOK(post[c].op, post[c].base)
    BY <1>1, <2>1 DEF ClientOK, PostOK
  <2>3. RequestOK(s.op, s.base)
    BY <1>7, <2>1, <2>2
  <2> QED
    BY <1>5, <1>7, <1>8, <2>1, <2>3
<1>10. late' \subseteq [op : Changes, base : Nat]
  BY <1>1, <1>2, <1>7 DEF StateOK
<1>11. \A s \in late' :
         s \in late \/ /\ RequestOK(s.op, s.base)'
                       /\ Owns(client[c]) /\ s.op = client[c].mut.op /\ ~Owns(d)
  BY <1>5, <1>9
<1>12. \A s, t \in late' : s.op = t.op /\ s \notin late /\ t \notin late => s = t
  BY <1>9
<1> QED
  BY <1>2, <1>3, <1>5, <1>10, <1>11, <1>12, NothingPosted, OwnStep

-----------------------------------------------------------------------------
(* The server *)

(* A change leaves the contents before it as they were. *)
LEMMA SubSeqAppended ==
  ASSUME NEW s \in Contents, NEW op \in Changes
  PROVE  /\ SubSeq(Append(s, op), 1, Len(s)) = s
         /\ \A i \in 1..Len(s) : SubSeq(Append(s, op), 1, i - 1) = SubSeq(s, 1, i - 1)
<1>1. s \in Seq(Changes) /\ Len(s) \in Nat
  BY DEF Contents
<1>2. SubSeq(Append(s, op), 1, Len(s)) = s
  BY <1>1
<1>3. ASSUME NEW i \in 1..Len(s)
      PROVE  SubSeq(Append(s, op), 1, i - 1) = SubSeq(s, 1, i - 1)
  BY <1>1
<1> QED
  BY <1>2, <1>3

(* The event of a change, for a browser that listens. *)
Told(c, op) ==
  \/ stream'[c] = stream[c]
  \/ \E e \in Events :
       /\ stream'[c] = Append(stream[c], e)
       /\ e.kind = "patch" =>
            /\ e.base = Rev(store) /\ e.rev = e.base + 1 /\ e.op = op
            /\ store' # store

(* A step of the server keeps the streams sound. *)
LEMMA ToldOK ==
  ASSUME StateOK, StreamOK, NEW op, Grown(op), \A x \in Clients : Told(x, op)
  PROVE  StreamOK'
<1>1. /\ store' \in Contents /\ Len(store) \in Nat /\ Len(store') \in Nat
      /\ Rev(store) = Len(store) + 1
      /\ \A i \in 1..Len(store) : i \in 1..Len(store') /\ store'[i] = store[i]
      /\ store' # store => Len(store') = Len(store) + 1 /\ store'[Len(store) + 1] = op
  <2>1. store' # store => store'[Len(store) + 1] = op
    BY Appended DEF Grown, StateOK
  <2> QED
    BY <2>1, GrownFacts
<1> SUFFICES ASSUME NEW x \in Clients
             PROVE  /\ \A i \in 1..Len(stream'[x]) :
                         LET e == stream'[x][i] IN
                         e.kind = "patch" =>
                           /\ e.rev = e.base + 1
                           /\ e.base \in 1..Len(store') /\ e.op = store'[e.base]
                    /\ \A i, j \in 1..Len(stream'[x]) :
                         /\ i < j
                         /\ stream'[x][i].kind = "patch" /\ stream'[x][j].kind = "patch"
                         => stream'[x][i].base < stream'[x][j].base
  BY DEF StreamOK
<1>2. stream[x] \in Seq(Events) /\ Len(stream[x]) \in Nat
  BY DEF StateOK
<1>3. \A i \in 1..Len(stream[x]) :
        stream[x][i].kind = "patch" =>
          /\ stream[x][i].rev = stream[x][i].base + 1
          /\ stream[x][i].base \in 1..Len(store)
          /\ stream[x][i].op = store[stream[x][i].base]
  BY DEF StreamOK
<1>4. \A i, j \in 1..Len(stream[x]) :
        i < j /\ stream[x][i].kind = "patch" /\ stream[x][j].kind = "patch" =>
          stream[x][i].base < stream[x][j].base
  BY DEF StreamOK
<1>5. CASE stream'[x] = stream[x]
  BY <1>1, <1>3, <1>4, <1>5
<1>6. CASE stream'[x] # stream[x]
  <2>1. PICK e \in Events :
          /\ stream'[x] = Append(stream[x], e)
          /\ e.kind = "patch" =>
               /\ e.base = Rev(store) /\ e.rev = e.base + 1 /\ e.op = op
               /\ store' # store
    BY <1>6 DEF Told
  <2>2. \A i \in 1..Len(stream'[x]) :
          \/ i \in 1..Len(stream[x]) /\ stream'[x][i] = stream[x][i]
          \/ i = Len(stream[x]) + 1 /\ stream'[x][i] = e
    BY <1>2, <2>1
  <2>3. ASSUME NEW i \in 1..Len(stream'[x]), stream'[x][i].kind = "patch"
        PROVE  /\ stream'[x][i].rev = stream'[x][i].base + 1
               /\ stream'[x][i].base \in 1..Len(store')
               /\ stream'[x][i].op = store'[stream'[x][i].base]
    <3>1. CASE i \in 1..Len(stream[x]) /\ stream'[x][i] = stream[x][i]
      <4>1. /\ stream[x][i].rev = stream[x][i].base + 1
            /\ stream[x][i].base \in 1..Len(store)
            /\ stream[x][i].op = store[stream[x][i].base]
        BY <1>3, <2>3, <3>1
      <4> QED
        BY <1>1, <3>1, <4>1
    <3>2. CASE stream'[x][i] = e
      BY <1>1, <2>1, <2>3, <3>2
    <3> QED
      BY <2>2, <3>1, <3>2
  <2>4. ASSUME NEW i \in 1..Len(stream'[x]), NEW j \in 1..Len(stream'[x]), i < j,
               stream'[x][i].kind = "patch", stream'[x][j].kind = "patch"
        PROVE  stream'[x][i].base < stream'[x][j].base
    <3>1. i \in 1..Len(stream[x]) /\ stream'[x][i] = stream[x][i]
      BY <1>2, <2>2, <2>4
    <3>2. CASE j \in 1..Len(stream[x]) /\ stream'[x][j] = stream[x][j]
      BY <1>4, <2>4, <3>1, <3>2
    <3>3. CASE stream'[x][j] = e
      <4>1. stream[x][i].base \in 1..Len(store)
        BY <1>3, <2>4, <3>1
      <4> QED
        BY <1>1, <2>1, <2>4, <3>1, <3>3, <4>1
    <3> QED
      BY <2>2, <3>2, <3>3
  <2> QED
    BY <2>3, <2>4
<1> QED
  BY <1>5, <1>6

(* A step of the server keeps the invariant when the change, if there is   *)
(* one, is a new one, made on the project as it is.                        *)
LEMMA ServerStep ==
  ASSUME IInv, NEW op, Grown(op),
         store' # store => ~Committed(op) /\ op \in 1..issued' /\ saw'[op] = store,
         UNCHANGED <<client, conn>>,
         handle' \in Contents \cup {None}, handle' # None => Had(handle', store'),
         post' \in [Clients -> Posts],
         \A x \in Clients :
           \/ ClientOK(x, client[x])'
           \/ /\ post'[x] = post[x]
              /\ Owns(client[x]) /\ store' # store => op # client[x].mut.op,
         late' \subseteq late, \A r \in late' : store' # store => r.op # op,
         stream' \in [Clients -> Seq(Events)], \A x \in Clients : Told(x, op),
         issued' \in issued..MaxChanges,
         saw' \in [Changes -> Contents], \A i \in 1..issued : saw'[i] = saw[i]
  PROVE  IInv'
<1>1. issued \in Nat /\ issued' \in Nat /\ issued <= issued' /\ issued' \in 0..MaxChanges
  BY BoundAssumption DEF IInv, StateOK
<1>2. /\ store \in Contents
      /\ store' \in Contents /\ Len(store) \in Nat /\ Len(store') \in Nat
      /\ \A i \in 1..Len(store) : i \in 1..Len(store') /\ store'[i] = store[i]
      /\ \A s \in Contents : Had(s, store) => Had(s, store')
      /\ \A n : Committed(n)' => Committed(n) \/ n = op
  BY GrownFacts DEF IInv, StateOK
<1>3. store' # store =>
        /\ op \in Changes /\ store' = Append(store, op)
        /\ Len(store') = Len(store) + 1 /\ store'[Len(store) + 1] = op
  BY <1>2, Appended DEF Grown
<1>4. StateOK'
  BY <1>1, <1>2 DEF IInv, StateOK
<1>5. StreamOK'
  BY ToldOK DEF IInv
<1>6. HandleOK'
  BY DEF HandleOK
<1>7. StoreOK'
  <2>1. CASE store' = store
    <3>1. \A i \in 1..Len(store) : store[i] \in 1..issued'
      BY <1>1 DEF IInv, StoreOK
    <3> QED
      BY <2>1, <3>1 DEF IInv, StoreOK
  <2>2. CASE store' # store
    <3>1. \A i \in 1..Len(store') : i \in 1..Len(store) \/ i = Len(store) + 1
      BY <1>2, <1>3, <2>2
    <3>2. \A i \in 1..Len(store) : store[i] # op
      BY <2>2 DEF Committed
    <3>3. \A i \in 1..Len(store') : store'[i] \in 1..issued'
      BY <1>1, <1>2, <1>3, <2>2, <3>1 DEF IInv, StoreOK
    <3>4. ASSUME NEW i \in 1..Len(store'), NEW j \in 1..Len(store'), store'[i] = store'[j]
          PROVE  i = j
      BY <1>2, <1>3, <2>2, <3>1, <3>2, <3>4 DEF IInv, StoreOK
    <3> QED
      BY <3>3, <3>4 DEF StoreOK
  <2> QED
    BY <2>1, <2>2
<1>8. \A i \in 1..Len(store) : saw'[store[i]] = SubSeq(store, 1, i - 1)
  <2>1. \A i \in 1..Len(store) : store[i] \in 1..issued
    BY DEF IInv, StoreOK
  <2>2. DOMAIN store = 1..Len(store)
    BY <1>2 DEF Contents
  <2> QED
    BY <2>1, <2>2 DEF IInv, AsSeen
<1>9. AsSeen'
  <2> SUFFICES ASSUME NEW i \in 1..Len(store')
               PROVE  saw'[store'[i]] = SubSeq(store', 1, i - 1)
    <3>1. DOMAIN store' = 1..Len(store')
      BY <1>2 DEF Contents
    <3> QED
      BY <3>1 DEF AsSeen
  <2>1. CASE store' = store
    BY <1>8, <2>1
  <2>2. CASE store' # store /\ i \in 1..Len(store)
    <3>1. SubSeq(store', 1, i - 1) = SubSeq(store, 1, i - 1)
      BY <1>2, <1>3, <2>2, SubSeqAppended
    <3>2. store'[i] = store[i]
      BY <1>2, <2>2
    <3> QED
      BY <1>8, <2>2, <3>1, <3>2
  <2>3. CASE store' # store /\ i \notin 1..Len(store)
    <3>1. i = Len(store) + 1 /\ i - 1 = Len(store)
      BY <1>2, <1>3, <2>3
    <3> QED
      BY <1>2, <1>3, <2>3, <3>1, SubSeqAppended
  <2> QED
    BY <2>1, <2>2, <2>3
<1>10. LateOK'
  <2> SUFFICES ASSUME NEW r \in late' PROVE RequestOK(r.op, r.base)'
    BY DEF LateOK
  <2>1. RequestOK(r.op, r.base)
    BY DEF IInv, LateOK
  <2>2. r.op \in 1..issued /\ r.op \in Changes /\ r.op \in 1..issued'
    BY <1>1, <2>1, BoundAssumption DEF RequestOK, Changes
  <2>3. saw'[r.op] = saw[r.op] /\ saw[r.op] \in Contents
    BY <2>2 DEF IInv, StateOK
  <2>4. ~Committed(r.op)'
    <3>1. CASE store' = store
      BY <2>1, <3>1 DEF RequestOK, Committed
    <3>2. CASE store' # store
      BY <1>2, <2>1, <3>2 DEF RequestOK
    <3> QED
      BY <3>1, <3>2
  <2> QED
    BY <1>2, <2>1, <2>2, <2>3, <2>4 DEF RequestOK
<1>11. ASSUME NEW x \in Clients PROVE ClientOK(x, client[x])'
  <2> SUFFICES ASSUME /\ post'[x] = post[x]
                      /\ Owns(client[x]) /\ store' # store => op # client[x].mut.op
               PROVE  ClientOK(x, client[x])'
    OBVIOUS
  <2>1. client[x] \in Runtimes /\ ClientOK(x, client[x]) /\ StateOK /\ client'[x] = client[x]
    BY DEF IInv, StateOK
  <2>2. Heard(x)
    BY DEF Told, Heard
  <2>3. post[x].stage = "request" => saw'[post[x].op] = saw[post[x].op]
    BY <2>1 DEF ClientOK, PostOK, RequestOK
  <2>4. ASSUME NEW cl, cl = client[x] PROVE ClientOK(x, cl)'
    BY <1>1, <2>1, <2>2, <2>3, <2>4, OthersOK
  <2> QED
    BY <2>1, <2>4
<1>12. OwnersOK'
  BY DEF IInv, OwnersOK, Owns
<1> QED
  BY <1>4, <1>5, <1>6, <1>7, <1>9, <1>10, <1>11, <1>12 DEF IInv

(* entryForStore gives a handle with the content of the store. *)
LEMMA EntryIsStore ==
  ASSUME IInv
  PROVE  EntryForStore = store
<1>1. store \in Contents /\ handle \in Contents \cup {None}
  BY DEF IInv, StateOK
<1>2. handle # None /\ Rev(handle) = Rev(store) => handle = store
  BY <1>1, HadSame DEF IInv, HandleOK
<1> QED
  BY <1>2 DEF EntryForStore

(* A handle that is kept has a content the project has had. *)
LEMMA KeepOK ==
  ASSUME IInv, NEW op, Grown(op), NEW entry \in Contents, Had(entry, store'), Keep(entry)
  PROVE  handle' \in Contents \cup {None} /\ (handle' # None => Had(handle', store'))
<1>1. handle \in Contents \cup {None} /\ StateOK
  BY DEF IInv, StateOK
<1>2. \A s \in Contents : Had(s, store) => Had(s, store')
  BY <1>1, GrownFacts
<1>3. CASE handle' = handle
  BY <1>1, <1>2, <1>3 DEF IInv, HandleOK
<1>4. CASE handle' = entry
  BY <1>4
<1> QED
  BY <1>3, <1>4 DEF Keep

(* The event of a commit reaches the streams that are open, and no other. *)
LEMMA PublishOK ==
  ASSUME StateOK, NEW op, NEW e \in Events, Publish(e),
         e.kind = "patch" =>
           e.base = Rev(store) /\ e.rev = e.base + 1 /\ e.op = op /\ store' # store
  PROVE  stream' \in [Clients -> Seq(Events)] /\ \A x \in Clients : Told(x, op)
<1>1. stream \in [Clients -> Seq(Events)]
  BY DEF StateOK
<1>2. CASE stream' = stream
  BY <1>1, <1>2 DEF Told
<1>3. CASE stream' = [c \in Clients |-> IF conn[c] = "open" THEN Append(stream[c], e)
                                        ELSE stream[c]]
  <2>1. \A x \in Clients : stream[x] \in Seq(Events) /\ Append(stream[x], e) \in Seq(Events)
    BY <1>1
  <2>2. \A x \in Clients : stream'[x] = stream[x] \/ stream'[x] = Append(stream[x], e)
    BY <1>3
  <2> QED
    BY <1>3, <2>1, <2>2 DEF Told
<1> QED
  BY <1>2, <1>3 DEF Publish

(* A commit adds the change to the project it was made on, and tells the   *)
(* browsers that listen.                                                   *)
LEMMA CommitFacts ==
  ASSUME IInv, NEW op \in Changes, NEW base, Commit(op, base)
  PROVE  /\ base = Rev(store) /\ Grown(op)
         /\ store' = Append(store, op) /\ store' # store
         /\ handle' \in Contents \cup {None} /\ (handle' # None => Had(handle', store'))
         /\ stream' \in [Clients -> Seq(Events)] /\ \A x \in Clients : Told(x, op)
<1>1. EntryForStore = store /\ StateOK /\ store \in Contents
  BY EntryIsStore DEF IInv, StateOK
<1> DEFINE e == [kind |-> "patch", op |-> op, base |-> base, rev |-> base + 1]
<1>2. /\ base = Rev(store) /\ store' = Append(store, op)
      /\ Keep(Append(store, op)) /\ Publish(e)
  BY <1>1 DEF Commit
<1>3. Append(store, op) \in Contents /\ Len(store') = Len(store) + 1 /\ Rev(store) \in Nat
  BY <1>1, <1>2, Appended
<1>4. Grown(op) /\ store' # store
  <2>1. Len(store) \in Nat
    BY <1>1 DEF Contents
  <2> QED
    BY <1>2, <1>3, <2>1 DEF Grown
<1>5. Had(store', store')
  BY <1>2, <1>3, HadNow
<1>6. handle' \in Contents \cup {None} /\ (handle' # None => Had(handle', store'))
  BY <1>2, <1>3, <1>4, <1>5, KeepOK
<1>7. e \in Events /\ e.base = Rev(store) /\ e.rev = e.base + 1 /\ e.op = op
  BY <1>2, <1>3, BoundAssumption DEF Events, Changes
<1> HIDE DEF e
<1>8. stream' \in [Clients -> Seq(Events)] /\ \A x \in Clients : Told(x, op)
  BY <1>1, <1>2, <1>4, <1>7, PublishOK
<1> QED
  BY <1>2, <1>4, <1>6, <1>8

(* EngineCommandService.execute for one request. *)
LEMMA ExecuteFacts ==
  ASSUME IInv, NEW op \in Changes, NEW base, NEW result, Execute(op, base, result)
  PROVE  /\ Grown(op)
         /\ result = "committed" =>
              base = Rev(store) /\ store' = Append(store, op) /\ store' # store
         /\ result # "committed" => store' = store
         /\ handle' \in Contents \cup {None} /\ (handle' # None => Had(handle', store'))
         /\ stream' \in [Clients -> Seq(Events)] /\ \A x \in Clients : Told(x, op)
<1>1. EntryForStore = store /\ StateOK /\ store \in Contents /\ Had(store, store)
  BY EntryIsStore, HadNow DEF IInv, StateOK
<1>2. CASE result = "committed" /\ Commit(op, base)
  BY <1>2, CommitFacts
<1>3. CASE result # "committed" /\ UNCHANGED <<store, stream>> /\ (Keep(store) \/ handle' = handle)
  <2>1. Grown(op) /\ store' = store
    BY <1>3 DEF Grown
  <2>2. handle' \in Contents \cup {None} /\ (handle' # None => Had(handle', store'))
    <3>1. CASE Keep(store)
      BY <1>1, <2>1, <3>1, KeepOK
    <3>2. CASE handle' = handle
      BY <1>1, <2>1, <3>2 DEF IInv, StateOK, HandleOK
    <3> QED
      BY <1>3, <3>1, <3>2
  <2>3. stream' \in [Clients -> Seq(Events)] /\ \A x \in Clients : Told(x, op)
    BY <1>1, <1>3 DEF StateOK, Told
  <2> QED
    BY <1>3, <2>1, <2>2, <2>3
<1> QED
  BY <1>1, <1>2, <1>3 DEF Execute, Conflict, PersistFails, Refuse

(* A request is committed on what its browser saw. *)
LEMMA RequestSeen ==
  ASSUME IInv, NEW op, NEW base, RequestOK(op, base)
  PROVE  /\ op \in Changes /\ op \in 1..issued /\ ~Committed(op)
         /\ base = Rev(store) => saw[op] = store
<1>1. op \in 1..issued /\ ~Committed(op) /\ Had(saw[op], store) /\ base = Rev(saw[op])
  BY DEF RequestOK
<1>2. op \in Changes
  BY <1>1, BoundAssumption DEF IInv, StateOK, Changes
<1>3. saw[op] \in Contents /\ store \in Contents
  BY <1>2 DEF IInv, StateOK
<1> QED
  BY <1>1, <1>2, <1>3, HadSame

(* The variables that a served request leaves alone. *)
LEMMA ServedSame ==
  ASSUME IInv, UNCHANGED <<saw, issued>>
  PROVE  /\ saw' \in [Changes -> Contents] /\ \A i \in 1..issued : saw'[i] = saw[i]
         /\ issued' \in issued..MaxChanges /\ issued \in Nat
<1>1. saw' \in [Changes -> Contents]
  BY DEF IInv, StateOK
<1>2. issued' \in issued..MaxChanges /\ issued \in Nat
  BY BoundAssumption DEF IInv, StateOK
<1> QED
  BY <1>1, <1>2

(* A served command keeps its browser sound: it is told what was done. *)
LEMMA ServedOK ==
  ASSUME IInv, NEW c \in Clients, post[c].stage = "request",
         NEW result \in {"conflict", "committed", "failed"},
         Execute(post[c].op, post[c].base, result),
         post' = [post EXCEPT ![c].stage = "reply", ![c].result = result],
         UNCHANGED <<saw, issued>>,
         NEW cl, cl = client[c]
  PROVE  ClientOK(c, cl)'
<1>1. cl \in Runtimes /\ ClientOK(c, cl) /\ StateOK /\ StoreOK
  BY DEF IInv, StateOK
<1>2. /\ RequestOK(post[c].op, post[c].base) /\ cl.mut.stage = "posted"
      /\ post[c].op = cl.mut.op /\ post[c].base = cl.mut.base
  BY <1>1 DEF ClientOK, PostOK
<1>3. post[c].op \in Changes
  BY <1>2, RequestSeen
<1>4. /\ Grown(post[c].op)
      /\ result = "committed" =>
           /\ post[c].base = Rev(store) /\ store' = Append(store, post[c].op)
      /\ \A x \in Clients : Told(x, post[c].op)
  BY <1>3, ExecuteFacts
<1>5. Heard(c)
  BY <1>4 DEF Told, Heard
<1>6. issued \in Nat /\ issued' \in Nat /\ issued <= issued'
  BY <1>1 DEF StateOK
<1>7. RecoveryOK(cl)' /\ InboxOK(cl)' /\ BoundOK(c, cl)'
  <2>1. ASSUME NEW o, o = post[c].op PROVE RecoveryOK(cl)' /\ InboxOK(cl)' /\ BoundOK(c, cl)'
    BY <1>1, <1>4, <1>5, <1>6, <2>1, GrownParts
  <2> QED
    BY <2>1
<1>8. /\ post'[c].stage = "reply" /\ post'[c].result = result
      /\ post'[c].op = post[c].op /\ post'[c].base = post[c].base
  BY <1>1 DEF StateOK, Posts
<1>9. MutationOK(cl)'
  BY <1>1, <1>2 DEF ClientOK, MutationOK, Owns
<1>10. result = "committed" =>
         /\ post[c].base \in 1..Len(store') /\ store'[post[c].base] = post[c].op
         /\ store' \in Contents
  <2>1. store \in Contents /\ Len(store) \in Nat
    BY <1>1 DEF StateOK, Contents
  <2>2. /\ Append(store, post[c].op) \in Contents
        /\ Len(Append(store, post[c].op)) = Len(store) + 1
        /\ Append(store, post[c].op)[Len(store) + 1] = post[c].op
    BY <1>3, <2>1, Appended
  <2>3. ASSUME result = "committed"
        PROVE  /\ post[c].base \in 1..Len(store') /\ store'[post[c].base] = post[c].op
               /\ store' \in Contents
    <3>1. store' = Append(store, post[c].op) /\ post[c].base = Len(store) + 1
      BY <1>4, <2>3 DEF Rev
    <3>2. /\ store' \in Contents /\ Len(store') = Len(store) + 1
          /\ store'[Len(store) + 1] = post[c].op
      BY <2>2, <3>1
    <3> QED
      BY <2>1, <3>1, <3>2
  <2> QED
    BY <2>3
<1>11. PostOK(c, cl)'
  BY <1>2, <1>8, <1>10 DEF PostOK
<1>12. WorkerOK(c, cl)'
  <2>1. CASE result = "committed"
    <3>1. Open(c) /\ Clean(c, cl)
      BY <1>2, <1>4, <2>1 DEF Open, Clean
    <3>2. cl.worker # None => cl.worker \in Contents
      BY <1>1, RuntimeFields
    <3>3. \A s \in Contents : Had(s, store) => Had(s, store')
      BY <1>1, <1>4, GrownFacts
    <3>4. Had(store', store') /\ store' = Append(store, cl.mut.op)
      BY <1>2, <1>4, <1>10, <2>1, HadNow
    <3> QED
      BY <1>1, <3>1, <3>2, <3>3, <3>4 DEF ClientOK, WorkerOK
  <2>2. CASE result # "committed"
    BY <1>2, <1>8, <2>2 DEF WorkerOK, Clean, Open
  <2> QED
    BY <2>1, <2>2
<1> QED
  BY <1>7, <1>9, <1>11, <1>12 DEF ClientOK

(* EngineCommandService.execute keeps the invariant. *)
LEMMA ServeCommandKeeps ==
  ASSUME IInv, NEW c \in Clients, ServeCommand(c)
  PROVE  IInv'
<1>1. PICK result \in {"conflict", "committed", "failed"} :
        /\ Execute(post[c].op, post[c].base, result)
        /\ post' = [post EXCEPT ![c].stage = "reply", ![c].result = result]
  BY DEF ServeCommand
<1>2. post[c].stage = "request" /\ UNCHANGED <<client, late, conn, saw, issued>>
  BY DEF ServeCommand
<1> PICK op : op = post[c].op
  OBVIOUS
<1>3. RequestOK(op, post[c].base) /\ Owns(client[c]) /\ op = client[c].mut.op
  BY <1>2 DEF IInv, ClientOK, PostOK, Owns
<1>4. /\ op \in Changes /\ op \in 1..issued /\ ~Committed(op)
      /\ post[c].base = Rev(store) => saw[op] = store
  BY <1>3, RequestSeen
<1>5. /\ Grown(op)
      /\ store' # store => post[c].base = Rev(store)
      /\ handle' \in Contents \cup {None} /\ (handle' # None => Had(handle', store'))
      /\ stream' \in [Clients -> Seq(Events)] /\ \A x \in Clients : Told(x, op)
  BY <1>1, <1>4, ExecuteFacts
<1>6. store' # store => ~Committed(op) /\ op \in 1..issued' /\ saw'[op] = store
  BY <1>2, <1>4, <1>5
<1>7. post \in [Clients -> Posts]
  BY DEF IInv, StateOK
<1>8. post' \in [Clients -> Posts]
  <2>1. [post[c] EXCEPT !.stage = "reply", !.result = result] \in Posts
    BY <1>7 DEF Posts
  <2>2. post' = [post EXCEPT ![c] = [post[c] EXCEPT !.stage = "reply", !.result = result]]
    BY <1>1, <1>7
  <2> QED
    BY <1>7, <2>1, <2>2
<1>9. ASSUME NEW x \in Clients
      PROVE  \/ ClientOK(x, client[x])'
             \/ post'[x] = post[x] /\ (Owns(client[x]) /\ store' # store => op # client[x].mut.op)
  <2>1. CASE x = c
    <3>1. ASSUME NEW cl, cl = client[c] PROVE ClientOK(c, cl)'
      BY <1>1, <1>2, <3>1, ServedOK
    <3> QED
      BY <1>2, <2>1, <3>1
  <2>2. CASE x # c
    <3>1. post'[x] = post[x]
      BY <1>1, <1>7, <2>2
    <3> QED
      BY <1>3, <2>2, <3>1 DEF IInv, OwnersOK
  <2> QED
    BY <2>1, <2>2
<1>10. ASSUME NEW r \in late' PROVE r.op # op
  BY <1>2, <1>3 DEF IInv, OwnersOK
<1>11. late' \subseteq late /\ UNCHANGED <<client, conn>>
  BY <1>2
<1> QED
  BY <1>2, <1>5, <1>6, <1>8, <1>9, <1>10, <1>11, ServedSame, ServerStep

(* A command that arrives late is refused or committed on what its browser *)
(* saw.                                                                    *)
LEMMA ServeLateKeeps ==
  ASSUME IInv, ServeLate
  PROVE  IInv'
<1>1. PICK r \in late :
        /\ late' = late \ {r}
        /\ \E result \in {"conflict", "committed", "failed"} : Execute(r.op, r.base, result)
        /\ UNCHANGED <<client, post, conn, saw, issued>>
  BY DEF ServeLate
<1> PICK op : op = r.op
  OBVIOUS
<1>2. PICK result : Execute(op, r.base, result)
  BY <1>1
<1>3. RequestOK(op, r.base)
  BY DEF IInv, LateOK
<1>4. /\ op \in Changes /\ op \in 1..issued /\ ~Committed(op)
      /\ r.base = Rev(store) => saw[op] = store
  BY <1>3, RequestSeen
<1>5. /\ Grown(op)
      /\ store' # store => r.base = Rev(store)
      /\ handle' \in Contents \cup {None} /\ (handle' # None => Had(handle', store'))
      /\ stream' \in [Clients -> Seq(Events)] /\ \A x \in Clients : Told(x, op)
  BY <1>2, <1>4, ExecuteFacts
<1>6. store' # store => ~Committed(op) /\ op \in 1..issued' /\ saw'[op] = store
  BY <1>1, <1>4, <1>5
<1>7. post' \in [Clients -> Posts] /\ \A x \in Clients : post'[x] = post[x]
  BY <1>1 DEF IInv, StateOK
<1>8. ASSUME NEW x \in Clients, Owns(client[x]) PROVE op # client[x].mut.op
  BY <1>8 DEF IInv, OwnersOK
<1>9. ASSUME NEW s \in late' PROVE s.op # op
  BY <1>1 DEF IInv, OwnersOK
<1>10. late' \subseteq late
  BY <1>1
<1>11. UNCHANGED <<client, conn>> /\ UNCHANGED <<saw, issued>>
  BY <1>1
<1> QED
  BY <1>5, <1>6, <1>7, <1>8, <1>9, <1>10, <1>11, ServedSame, ServerStep

(* A change with a new number concerns no client and no late command. *)
LEMMA NewChange ==
  ASSUME IInv, issued < MaxChanges, issued' = issued + 1,
         NEW op, op = issued + 1, saw' = [saw EXCEPT ![op] = store],
         UNCHANGED <<client, post, late, conn>>
  PROVE  /\ op \in Changes /\ op \in 1..issued' /\ issued' \in issued..MaxChanges
         /\ ~Committed(op) /\ saw'[op] = store
         /\ saw' \in [Changes -> Contents] /\ \A i \in 1..issued : saw'[i] = saw[i]
         /\ \A x \in Clients : Owns(client[x]) => op # client[x].mut.op
         /\ \A r \in late' : r.op # op
         /\ post' \in [Clients -> Posts] /\ \A x \in Clients : post'[x] = post[x]
<1>1. issued \in Nat /\ MaxChanges \in Nat
  BY BoundAssumption DEF IInv, StateOK
<1>2. op \in Changes /\ op \in 1..issued' /\ issued' \in issued..MaxChanges
  BY <1>1 DEF Changes
<1>3. op \notin 1..issued
  BY <1>1
<1>4. ~Committed(op)
  BY <1>3 DEF IInv, StoreOK, Committed
<1>5. saw \in [Changes -> Contents] /\ store \in Contents
  BY DEF IInv, StateOK
<1>6. /\ saw'[op] = store /\ saw' \in [Changes -> Contents]
      /\ \A i \in 1..issued : saw'[i] = saw[i]
  <2>1. \A i \in 1..issued : i \in Changes /\ i # op
    BY <1>1, <1>3 DEF Changes
  <2> QED
    BY <1>2, <1>5, <2>1
<1>7. \A x \in Clients : Owns(client[x]) => op # client[x].mut.op
  BY <1>3 DEF IInv, ClientOK, MutationOK
<1>8. \A r \in late' : r.op # op
  BY <1>3 DEF IInv, LateOK, RequestOK
<1>9. post' \in [Clients -> Posts] /\ \A x \in Clients : post'[x] = post[x]
  BY DEF IInv, StateOK
<1> QED
  BY <1>2, <1>4, <1>6, <1>7, <1>8, <1>9

(* The command of another browser keeps the invariant. *)
LEMMA OtherCommandKeeps ==
  ASSUME IInv, OtherCommand
  PROVE  IInv'
<1> PICK op : op = issued + 1
  OBVIOUS
<1>1. EntryForStore = store
  BY EntryIsStore
<1>2. /\ issued < MaxChanges /\ issued' = issued + 1
      /\ Commit(op, Rev(store)) /\ saw' = [saw EXCEPT ![op] = store]
      /\ UNCHANGED <<client, post, late, conn>>
  BY <1>1 DEF OtherCommand
<1>3. /\ op \in Changes /\ op \in 1..issued' /\ issued' \in issued..MaxChanges
      /\ ~Committed(op) /\ saw'[op] = store
      /\ saw' \in [Changes -> Contents] /\ \A i \in 1..issued : saw'[i] = saw[i]
      /\ \A x \in Clients : Owns(client[x]) => op # client[x].mut.op
      /\ \A r \in late' : r.op # op
      /\ post' \in [Clients -> Posts] /\ \A x \in Clients : post'[x] = post[x]
  BY <1>2, NewChange
<1>4. /\ Grown(op)
      /\ handle' \in Contents \cup {None} /\ (handle' # None => Had(handle', store'))
      /\ stream' \in [Clients -> Seq(Events)] /\ \A x \in Clients : Told(x, op)
  BY <1>2, <1>3, CommitFacts
<1>5. late' \subseteq late /\ UNCHANGED <<client, conn>>
  BY <1>2
<1> QED
  BY <1>3, <1>4, <1>5, ServerStep

(* A change that does not go through the engine keeps the invariant: it    *)
(* leaves the handle behind, whose revision tells.                         *)
LEMMA OtherChangeKeeps ==
  ASSUME IInv, OtherChange
  PROVE  IInv'
<1> PICK op : op = issued + 1
  OBVIOUS
<1> DEFINE e == [kind |-> "invalidated", op |-> op, base |-> Rev(store),
                 rev |-> Rev(store) + 1]
<1>1. /\ issued < MaxChanges /\ issued' = issued + 1
      /\ store' = Append(store, op) /\ saw' = [saw EXCEPT ![op] = store]
      /\ Publish(e) \/ UNCHANGED stream
      /\ UNCHANGED <<handle, client, post, late, conn>>
  BY DEF OtherChange
<1>2. /\ op \in Changes /\ op \in 1..issued' /\ issued' \in issued..MaxChanges
      /\ ~Committed(op) /\ saw'[op] = store
      /\ saw' \in [Changes -> Contents] /\ \A i \in 1..issued : saw'[i] = saw[i]
      /\ \A x \in Clients : Owns(client[x]) => op # client[x].mut.op
      /\ \A r \in late' : r.op # op
      /\ post' \in [Clients -> Posts] /\ \A x \in Clients : post'[x] = post[x]
  BY <1>1, NewChange
<1>3. Grown(op) /\ StateOK /\ store \in Contents
  BY <1>1, <1>2 DEF Grown, IInv, StateOK
<1>4. handle' \in Contents \cup {None} /\ (handle' # None => Had(handle', store'))
  <2>1. \A s \in Contents : Had(s, store) => Had(s, store')
    BY <1>3, GrownFacts
  <2> QED
    BY <1>1, <2>1 DEF IInv, StateOK, HandleOK
<1>5. e \in Events /\ e.kind = "invalidated"
  <2>1. Rev(store) \in Nat /\ op \in Changes
    BY <1>2, <1>3 DEF Rev, Contents
  <2> QED
    BY <2>1 DEF Events
<1> HIDE DEF e
<1>6. stream' \in [Clients -> Seq(Events)] /\ \A x \in Clients : Told(x, op)
  <2>1. CASE Publish(e)
    BY <1>3, <1>5, <2>1, PublishOK
  <2>2. CASE UNCHANGED stream
    BY <1>3, <2>2 DEF StateOK, Told
  <2> QED
    BY <1>1, <2>1, <2>2
<1>7. late' \subseteq late /\ UNCHANGED <<client, conn>>
  BY <1>1
<1> QED
  BY <1>2, <1>3, <1>4, <1>6, <1>7, ServerStep

-----------------------------------------------------------------------------
(* The invariant *)

(* A project that was just opened. *)
LEMMA InitOK == Init => IInv
<1> SUFFICES ASSUME Init PROVE IInv
  OBVIOUS
<1>1. StateOK
  <2>1. NewClient \in Runtimes
    BY NewClientIsRuntime
  <2>2. NoPost \in Posts
    BY DEF NoPost, Posts
  <2>3. <<>> \in Contents /\ <<>> \in Seq(Events)
    BY DEF Contents
  <2>4. client \in [Clients -> Runtimes] /\ post \in [Clients -> Posts]
    BY <2>1, <2>2 DEF Init
  <2>5. /\ stream \in [Clients -> Seq(Events)]
        /\ conn \in [Clients -> {"none", "connecting", "open"}]
        /\ saw \in [Changes -> Contents]
    BY <2>3 DEF Init
  <2>6. issued \in 0..MaxChanges
    BY BoundAssumption DEF Init
  <2> QED
    BY <2>3, <2>4, <2>5, <2>6 DEF StateOK, Init
<1>2. StoreOK /\ HandleOK /\ LateOK /\ AsSeen
  BY DEF Init, StoreOK, HandleOK, LateOK, AsSeen
<1>3. StreamOK
  BY DEF Init, StreamOK
<1>4. ASSUME NEW c \in Clients PROVE ClientOK(c, client[c])
  <2>1. client[c] = NewClient /\ post[c].stage = "none"
    BY DEF Init, NoPost
  <2> QED
    BY <1>1, <2>1, NewClientOK
<1>5. OwnersOK
  BY DEF Init, OwnersOK, Owns, NewClient, NoMutation
<1> QED
  BY <1>1, <1>2, <1>3, <1>4, <1>5 DEF IInv

(* Every step but a restore keeps the invariant. *)
LEMMA StepOK == IInv /\ [Next]_vars /\ ~Restore => IInv'
<1> SUFFICES ASSUME IInv, [Next]_vars, ~Restore PROVE IInv'
  OBVIOUS
<1>1. ASSUME NEW c \in Clients, ClientStep(c) PROVE IInv'
  BY <1>1, StartKeeps, InitializeKeeps, ReadyKeeps, AnswerMutationKeeps,
     AnswerEventKeeps, CommandReplyKeeps, HandleEventKeeps DEF ClientStep
<1>2. ASSUME NEW c \in Clients, NetworkStep(c) PROVE IInv'
  BY <1>2, FetchKeeps, ServeCommandKeeps, ConnectionKeeps DEF NetworkStep
<1>3. ASSUME NEW c \in Clients, UserStep(c) PROVE IInv'
  BY <1>3, MutateKeeps, CanvasKeeps, EvictKeeps, SynchronizeKeeps DEF UserStep
<1>4. ASSUME NEW c \in Clients, FaultStep(c) PROVE IInv'
  BY <1>4, FetchKeeps, LoseWorkerKeeps, CommandTimesOutKeeps, ConnectionKeeps
  DEF FaultStep
<1>5. CASE ServeLate
  BY <1>5, ServeLateKeeps
<1>6. CASE OtherCommand
  BY <1>6, OtherCommandKeeps
<1>7. CASE OtherChange
  BY <1>7, OtherChangeKeeps
<1>8. CASE UNCHANGED vars
  <2>1. StateOK' /\ StoreOK' /\ HandleOK' /\ StreamOK'
    BY <1>8 DEF vars, IInv, StateOK, StoreOK, HandleOK, StreamOK, Had
  <2>2. LateOK' /\ OwnersOK' /\ AsSeen'
    BY <1>8 DEF vars, IInv, LateOK, RequestOK, Committed, Had, Rev, OwnersOK, Owns,
       AsSeen
  <2>3. ASSUME NEW c \in Clients PROVE ClientOK(c, client[c])'
    <3>1. Still /\ UNCHANGED stream /\ client' = client
      BY <1>8 DEF vars, Still
    <3>2. ASSUME NEW d, d = client[c] PROVE ClientOK(c, d)'
      BY <3>1, <3>2, StillOK DEF IInv
    <3> QED
      BY <3>1, <3>2
  <2> QED
    BY <2>1, <2>2, <2>3 DEF IInv
<1> QED
  BY <1>1, <1>2, <1>3, <1>4, <1>5, <1>6, <1>7, <1>8 DEF Next

(* The project has at most as many changes as were issued: no two of them  *)
(* are the same one.                                                       *)
LEMMA StoreBounded ==
  ASSUME IInv
  PROVE  Len(store) <= issued
<1>1. Len(store) \in Nat /\ issued \in Nat
  BY DEF IInv, StateOK, Contents
<1> DEFINE f == [i \in 1..Len(store) |-> store[i]]
<1>2. f \in Injection(1..Len(store), 1..issued)
  BY DEF IInv, StoreOK, Injection, IsInjective
<1>3. /\ IsFiniteSet(1..issued) /\ Cardinality(1..issued) = issued
      /\ Cardinality(1..Len(store)) = Len(store)
  <2>1. \A n \in Nat : IsFiniteSet(1..n) /\ Cardinality(1..n) = n
    <3> SUFFICES ASSUME NEW n \in Nat
                 PROVE  IsFiniteSet(1..n) /\ Cardinality(1..n) = n
      OBVIOUS
    <3>1. 1 \in Int /\ n \in Int
      OBVIOUS
    <3>2. /\ IsFiniteSet(1..n)
          /\ Cardinality(1..n) = IF 1 > n THEN 0 ELSE n - 1 + 1
      BY <3>1, FS_Interval
    <3> QED
      BY <3>2
  <2> QED
    BY <1>1, <2>1
<1> HIDE DEF f
<1>4. Cardinality(1..Len(store)) <= Cardinality(1..issued)
  BY <1>2, <1>3, FS_Injection
<1> QED
  BY <1>3, <1>4

-----------------------------------------------------------------------------
(* Types, also after a restore *)

(* A client and the command it awaits are well formed. *)
Typed(p, cl) ==
  /\ cl \in Runtimes
  /\ cl.active \in 0..MaxChanges
  /\ cl.rec.tries < MaxStartupAttempts
  /\ p.stage # "none" => p.op \in Changes
  /\ p.stage # "none" <=> cl.mut.stage = "posted"
  /\ cl.worker = None => cl.inbox = <<>>
  /\ \A i \in 1..Len(cl.inbox) :
       cl.inbox[i].kind = "mutation" => cl.mut.stage = "worker"
  /\ \A i, j \in 1..Len(cl.inbox) :
       cl.inbox[i].kind = "mutation" /\ cl.inbox[j].kind = "mutation" => i = j

TypeInv ==
  /\ StateOK
  /\ restores \in Nat
  /\ \A c \in Clients : Typed(post[c], client[c])

(* A new client is well formed. *)
LEMMA NewClientTyped == Typed(NoPost, NewClient)
<1>1. /\ NewClient.active = 0 /\ NewClient.rec.tries = 0 /\ NewClient.inbox = <<>>
      /\ NewClient.mut.stage = "none" /\ NoPost.stage = "none"
  BY DEF NewClient, NoMutation, NoRecovery, NoPost
<1>2. NewClient.active \in 0..MaxChanges /\ NewClient.rec.tries < MaxStartupAttempts
  BY <1>1, BoundAssumption
<1>3. 1..Len(NewClient.inbox) = {}
  BY <1>1
<1> QED
  BY <1>1, <1>2, <1>3, NewClientIsRuntime DEF Typed

(* The first state is well formed. *)
LEMMA TypedInit == Init => TypeInv
<1> SUFFICES ASSUME Init PROVE TypeInv
  OBVIOUS
<1>1. StateOK
  BY InitOK DEF IInv
<1>2. restores \in Nat
  BY DEF Init
<1>3. ASSUME NEW c \in Clients PROVE Typed(post[c], client[c])
  <2>1. client[c] = NewClient /\ post[c] = NoPost
    BY DEF Init
  <2> QED
    BY <2>1, NewClientTyped
<1> QED
  BY <1>1, <1>2, <1>3 DEF TypeInv

(* Asking for a recovery keeps a client well formed. *)
LEMMA QuietTyped ==
  ASSUME NEW p, NEW cl, NEW d, Typed(p, cl), Quiet(cl, d)
  PROVE  Typed(p, d)
<1>1. d.rec.tries < MaxStartupAttempts
  BY BoundAssumption DEF Typed, Quiet
<1> QED
  BY <1>1 DEF Typed, Quiet

(* So does the end of the worker. *)
LEMMA DeadTyped ==
  ASSUME NEW p, NEW cl, NEW d, Typed(p, cl), Dead(cl, d)
  PROVE  Typed(p, d)
<1>1. d.rec.tries < MaxStartupAttempts
  BY BoundAssumption DEF Typed, Dead
<1>2. d.active \in 0..MaxChanges
  BY BoundAssumption DEF Dead
<1>3. d.mut.stage = "posted" <=> cl.mut.stage = "posted"
  BY DEF Dead, NoMutation
<1>4. 1..Len(d.inbox) = {}
  BY DEF Dead
<1> QED
  BY <1>1, <1>2, <1>3, <1>4 DEF Typed, Dead

(* So does the end of a recovery. *)
LEMMA RecoveredTyped ==
  ASSUME NEW p, NEW cl, Typed(p, cl)
  PROVE  Typed(p, Recovered(cl))
<1> PICK d : d = Recovered(cl)
  OBVIOUS
<1>1. /\ d \in Runtimes
      /\ d.rec = NoRecovery
      /\ d.mut = IF cl.mut.stage = "recovery" THEN NoMutation ELSE cl.mut
      /\ d.worker = cl.worker /\ d.inbox = cl.inbox /\ d.active = cl.active
  BY RecoveredFields DEF Typed
<1>2. d.rec.tries < MaxStartupAttempts
  BY <1>1, BoundAssumption DEF NoRecovery
<1>3. /\ d.mut.stage = "posted" <=> cl.mut.stage = "posted"
      /\ cl.mut.stage = "worker" => d.mut.stage = "worker"
  BY <1>1 DEF NoMutation
<1> QED
  BY <1>1, <1>2, <1>3 DEF Typed

(* So does a failed attempt of one. *)
LEMMA AttemptFailedTyped ==
  ASSUME NEW p, NEW cl, Typed(p, cl)
  PROVE  Typed(p, AttemptFailed(cl))
<1> PICK dead : dead = Terminate(cl)
  OBVIOUS
<1> PICK d : d = AttemptFailed(cl)
  OBVIOUS
<1>1. cl \in Runtimes /\ cl.rec.tries \in Nat
  BY RuntimeFields DEF Typed, Recoveries
<1>2. Typed(p, dead) /\ dead \in Runtimes
  BY <1>1, TerminateDead, DeadTyped DEF Typed
<1>3. CASE cl.rec.tries + 1 < MaxStartupAttempts
  <2> PICK again : again = [stage |-> "fetch", snap |-> <<>>, tries |-> cl.rec.tries + 1]
    OBVIOUS
  <2>1. again \in Recoveries /\ again.tries < MaxStartupAttempts
    BY <1>1, <1>3 DEF Recoveries, Contents
  <2>2. d = [dead EXCEPT !.rec = again]
    BY <1>3 DEF AttemptFailed
  <2>3. /\ d \in Runtimes /\ d.rec = again
        /\ d.worker = dead.worker /\ d.inbox = dead.inbox
        /\ d.active = dead.active /\ d.mut = dead.mut
    BY <1>2, <2>1, <2>2 DEF Runtimes
  <2> QED
    BY <1>2, <2>1, <2>3 DEF Typed
<1>4. CASE ~(cl.rec.tries + 1 < MaxStartupAttempts)
  <2> PICK done : done = Recovered(dead)
    OBVIOUS
  <2>1. Typed(p, done) /\ done \in Runtimes
    BY <1>2, RecoveredTyped DEF Typed
  <2>2. d = [done EXCEPT !.phase = "failed"]
    BY <1>4 DEF AttemptFailed
  <2>3. /\ d \in Runtimes /\ d.rec = done.rec
        /\ d.worker = done.worker /\ d.inbox = done.inbox
        /\ d.active = done.active /\ d.mut = done.mut
    BY <2>1, <2>2 DEF Runtimes, Phases
  <2> QED
    BY <2>1, <2>3 DEF Typed
<1> QED
  BY <1>3, <1>4

(* A step of one client, and of what it awaits. *)
LEMMA TypedStep ==
  ASSUME TypeInv, NEW c \in Clients, NEW d, NEW p \in Posts, Typed(p, d),
         client' = [client EXCEPT ![c] = d], post' = [post EXCEPT ![c] = p],
         UNCHANGED <<store, handle, restores>>,
         late' \subseteq [op : Changes, base : Nat],
         stream' \in [Clients -> Seq(Events)],
         conn' \in [Clients -> {"none", "connecting", "open"}],
         saw' \in [Changes -> Contents], issued' \in 0..MaxChanges
  PROVE  TypeInv'
<1>1. d \in Runtimes
  BY DEF Typed
<1>2. StateOK'
  BY <1>1 DEF TypeInv, StateOK
<1>3. ASSUME NEW x \in Clients PROVE Typed(post'[x], client'[x])
  <2>1. CASE x = c
    <3>1. post'[x] = p /\ client'[x] = d
      BY <2>1 DEF TypeInv, StateOK
    <3> QED
      BY <3>1
  <2>2. CASE x # c
    <3>1. post'[x] = post[x] /\ client'[x] = client[x]
      BY <2>2 DEF TypeInv, StateOK
    <3> QED
      BY <3>1 DEF TypeInv
  <2> QED
    BY <2>1, <2>2
<1>4. ASSUME NEW x \in Clients PROVE Typed(post[x], client[x])'
  BY <1>3 DEF Typed
<1> QED
  BY <1>2, <1>4 DEF TypeInv

(* A step of one client alone. *)
LEMMA TypedAlone ==
  ASSUME TypeInv, NEW c \in Clients, NEW d, Typed(post[c], d),
         client' = [client EXCEPT ![c] = d],
         UNCHANGED <<store, handle, post, late, saw, issued, restores>>,
         stream' \in [Clients -> Seq(Events)],
         conn' \in [Clients -> {"none", "connecting", "open"}]
  PROVE  TypeInv'
<1>1. /\ post[c] \in Posts /\ post' = [post EXCEPT ![c] = post[c]]
      /\ late' \subseteq [op : Changes, base : Nat]
      /\ saw' \in [Changes -> Contents] /\ issued' \in 0..MaxChanges
  BY DEF TypeInv, StateOK
<1> QED
  BY <1>1, TypedStep

(* A step of the server. *)
LEMMA TypedServer ==
  ASSUME TypeInv, UNCHANGED <<client, conn>>, restores' \in Nat,
         store' \in Contents, handle' \in Contents \cup {None},
         post' \in [Clients -> Posts],
         \A x \in Clients : post'[x].op = post[x].op
                            /\ (post'[x].stage # "none" <=> post[x].stage # "none"),
         late' \subseteq [op : Changes, base : Nat],
         stream' \in [Clients -> Seq(Events)],
         saw' \in [Changes -> Contents], issued' \in 0..MaxChanges
  PROVE  TypeInv'
<1>1. StateOK'
  BY DEF TypeInv, StateOK
<1>2. ASSUME NEW x \in Clients PROVE Typed(post[x], client[x])'
  <2>1. Typed(post[x], client[x]) /\ client'[x] = client[x]
    BY DEF TypeInv
  <2> QED
    BY <2>1 DEF Typed
<1> QED
  BY <1>1, <1>2 DEF TypeInv

(* A step of one client that at most asks for a recovery. *)
LEMMA TypedQuietly ==
  ASSUME TypeInv, NEW c \in Clients, NEW d, Quiet(client[c], d),
         client' = [client EXCEPT ![c] = d],
         UNCHANGED <<store, handle, post, late, conn, saw, issued, restores>>,
         stream' \in [Clients -> Seq(Events)]
  PROVE  TypeInv'
<1>1. Typed(post[c], d)
  BY QuietTyped DEF TypeInv
<1>2. conn' \in [Clients -> {"none", "connecting", "open"}]
  BY DEF TypeInv, StateOK
<1> QED
  BY <1>1, <1>2, TypedAlone

(* activate, synchronizeCanonicalRevision and the canvas. *)
LEMMA AskingTyped ==
  ASSUME TypeInv, NEW c \in Clients,
         Start(c) \/ Hide(c) \/ Show(c) \/ \E r : Synchronize(c, r)
  PROVE  TypeInv'
<1> PICK cl : cl = client[c]
  OBVIOUS
<1>1. cl \in Runtimes /\ stream \in [Clients -> Seq(Events)]
  BY DEF TypeInv, StateOK
<1>2. /\ \A f, g \in BOOLEAN :
           /\ Quiet(cl, [cl EXCEPT !.dirty = f])
           /\ Quiet(cl, [cl EXCEPT !.shown = f])
           /\ Quiet(cl, [cl EXCEPT !.shown = f, !.dirty = g])
      /\ \A e \in Runtimes : /\ Quiet(e, Recover(e, "loading"))
                             /\ Quiet(e, Recover(e, "rebuilding"))
  BY <1>1, FlagsQuiet, RecoverQuiet DEF Phases
<1>3. /\ UNCHANGED <<store, handle, post, late, stream, conn, saw, issued, restores>>
      /\ \E d : client' = [client EXCEPT ![c] = d] /\ Quiet(cl, d)
  <2>1. CASE Start(c)
    <3> PICK e : e = [cl EXCEPT !.dirty = FALSE]
      OBVIOUS
    <3>1. client' = [client EXCEPT ![c] = Recover(e, "loading")]
      BY <2>1 DEF Start, Update
    <3>2. Quiet(cl, e) /\ e \in Runtimes
      BY <1>2 DEF Quiet
    <3>3. Quiet(cl, Recover(e, "loading"))
      BY <1>2, <3>2, QuietTwice
    <3> QED
      BY <2>1, <3>1, <3>3 DEF Start, faults
  <2>2. CASE Hide(c)
    BY <1>2, <2>2 DEF Hide, Update, faults
  <2>3. CASE Show(c)
    <3> PICK e : e = [cl EXCEPT !.shown = TRUE, !.dirty = FALSE]
      OBVIOUS
    <3>1. \/ client' = [client EXCEPT ![c] = Recover(e, "rebuilding")]
          \/ client' = [client EXCEPT ![c] = e]
      BY <2>3 DEF Show, Update
    <3>2. Quiet(cl, e) /\ e \in Runtimes
      BY <1>2 DEF Quiet
    <3>3. Quiet(cl, Recover(e, "rebuilding"))
      BY <1>2, <3>2, QuietTwice
    <3> QED
      BY <2>3, <3>1, <3>2, <3>3 DEF Show, faults
  <2>4. CASE \E r : Synchronize(c, r)
    <3>1. client' = [client EXCEPT ![c] = Recover(cl, "rebuilding")]
      BY <2>4 DEF Synchronize, Update
    <3> QED
      BY <1>1, <1>2, <2>4, <3>1 DEF Synchronize, faults
  <2> QED
    BY <2>1, <2>2, <2>3, <2>4
<1> QED
  BY <1>1, <1>3, TypedQuietly

(* The stages of a recovery, its failures and a lost worker. *)
LEMMA RecoveryTyped ==
  ASSUME TypeInv, NEW c \in Clients,
         \/ ServeSnapshot(c) \/ FetchFails(c) \/ InitializeWorker(c)
         \/ WorkerReady(c) \/ LoseWorker(c)
  PROVE  TypeInv'
<1> PICK cl : cl = client[c]
  OBVIOUS
<1> PICK p : p = post[c]
  OBVIOUS
<1>1. /\ cl \in Runtimes /\ Typed(p, cl) /\ store \in Contents
      /\ stream \in [Clients -> Seq(Events)]
      /\ conn \in [Clients -> {"none", "connecting", "open"}]
  BY DEF TypeInv, StateOK
<1>2. ASSUME NEW dead \in Runtimes, Typed(p, dead), NEW rec \in Recoveries,
             rec.tries = dead.rec.tries
      PROVE  Typed(p, [dead EXCEPT !.rec = rec])
  <2> PICK d : d = [dead EXCEPT !.rec = rec]
    OBVIOUS
  <2>1. /\ d \in Runtimes /\ d.rec = rec /\ d.worker = dead.worker
        /\ d.inbox = dead.inbox /\ d.active = dead.active /\ d.mut = dead.mut
    BY DEF Runtimes
  <2> QED
    BY <1>2, <2>1 DEF Typed
<1>3. Typed(p, Terminate(cl)) /\ Terminate(cl) \in Runtimes
  BY <1>1, TerminateDead, DeadTyped DEF Typed
<1>4. Typed(p, AttemptFailed(cl))
  BY <1>1, AttemptFailedTyped
<1>5. /\ UNCHANGED <<store, handle, post, late, stream, saw, issued, restores>>
      /\ conn' \in [Clients -> {"none", "connecting", "open"}]
      /\ \E d : client' = [client EXCEPT ![c] = d] /\ Typed(p, d)
  <2>1. CASE ServeSnapshot(c)
    <3> PICK rec : rec = [cl.rec EXCEPT !.stage = "snapshot", !.snap = store]
      OBVIOUS
    <3>1. rec \in Recoveries /\ rec.tries = cl.rec.tries
      BY <1>1 DEF Runtimes, Recoveries
    <3>2. client' = [client EXCEPT ![c] = [cl EXCEPT !.rec = rec]]
      BY <1>1, <2>1 DEF ServeSnapshot, Update, Runtimes
    <3> QED
      BY <1>1, <1>2, <2>1, <3>1, <3>2 DEF ServeSnapshot, faults
  <2>2. CASE FetchFails(c)
    BY <1>1, <1>4, <2>2 DEF FetchFails, Update
  <2>3. CASE InitializeWorker(c)
    <3> PICK dead : dead = Terminate(cl)
      OBVIOUS
    <3> PICK rec : rec = [dead.rec EXCEPT !.stage = "worker"]
      OBVIOUS
    <3>1. rec \in Recoveries /\ rec.tries = dead.rec.tries
      BY <1>3 DEF Runtimes, Recoveries
    <3>2. client' = [client EXCEPT ![c] = [dead EXCEPT !.rec = rec]]
      BY <1>3, <2>3 DEF InitializeWorker, Update, Runtimes
    <3> QED
      BY <1>1, <1>2, <1>3, <2>3, <3>1, <3>2 DEF InitializeWorker, faults
  <2>4. CASE WorkerReady(c)
    <3> PICK done : done = Recovered(cl)
      OBVIOUS
    <3> PICK snap : snap = cl.rec.snap
      OBVIOUS
    <3> PICK d : d = [done EXCEPT !.worker = snap, !.wrev = Rev(snap),
                                  !.rev = Rev(snap), !.phase = "ready"]
      OBVIOUS
    <3>1. Typed(p, done) /\ done \in Runtimes
      <4>1. Typed(p, done)
        BY <1>1, RecoveredTyped
      <4> QED
        BY <4>1 DEF Typed
    <3>2. snap \in Contents /\ Rev(snap) \in Nat /\ snap # None
      BY <1>1, NoneIsNoContent DEF Runtimes, Recoveries, Rev, Contents
    <3>3. /\ d \in Runtimes /\ d.rec = done.rec /\ d.worker = snap
          /\ d.inbox = done.inbox /\ d.active = done.active /\ d.mut = done.mut
      BY <3>1, <3>2 DEF Runtimes, Phases
    <3>4. Typed(p, d)
      BY <3>1, <3>2, <3>3 DEF Typed
    <3>5. client' = [client EXCEPT ![c] = d]
      BY <2>4 DEF WorkerReady, Update
    <3>6. conn' \in [Clients -> {"none", "connecting", "open"}]
      BY <1>1, <2>4 DEF WorkerReady
    <3> QED
      BY <2>4, <3>4, <3>5, <3>6 DEF WorkerReady, faults
  <2>5. CASE LoseWorker(c)
    <3>1. Typed(p, Recover(Terminate(cl), "rebuilding"))
      BY <1>3, RecoverQuiet, QuietTyped DEF Phases
    <3> QED
      BY <1>1, <1>3, <1>4, <2>5, <3>1 DEF LoseWorker, Update
  <2> QED
    BY <2>1, <2>2, <2>3, <2>4, <2>5
<1>6. PICK d : client' = [client EXCEPT ![c] = d] /\ Typed(post[c], d)
  BY <1>5
<1>7. stream' \in [Clients -> Seq(Events)]
  BY <1>1, <1>5
<1> QED
  BY <1>5, <1>6, <1>7, TypedAlone

(* The event stream of a browser, and its eviction. *)
LEMMA ConnectionTyped ==
  ASSUME TypeInv, NEW c \in Clients, Connect(c) \/ Disconnect(c) \/ Evict(c)
  PROVE  TypeInv'
<1>1. /\ client \in [Clients -> Runtimes] /\ Typed(post[c], client[c])
      /\ stream \in [Clients -> Seq(Events)]
      /\ conn \in [Clients -> {"none", "connecting", "open"}]
      /\ post[c].stage \in {"none", "request", "reply"}
  BY DEF TypeInv, StateOK, Posts
<1>2. /\ UNCHANGED <<store, handle, post, late, saw, issued, restores>>
      /\ stream' = stream \/ stream' = [stream EXCEPT ![c] = <<>>]
      /\ \E k \in {"none", "connecting", "open"} : conn' = [conn EXCEPT ![c] = k]
  BY DEF Connect, Disconnect, Evict, faults
<1>3. /\ stream' \in [Clients -> Seq(Events)]
      /\ conn' \in [Clients -> {"none", "connecting", "open"}]
  <2>1. <<>> \in Seq(Events)
    OBVIOUS
  <2> QED
    BY <1>1, <1>2, <2>1
<1>4. \E d : client' = [client EXCEPT ![c] = d] /\ Typed(post[c], d)
  <2>1. CASE Connect(c) \/ Disconnect(c)
    <3>1. client' = [client EXCEPT ![c] = client[c]]
      BY <1>1, <2>1 DEF Connect, Disconnect
    <3> QED
      BY <1>1, <3>1
  <2>2. CASE Evict(c)
    <3>1. client' = [client EXCEPT ![c] = NewClient] /\ client[c].mut.stage = "none"
      BY <2>2 DEF Evict, Update
    <3>2. post[c].stage = "none"
      BY <1>1, <3>1 DEF Typed
    <3>3. Typed(post[c], NewClient)
      BY <3>2, NewClientTyped DEF Typed, NoPost
    <3> QED
      BY <3>1, <3>3
  <2> QED
    BY <2>1, <2>2
<1> QED
  BY <1>2, <1>3, <1>4, TypedAlone

(* A committed event is handled. *)
LEMMA HandleEventTyped ==
  ASSUME TypeInv, NEW c \in Clients, HandleEvent(c)
  PROVE  TypeInv'
<1> PICK cl : cl = client[c]
  OBVIOUS
<1> PICK e : e = Head(stream[c])
  OBVIOUS
<1> PICK p : p = post[c]
  OBVIOUS
<1>1. /\ cl \in Runtimes /\ Typed(p, cl)
      /\ stream \in [Clients -> Seq(Events)]
      /\ conn \in [Clients -> {"none", "connecting", "open"}]
  BY DEF TypeInv, StateOK
<1>2. /\ stream[c] # <<>> /\ stream' = [stream EXCEPT ![c] = Tail(stream[c])]
      /\ UNCHANGED <<store, handle, post, late, conn, saw, issued, restores>>
  BY <1>1 DEF HandleEvent, faults
<1>3. e \in Events /\ Tail(stream[c]) \in Seq(Events)
  BY <1>1, <1>2, TailLater
<1>4. /\ stream' \in [Clients -> Seq(Events)]
      /\ conn' \in [Clients -> {"none", "connecting", "open"}]
  BY <1>1, <1>2, <1>3
<1>5. /\ Typed(p, Recover(cl, "rebuilding"))
      /\ Typed(p, EventFailed(cl))
  BY <1>1, RecoverQuiet, EventFailedQuiet, QuietTyped DEF Phases
<1> PICK own : own = [cl EXCEPT !.rev = e.rev, !.phase = "ready"]
  OBVIOUS
<1> PICK r : r = [kind |-> "event", op |-> e.op, base |-> cl.wrev, rev |-> e.rev]
  OBVIOUS
<1> PICK queued : queued = [cl EXCEPT !.inbox = Append(cl.inbox, r)]
  OBVIOUS
<1>6. Typed(p, own)
  <2>1. /\ own \in Runtimes /\ own.rec = cl.rec /\ own.worker = cl.worker
        /\ own.inbox = cl.inbox /\ own.active = cl.active /\ own.mut = cl.mut
    BY <1>1, <1>3 DEF Runtimes, Phases, Events
  <2> QED
    BY <1>1, <2>1 DEF Typed
<1>7. cl.worker # None => Typed(p, queued)
  <2>1. cl.wrev \in Nat /\ cl.inbox \in Seq(Items)
    BY <1>1, RuntimeFields
  <2>2. r \in Items /\ r.kind = "event"
    BY <1>3, <2>1 DEF Items, Events
  <2>3. /\ Append(cl.inbox, r) \in Seq(Items)
        /\ \A i \in 1..Len(Append(cl.inbox, r)) :
             \/ i \in 1..Len(cl.inbox) /\ Append(cl.inbox, r)[i] = cl.inbox[i]
             \/ i = Len(cl.inbox) + 1 /\ Append(cl.inbox, r)[i] = r
    BY <2>1, <2>2, InboxAppended
  <2>4. /\ queued \in Runtimes /\ queued.rec = cl.rec /\ queued.worker = cl.worker
        /\ queued.inbox = Append(cl.inbox, r) /\ queued.active = cl.active
        /\ queued.mut = cl.mut
    BY <1>1, <2>3 DEF Runtimes
  <2>5. \A i \in 1..Len(queued.inbox) : queued.inbox[i].kind = "mutation" =>
          i \in 1..Len(cl.inbox) /\ queued.inbox[i] = cl.inbox[i]
    BY <2>2, <2>3, <2>4
  <2> QED
    BY <1>1, <2>4, <2>5 DEF Typed
<1>8. \E d : client' = [client EXCEPT ![c] = d] /\ Typed(p, d)
  <2>1. CASE e.kind = "invalidated"
    <3>1. client' = [client EXCEPT ![c] = InvalidatedEvent(cl, e)]
      BY <2>1 DEF HandleEvent, Update
    <3>2. Typed(p, InvalidatedEvent(cl, e))
      BY <1>1, <1>5 DEF InvalidatedEvent
    <3> QED
      BY <3>1, <3>2
  <2>2. CASE e.kind # "invalidated"
    <3>1. PICK sameId \in SameId(cl, e), supported \in BOOLEAN :
            client' = [client EXCEPT ![c] = PatchEvent(cl, e, sameId, supported)]
      BY <2>2 DEF HandleEvent, Update
    <3>2. Typed(p, PatchEvent(cl, e, sameId, supported))
      BY <1>1, <1>5, <1>6, <1>7 DEF PatchEvent
    <3> QED
      BY <3>1, <3>2
  <2> QED
    BY <2>1, <2>2
<1> QED
  BY <1>2, <1>4, <1>8, TypedAlone

(* The requests that are left in the inbox of a worker. *)
LEMMA RestTyped ==
  ASSUME NEW p, NEW cl, Typed(p, cl), cl.inbox # <<>>, NEW s, s = Tail(cl.inbox)
  PROVE  /\ s \in Seq(Items) /\ cl.worker \in Contents /\ cl.worker # None
         /\ Head(cl.inbox) \in Items
         /\ Head(cl.inbox).kind = "mutation" => cl.mut.stage = "worker"
         /\ \A i \in 1..Len(s) :
              s[i].kind = "mutation" =>
                cl.mut.stage = "worker" /\ Head(cl.inbox).kind # "mutation"
         /\ \A i, j \in 1..Len(s) :
              s[i].kind = "mutation" /\ s[j].kind = "mutation" => i = j
<1>1. cl \in Runtimes /\ cl.inbox \in Seq(Items)
  BY RuntimeFields DEF Typed
<1>2. /\ Head(cl.inbox) \in Items /\ Head(cl.inbox) = cl.inbox[1]
      /\ 1 \in 1..Len(cl.inbox) /\ s \in Seq(Items)
      /\ \A i \in 1..Len(s) : i + 1 \in 1..Len(cl.inbox) /\ s[i] = cl.inbox[i + 1]
  BY <1>1, InboxTail
<1>3. cl.worker \in Contents /\ cl.worker # None
  BY <1>1, RuntimeFields DEF Typed
<1>4. /\ \A i \in 1..Len(cl.inbox) :
           cl.inbox[i].kind = "mutation" => cl.mut.stage = "worker"
      /\ \A i, j \in 1..Len(cl.inbox) :
           cl.inbox[i].kind = "mutation" /\ cl.inbox[j].kind = "mutation" => i = j
  BY DEF Typed
<1>5. ASSUME NEW i \in 1..Len(s), s[i].kind = "mutation"
      PROVE  cl.mut.stage = "worker" /\ Head(cl.inbox).kind # "mutation"
  <2>1. i + 1 \in 1..Len(cl.inbox) /\ cl.inbox[i + 1].kind = "mutation" /\ i + 1 # 1
    BY <1>2, <1>5
  <2> QED
    BY <1>2, <1>4, <2>1, Zenon
<1>6. ASSUME NEW i \in 1..Len(s), NEW j \in 1..Len(s),
             s[i].kind = "mutation", s[j].kind = "mutation"
      PROVE  i = j
  <2>1. /\ i + 1 \in 1..Len(cl.inbox) /\ cl.inbox[i + 1].kind = "mutation"
        /\ j + 1 \in 1..Len(cl.inbox) /\ cl.inbox[j + 1].kind = "mutation"
    BY <1>2, <1>6
  <2>2. i + 1 = j + 1
    BY <1>4, <2>1, Zenon
  <2> QED
    BY <2>2
<1> QED
  BY <1>2, <1>3, <1>4, <1>5, <1>6

(* A client whose worker has applied its mutation, or a committed patch,   *)
(* and one that is ready at a revision.                                    *)
Applied(cl, w, n, a, m) ==
  [cl EXCEPT !.worker = w, !.wrev = n, !.active = a, !.mut = m]
Played(cl, w, n) == [cl EXCEPT !.worker = w, !.wrev = n]
Ready(cl, n) == [cl EXCEPT !.rev = n, !.phase = "ready"]

(* What two clients have in common that differ in what was received. *)
SameCommand(d, cl) ==
  d.rec = cl.rec /\ d.inbox = cl.inbox /\ d.active = cl.active /\ d.mut = cl.mut

LEMMA AppliedFields ==
  ASSUME NEW cl \in Runtimes, NEW w \in Contents, NEW n \in Nat, NEW a \in Nat,
         NEW m \in Mutations
  PROVE  /\ Applied(cl, w, n, a, m) \in Runtimes
         /\ Applied(cl, w, n, a, m).rec = cl.rec
         /\ Applied(cl, w, n, a, m).worker = w
         /\ Applied(cl, w, n, a, m).inbox = cl.inbox
         /\ Applied(cl, w, n, a, m).active = a
         /\ Applied(cl, w, n, a, m).mut = m
<1> PICK d : d = Applied(cl, w, n, a, m)
  OBVIOUS
<1>1. d \in Runtimes
  BY DEF Runtimes, Applied
<1> QED
  BY <1>1 DEF Runtimes, Applied

LEMMA PlayedFields ==
  ASSUME NEW cl \in Runtimes, NEW w \in Contents, NEW n \in Nat
  PROVE  /\ Played(cl, w, n) \in Runtimes /\ Played(cl, w, n).worker = w
         /\ SameCommand(Played(cl, w, n), cl)
<1> PICK d : d = Played(cl, w, n)
  OBVIOUS
<1>1. d \in Runtimes
  BY DEF Runtimes, Played
<1> QED
  BY <1>1 DEF Runtimes, Played, SameCommand

LEMMA ReadyFields ==
  ASSUME NEW cl \in Runtimes, NEW n \in Nat
  PROVE  /\ Ready(cl, n) \in Runtimes /\ Ready(cl, n).worker = cl.worker
         /\ SameCommand(Ready(cl, n), cl)
<1> PICK d : d = Ready(cl, n)
  OBVIOUS
<1>1. d \in Runtimes
  BY DEF Runtimes, Phases, Ready
<1> QED
  BY <1>1 DEF Runtimes, Ready, SameCommand

(* The worker answers the command made of a committed patch. *)
LEMMA AnswerEventTyped ==
  ASSUME TypeInv, NEW c \in Clients, AnswerEvent(c)
  PROVE  TypeInv'
<1>a. PICK cl : cl = client[c]
  OBVIOUS
<1>b. PICK r : r = Head(cl.inbox)
  OBVIOUS
<1>c. PICK s : s = Tail(cl.inbox)
  OBVIOUS
<1>1. /\ cl \in Runtimes /\ Typed(post[c], cl)
      /\ stream \in [Clients -> Seq(Events)]
      /\ conn \in [Clients -> {"none", "connecting", "open"}]
  BY <1>a DEF TypeInv, StateOK
<1>2. /\ cl.inbox # <<>> /\ r.kind = "event"
      /\ UNCHANGED <<store, handle, post, late, stream, conn, saw, issued, restores>>
  BY <1>a, <1>b DEF AnswerEvent, faults
<1>3. /\ s \in Seq(Items) /\ cl.worker \in Contents /\ cl.worker # None /\ r \in Items
      /\ \A i \in 1..Len(s) : s[i].kind = "mutation" => cl.mut.stage = "worker"
      /\ \A i, j \in 1..Len(s) :
           s[i].kind = "mutation" /\ s[j].kind = "mutation" => i = j
  <2>1. Typed(post[c], cl) /\ cl.inbox # <<>>
    BY <1>1, <1>2
  <2>2. /\ s \in Seq(Items) /\ cl.worker \in Contents /\ cl.worker # None
        /\ Head(cl.inbox) \in Items
        /\ Head(cl.inbox).kind = "mutation" => cl.mut.stage = "worker"
        /\ \A i \in 1..Len(s) :
             s[i].kind = "mutation" =>
               cl.mut.stage = "worker" /\ Head(cl.inbox).kind # "mutation"
        /\ \A i, j \in 1..Len(s) :
             s[i].kind = "mutation" /\ s[j].kind = "mutation" => i = j
    BY <2>1, <1>c, RestTyped, Zenon
  <2> QED
    BY <1>2, <1>b, <2>2
<1>d. PICK w : w = Append(cl.worker, r.op)
  OBVIOUS
<1>e. PICK base : base = r.base + 1
  OBVIOUS
<1>4. w \in Contents /\ w # None /\ base \in Nat /\ r.rev \in Nat
  <2>1. r.op \in Changes /\ base \in Nat /\ r.rev \in Nat
    BY <1>3, <1>e DEF Items
  <2>2. w \in Contents
    BY <1>3, <1>d, <2>1, Appended
  <2> QED
    BY <2>1, <2>2, NoneIsNoContent
<1>f. PICK rest : rest = [cl EXCEPT !.inbox = s]
  OBVIOUS
<1>5. /\ rest \in Runtimes /\ rest.rec = cl.rec /\ rest.worker = cl.worker
      /\ rest.inbox = s /\ rest.active = cl.active /\ rest.mut = cl.mut
  BY <1>1, <1>3, <1>f DEF Runtimes
<1>g. PICK next : next = Played(rest, w, base)
  OBVIOUS
<1>6. next \in Runtimes /\ next.worker = w /\ SameCommand(next, rest)
  BY <1>4, <1>5, <1>g, PlayedFields
<1>h. PICK good : good = Ready(next, r.rev)
  OBVIOUS
<1>7. good \in Runtimes /\ good.worker = w /\ SameCommand(good, rest)
  <2>1. good \in Runtimes /\ good.worker = w /\ SameCommand(good, next)
    BY <1>4, <1>6, <1>h, ReadyFields
  <2> QED
    BY <1>6, <2>1 DEF SameCommand
<1>i. PICK p : p = post[c]
  OBVIOUS
<1>8. Typed(p, rest) /\ Typed(p, next) /\ Typed(p, good)
  <2>1. ASSUME NEW e \in Runtimes, e.rec = cl.rec, e.worker # None,
               e.inbox = s, e.active = cl.active, e.mut = cl.mut
        PROVE  Typed(p, e)
    BY <1>1, <1>3, <1>i, <2>1 DEF Typed
  <2> QED
    BY <1>3, <1>4, <1>5, <1>6, <1>7, <2>1 DEF SameCommand
<1>9. /\ Typed(p, Recover(rest, "rebuilding"))
      /\ Typed(p, Recover(next, "rebuilding"))
  BY <1>5, <1>6, <1>8, RecoverQuiet, QuietTyped DEF Phases
<1>10. \/ client' = [client EXCEPT ![c] = Recover(rest, "rebuilding")]
       \/ client' = [client EXCEPT ![c] = Recover(next, "rebuilding")]
       \/ client' = [client EXCEPT ![c] = good]
  <2>1. /\ rest = [client[c] EXCEPT !.inbox = Tail(@)]
        /\ next = [rest EXCEPT !.worker = Append(@, r.op), !.wrev = r.base + 1]
    BY <1>1, <1>5, <1>a, <1>c, <1>d, <1>e, <1>f, <1>g DEF Runtimes, Played
  <2> QED
    BY <2>1, <1>a, <1>b, <1>h DEF AnswerEvent, Update, Ready
<1>11. /\ stream' \in [Clients -> Seq(Events)]
       /\ conn' \in [Clients -> {"none", "connecting", "open"}]
  BY <1>1, <1>2
<1> QED
  BY <1>2, <1>8, <1>9, <1>10, <1>11, <1>i, TypedAlone

(* A published event is well formed. *)
LEMMA PublishTyped ==
  ASSUME stream \in [Clients -> Seq(Events)], NEW e \in Events, Publish(e)
  PROVE  stream' \in [Clients -> Seq(Events)]
<1>1. \A x \in Clients : stream[x] \in Seq(Events) /\ Append(stream[x], e) \in Seq(Events)
  OBVIOUS
<1> QED
  BY <1>1 DEF Publish

(* mutate up to the request to the worker. *)
LEMMA MutateTyped ==
  ASSUME TypeInv, NEW c \in Clients, Mutate(c)
  PROVE  TypeInv'
<1> PICK cl : cl = client[c]
  OBVIOUS
<1> PICK p : p = post[c]
  OBVIOUS
<1> PICK mut : mut = [stage |-> "worker", op |-> issued + 1, base |-> cl.rev]
  OBVIOUS
<1> PICK r : r = [kind |-> "mutation", op |-> issued + 1, base |-> cl.rev,
                  rev |-> cl.rev + 1]
  OBVIOUS
<1> PICK s : s = Append(cl.inbox, r)
  OBVIOUS
<1> PICK d : d = [cl EXCEPT !.mut = mut, !.inbox = s]
  OBVIOUS
<1>1. /\ cl \in Runtimes /\ Typed(p, cl) /\ StateOK /\ p \in Posts
      /\ post' = [post EXCEPT ![c] = p]
  BY DEF TypeInv, StateOK, Mutate
<1>2. /\ issued < MaxChanges /\ issued' = issued + 1
      /\ cl.mut.stage = "none" /\ cl.worker # None
      /\ UNCHANGED <<store, handle, post, late, stream, conn, saw, restores>>
  BY DEF Mutate, faults
<1>3. client' = [client EXCEPT ![c] = d]
  <2>1. d = [client[c] EXCEPT !.mut = mut, !.inbox = Append(@, r)]
    BY <1>1 DEF Runtimes
  <2> QED
    BY <2>1 DEF Mutate, Update
<1>4. /\ issued + 1 \in Nat /\ issued + 1 \in Changes /\ issued' \in 0..MaxChanges
      /\ cl.rev \in Nat /\ cl.inbox \in Seq(Items)
  BY <1>1, <1>2, RuntimeFields, BoundAssumption DEF StateOK, Changes
<1>5. mut \in Mutations /\ mut.stage = "worker" /\ r \in Items
  BY <1>4 DEF Mutations, Items
<1>6. /\ s \in Seq(Items)
      /\ \A i \in 1..Len(s) : \/ i \in 1..Len(cl.inbox) /\ s[i] = cl.inbox[i]
                             \/ i = Len(cl.inbox) + 1
  BY <1>4, <1>5, InboxAppended
<1>7. \A i \in 1..Len(cl.inbox) : cl.inbox[i].kind # "mutation"
  BY <1>1, <1>2 DEF Typed
<1>8. /\ d \in Runtimes /\ d.rec = cl.rec /\ d.worker = cl.worker
      /\ d.inbox = s /\ d.active = cl.active /\ d.mut = mut
  <2>1. d \in Runtimes
    BY <1>1, <1>5, <1>6, Zenon DEF Runtimes
  <2> QED
    BY <1>1, <2>1 DEF Runtimes
<1>9. \A i, j \in 1..Len(s) : s[i].kind = "mutation" /\ s[j].kind = "mutation" => i = j
  BY <1>6, <1>7
<1>10. Typed(p, d)
  BY <1>1, <1>2, <1>5, <1>8, <1>9 DEF Typed
<1> QED
  BY <1>1, <1>2, <1>3, <1>4, <1>10, TypedStep DEF StateOK

(* The worker answers a mutation. *)
LEMMA AnswerMutationTyped ==
  ASSUME TypeInv, NEW c \in Clients, AnswerMutation(c)
  PROVE  TypeInv'
<1>a. PICK cl : cl = client[c]
  OBVIOUS
<1>b. PICK r : r = Head(cl.inbox)
  OBVIOUS
<1>c. PICK s : s = Tail(cl.inbox)
  OBVIOUS
<1>d. PICK w : w = Append(cl.worker, r.op)
  OBVIOUS
<1>f. PICK rest : rest = [cl EXCEPT !.inbox = s]
  OBVIOUS
<1>1. cl \in Runtimes /\ Typed(post[c], cl) /\ StateOK /\ post[c] \in Posts
  BY <1>a DEF TypeInv, StateOK
<1>2. /\ cl.inbox # <<>> /\ r.kind = "mutation"
      /\ UNCHANGED <<store, handle, late, stream, conn, issued, restores>>
  BY <1>a, <1>b DEF AnswerMutation, faults
<1>3. /\ s \in Seq(Items) /\ cl.worker \in Contents /\ cl.worker # None /\ r \in Items
      /\ cl.mut.stage = "worker"
      /\ \A i \in 1..Len(s) : s[i].kind # "mutation"
  BY <1>1, <1>2, <1>b, <1>c, RestTyped
<1>4. /\ w \in Contents /\ w # None /\ r.op \in Changes /\ r.op \in Nat
      /\ r.op \in 0..MaxChanges /\ r.base \in Nat /\ r.rev \in Nat
  <2>1. r.op \in Changes /\ r.base \in Nat /\ r.rev \in Nat
    BY <1>3 DEF Items
  <2>2. w \in Contents
    BY <1>3, <1>d, <2>1, Appended
  <2>3. w # None
    BY <2>2, NoneIsNoContent
  <2> QED
    BY <2>1, <2>2, <2>3, BoundAssumption DEF Changes
<1>5. /\ rest \in Runtimes /\ rest.rec = cl.rec /\ rest.worker = cl.worker
      /\ rest.inbox = s /\ rest.active = cl.active /\ rest.mut = cl.mut
  BY <1>1, <1>3, <1>f DEF Runtimes
<1>6. rest = [client[c] EXCEPT !.inbox = Tail(@)]
  BY <1>1, <1>a, <1>c, <1>f DEF Runtimes
<1>7. CASE r.base = Rev(cl.worker)
  <2>a. PICK mut : mut = [cl.mut EXCEPT !.stage = "posted"]
    OBVIOUS
  <2>b. PICK p : p = [stage |-> "request", op |-> r.op, base |-> r.base, result |-> "none"]
    OBVIOUS
  <2>c. PICK d : d = Applied(rest, w, r.rev, r.op, mut)
    OBVIOUS
  <2>1. /\ client' = [client EXCEPT ![c] = d]
        /\ post' = [post EXCEPT ![c] = p]
        /\ saw' = [saw EXCEPT ![r.op] = cl.worker]
    <3>1. d = [rest EXCEPT !.worker = Append(@, r.op), !.wrev = r.rev,
                           !.active = r.op, !.mut.stage = "posted"]
      BY <1>1, <1>5, <1>d, <2>a, <2>c DEF Runtimes, Applied
    <3> QED
      BY <1>6, <1>7, <1>a, <1>b, <2>b, <3>1 DEF AnswerMutation, Update
  <2>2. mut \in Mutations /\ mut.stage = "posted"
    BY <1>1, <2>a DEF Runtimes, Mutations
  <2>3. p \in Posts /\ p.stage = "request" /\ p.op = r.op
    BY <1>4, <2>b DEF Posts
  <2>4. /\ d \in Runtimes /\ d.rec = cl.rec /\ d.worker = w
        /\ d.inbox = s /\ d.active = r.op /\ d.mut = mut
    <3>1. /\ d \in Runtimes /\ d.rec = rest.rec /\ d.worker = w
          /\ d.inbox = rest.inbox /\ d.active = r.op /\ d.mut = mut
      BY <1>4, <1>5, <2>2, <2>c, AppliedFields
    <3> QED
      BY <1>5, <3>1
  <2>5. Typed(p, d)
    <3>1. /\ d.active \in 0..MaxChanges /\ d.rec.tries < MaxStartupAttempts
          /\ p.stage # "none" /\ p.op \in Changes /\ d.mut.stage = "posted"
          /\ d.worker # None
      BY <1>1, <1>4, <2>2, <2>3, <2>4 DEF Typed
    <3>2. \A i \in 1..Len(d.inbox) : d.inbox[i].kind # "mutation"
      BY <1>3, <2>4
    <3> QED
      BY <2>4, <3>1, <3>2 DEF Typed
  <2>6. saw' \in [Changes -> Contents]
    BY <1>1, <1>3, <1>4, <2>1 DEF StateOK
  <2> QED
    BY <1>1, <1>2, <2>1, <2>3, <2>5, <2>6, TypedStep DEF StateOK
<1>8. CASE r.base # Rev(cl.worker)
  <2>c. PICK d : d = [rest EXCEPT !.mut = NoMutation]
    OBVIOUS
  <2>1. client' = [client EXCEPT ![c] = d] /\ UNCHANGED <<post, saw>>
    BY <1>6, <1>8, <1>a, <1>b, <2>c DEF AnswerMutation, Update
  <2>2. NoMutation \in Mutations /\ NoMutation.stage = "none"
    BY DEF NoMutation, Mutations
  <2>3. /\ d \in Runtimes /\ d.rec = cl.rec /\ d.worker = cl.worker
        /\ d.inbox = s /\ d.active = cl.active /\ d.mut = NoMutation
    BY <1>5, <2>2, <2>c DEF Runtimes
  <2>4. Typed(post[c], d)
    BY <1>1, <1>3, <2>2, <2>3 DEF Typed
  <2> QED
    BY <1>1, <1>2, <2>1, <2>4, TypedAlone DEF StateOK
<1> QED
  BY <1>7, <1>8

(* A command ends with its reply or with a timeout. *)
LEMMA CommandEndTyped ==
  ASSUME TypeInv, NEW c \in Clients, CommandReply(c) \/ CommandTimesOut(c)
  PROVE  TypeInv'
<1> PICK cl : cl = client[c]
  OBVIOUS
<1> PICK p : p = post[c]
  OBVIOUS
<1>1. cl \in Runtimes /\ Typed(p, cl) /\ StateOK /\ p \in Posts
  BY DEF TypeInv, StateOK
<1>2. /\ p.stage # "none" /\ post' = [post EXCEPT ![c] = NoPost]
      /\ UNCHANGED <<store, handle, stream, conn, saw, issued, restores>>
  BY DEF CommandReply, CommandTimesOut, faults
<1>3. NoPost \in Posts /\ NoPost.stage = "none"
  BY DEF NoPost, Posts
<1>4. cl.mut.stage = "posted" /\ p.op \in Changes /\ p.base \in Nat
  BY <1>1, <1>2 DEF Typed, Posts
<1>5. \A i \in 1..Len(cl.inbox) : cl.inbox[i].kind # "mutation"
  BY <1>1, <1>4 DEF Typed
<1>6. late' \subseteq [op : Changes, base : Nat]
  <2> PICK r : r = [op |-> p.op, base |-> p.base]
    OBVIOUS
  <2>1. r \in [op : Changes, base : Nat]
    BY <1>4
  <2>2. late' = late \/ late' = late \cup {r}
    BY DEF CommandReply, CommandTimesOut
  <2> QED
    BY <1>1, <2>1, <2>2 DEF StateOK
<1>7. ASSUME NEW phase \in Phases, NEW bad,
             bad = [cl EXCEPT !.phase = phase, !.mut.stage = "recovery"]
      PROVE  Typed(NoPost, Recover(bad, "rebuilding"))
  <2> PICK mut : mut = [cl.mut EXCEPT !.stage = "recovery"]
    OBVIOUS
  <2>1. mut \in Mutations /\ mut.stage = "recovery"
    BY <1>1 DEF Runtimes, Mutations
  <2>2. bad = [cl EXCEPT !.phase = phase, !.mut = mut]
    BY <1>1, <1>7 DEF Runtimes
  <2>3. /\ bad \in Runtimes /\ bad.rec = cl.rec /\ bad.worker = cl.worker
        /\ bad.inbox = cl.inbox /\ bad.active = cl.active /\ bad.mut = mut
    BY <1>1, <2>1, <2>2 DEF Runtimes
  <2>4. Typed(NoPost, bad)
    BY <1>1, <1>3, <1>5, <2>1, <2>3 DEF Typed
  <2> QED
    BY <2>3, <2>4, RecoverQuiet, QuietTyped DEF Phases
<1>8. \E d : client' = [client EXCEPT ![c] = d] /\ Typed(NoPost, d)
  <2>1. CASE CommandReply(c) /\ p.result = "committed"
    <3> PICK rev : rev = p.base + 1
      OBVIOUS
    <3> PICK d : d = [cl EXCEPT !.wrev = rev, !.rev = rev, !.phase = "ready",
                                !.active = 0, !.mut = NoMutation]
      OBVIOUS
    <3>1. client' = [client EXCEPT ![c] = d]
      BY <2>1 DEF CommandReply, Update
    <3>2. NoMutation \in Mutations /\ NoMutation.stage = "none" /\ rev \in Nat
      BY <1>4 DEF NoMutation, Mutations
    <3>3. /\ d \in Runtimes /\ d.rec = cl.rec /\ d.worker = cl.worker
          /\ d.inbox = cl.inbox /\ d.active = 0 /\ d.mut = NoMutation
      <4>1. d \in Runtimes
        BY <1>1, <3>2 DEF Runtimes, Phases
      <4> QED
        BY <1>1, <4>1 DEF Runtimes
    <3>4. d.active \in 0..MaxChanges
      BY <3>3, BoundAssumption
    <3>5. Typed(NoPost, d)
      BY <1>1, <1>3, <1>5, <3>2, <3>3, <3>4 DEF Typed
    <3> QED
      BY <3>1, <3>5
  <2>2. CASE CommandReply(c) /\ p.result # "committed"
    <3> PICK phase : phase = IF p.result = "conflict" THEN "conflict" ELSE cl.phase
      OBVIOUS
    <3> PICK bad : bad = [cl EXCEPT !.phase = phase, !.mut.stage = "recovery"]
      OBVIOUS
    <3>1. client' = [client EXCEPT ![c] = Recover(bad, "rebuilding")]
      BY <1>1, <2>2 DEF CommandReply, Update, Runtimes
    <3>2. phase \in Phases
      BY <1>1 DEF Runtimes, Phases
    <3> QED
      BY <1>7, <3>1, <3>2
  <2>3. CASE CommandTimesOut(c)
    <3> PICK bad : bad = [cl EXCEPT !.phase = cl.phase, !.mut.stage = "recovery"]
      OBVIOUS
    <3>1. bad = [cl EXCEPT !.mut.stage = "recovery"] /\ cl.phase \in Phases
      BY <1>1 DEF Runtimes
    <3>2. client' = [client EXCEPT ![c] = Recover(bad, "rebuilding")]
      BY <2>3, <3>1 DEF CommandTimesOut, Update
    <3> QED
      BY <1>7, <3>1, <3>2
  <2> QED
    BY <2>1, <2>2, <2>3
<1> QED
  BY <1>1, <1>2, <1>3, <1>6, <1>8, TypedStep DEF StateOK

(* execute for a request, and the commands and changes of others. *)
LEMMA ExecuteTyped ==
  ASSUME StateOK, NEW op \in Changes, NEW base \in Nat, NEW result,
         Execute(op, base, result) \/ Commit(op, base)
  PROVE  /\ store' \in Contents /\ handle' \in Contents \cup {None}
         /\ stream' \in [Clients -> Seq(Events)]
<1>1. /\ store \in Contents /\ handle \in Contents \cup {None}
      /\ stream \in [Clients -> Seq(Events)]
  BY DEF StateOK
<1>2. EntryForStore \in Contents
  BY <1>1 DEF EntryForStore
<1>3. Append(store, op) \in Contents /\ Append(EntryForStore, op) \in Contents
  BY <1>1, <1>2, Appended
<1>4. CASE Commit(op, base)
  <2> PICK e : e = [kind |-> "patch", op |-> op, base |-> base, rev |-> base + 1]
    OBVIOUS
  <2>1. e \in Events
    BY DEF Events
  <2>2. stream' \in [Clients -> Seq(Events)]
    BY <1>1, <1>4, <2>1, PublishTyped DEF Commit
  <2> QED
    BY <1>1, <1>3, <1>4, <2>2 DEF Commit, Keep
<1>5. CASE Conflict(op, base) \/ PersistFails(op, base) \/ Refuse
  BY <1>1, <1>2, <1>5 DEF Conflict, PersistFails, Refuse, Keep
<1> QED
  BY <1>4, <1>5 DEF Execute

(* The steps of the server. *)
LEMMA ServerTyped ==
  ASSUME TypeInv,
         \/ \E c \in Clients : ServeCommand(c)
         \/ ServeLate \/ OtherCommand \/ OtherChange \/ Restore
  PROVE  TypeInv'
<1>1. /\ StateOK /\ restores \in Nat /\ issued \in 0..MaxChanges
      /\ post \in [Clients -> Posts] /\ store \in Contents
  BY DEF TypeInv, StateOK
<1>2. CASE \E c \in Clients : ServeCommand(c)
  <2>1. PICK c \in Clients : ServeCommand(c)
    BY <1>2
  <2>2. PICK result \in {"conflict", "committed", "failed"} :
          /\ Execute(post[c].op, post[c].base, result)
          /\ post' = [post EXCEPT ![c].stage = "reply", ![c].result = result]
    BY <2>1 DEF ServeCommand
  <2>3. post[c].stage = "request" /\ UNCHANGED <<client, late, conn, saw, issued, restores>>
    BY <2>1 DEF ServeCommand, faults
  <2>4. post[c].op \in Changes /\ post[c].base \in Nat
    <3>1. Typed(post[c], client[c]) /\ post[c] \in Posts
      BY <1>1 DEF TypeInv
    <3> QED
      BY <2>3, <3>1 DEF Typed, Posts
  <2> PICK p : p = [post[c] EXCEPT !.stage = "reply", !.result = result]
    OBVIOUS
  <2>5. p \in Posts /\ p.op = post[c].op /\ p.stage = "reply"
    BY <1>1 DEF Posts
  <2>6. post' = [post EXCEPT ![c] = p]
    BY <1>1, <2>2
  <2>7. /\ post' \in [Clients -> Posts]
        /\ \A x \in Clients : post'[x].op = post[x].op
                              /\ (post'[x].stage # "none" <=> post[x].stage # "none")
    BY <1>1, <2>3, <2>5, <2>6
  <2> QED
    BY <1>1, <2>2, <2>3, <2>4, <2>7, ExecuteTyped, TypedServer DEF StateOK
<1>3. CASE ServeLate
  <2>1. PICK r \in late : /\ late' = late \ {r}
                          /\ \E result : Execute(r.op, r.base, result)
                          /\ UNCHANGED <<client, post, conn, saw, issued, restores>>
    BY <1>3 DEF ServeLate, faults
  <2>2. r.op \in Changes /\ r.base \in Nat
    BY <1>1 DEF StateOK
  <2> QED
    BY <1>1, <2>1, <2>2, ExecuteTyped, TypedServer DEF StateOK
<1>4. CASE OtherCommand
  <2> PICK op : op = issued + 1
    OBVIOUS
  <2>1. op \in Changes /\ issued' \in 0..MaxChanges
    BY <1>1, <1>4, BoundAssumption DEF OtherCommand, Changes
  <2>2. EntryForStore \in Contents /\ Rev(EntryForStore) \in Nat
    BY <1>1 DEF EntryForStore, StateOK, Rev, Contents
  <2>3. saw' \in [Changes -> Contents]
    BY <1>1, <1>4, <2>2 DEF OtherCommand, StateOK
  <2>4. Commit(op, Rev(EntryForStore)) /\ UNCHANGED <<client, post, late, conn, restores>>
    BY <1>4 DEF OtherCommand, faults
  <2> QED
    BY <1>1, <2>1, <2>2, <2>3, <2>4, ExecuteTyped, TypedServer DEF StateOK
<1>5. CASE OtherChange
  <2> PICK op : op = issued + 1
    OBVIOUS
  <2> PICK e : e = [kind |-> "invalidated", op |-> op, base |-> Rev(store),
                    rev |-> Rev(store) + 1]
    OBVIOUS
  <2>1. op \in Changes /\ issued' \in 0..MaxChanges
    BY <1>1, <1>5, BoundAssumption DEF OtherChange, Changes
  <2>2. /\ store' = Append(store, op) /\ saw' = [saw EXCEPT ![op] = store]
        /\ Publish(e) \/ UNCHANGED stream
        /\ UNCHANGED <<handle, client, post, late, conn, restores>>
    BY <1>5 DEF OtherChange, faults
  <2>3. e \in Events
    BY <1>1, <2>1 DEF Events, Rev, Contents
  <2>4. stream' \in [Clients -> Seq(Events)]
    BY <1>1, <2>2, <2>3, PublishTyped DEF StateOK
  <2>5. store' \in Contents /\ saw' \in [Changes -> Contents]
    BY <1>1, <2>1, <2>2, Appended DEF StateOK
  <2> QED
    BY <1>1, <2>1, <2>2, <2>4, <2>5, TypedServer DEF StateOK
<1>6. CASE Restore
  <2>1. /\ restores' = restores + 1 /\ \E n \in 0..(Len(store) - 1) : store' = SubSeq(store, 1, n)
        /\ UNCHANGED <<handle, client, post, late, stream, conn, saw, issued>>
    BY <1>6 DEF Restore
  <2>2. store' \in Contents
    BY <1>1, <2>1 DEF Contents
  <2> QED
    BY <1>1, <2>1, <2>2, TypedServer DEF StateOK
<1> QED
  BY <1>2, <1>3, <1>4, <1>5, <1>6

(* Every step keeps the store, the clients and the network well formed,    *)
(* and only a restore counts.                                              *)
LEMMA TypedNext == TypeInv /\ [Next]_vars => TypeInv'
<1> SUFFICES ASSUME TypeInv, [Next]_vars PROVE TypeInv'
  OBVIOUS
<1>1. ASSUME NEW c \in Clients, ClientStep(c) PROVE TypeInv'
  BY <1>1, AskingTyped, RecoveryTyped, AnswerMutationTyped, AnswerEventTyped,
     CommandEndTyped, HandleEventTyped DEF ClientStep
<1>2. ASSUME NEW c \in Clients, NetworkStep(c) PROVE TypeInv'
  BY <1>2, RecoveryTyped, ServerTyped, ConnectionTyped DEF NetworkStep
<1>3. ASSUME NEW c \in Clients, UserStep(c) PROVE TypeInv'
  BY <1>3, MutateTyped, AskingTyped, ConnectionTyped DEF UserStep
<1>4. ASSUME NEW c \in Clients, FaultStep(c) PROVE TypeInv'
  BY <1>4, RecoveryTyped, CommandEndTyped, ConnectionTyped DEF FaultStep
<1>5. CASE ServeLate \/ OtherCommand \/ OtherChange \/ Restore
  BY <1>5, ServerTyped
<1>6. CASE UNCHANGED vars
  BY <1>6 DEF vars, TypeInv, StateOK, Typed
<1> QED
  BY <1>1, <1>2, <1>3, <1>4, <1>5, <1>6 DEF Next

(* Only a restore counts. *)
LEMMA RestoresCounted ==
  ASSUME [Next]_vars, ~Restore
  PROVE  restores' = restores
<1>1. ASSUME NEW c \in Clients, ClientStep(c) PROVE restores' = restores
  BY <1>1 DEF ClientStep, Start, InitializeWorker, WorkerReady, AnswerMutation,
     AnswerEvent, CommandReply, HandleEvent, faults
<1>2. ASSUME NEW c \in Clients, NetworkStep(c) PROVE restores' = restores
  BY <1>2 DEF NetworkStep, ServeSnapshot, ServeCommand, Connect, faults
<1>3. ASSUME NEW c \in Clients, UserStep(c) PROVE restores' = restores
  BY <1>3 DEF UserStep, Mutate, Hide, Show, Evict, Synchronize, faults
<1>4. ASSUME NEW c \in Clients, FaultStep(c) PROVE restores' = restores
  BY <1>4 DEF FaultStep, FetchFails, LoseWorker, CommandTimesOut, Disconnect
<1>5. CASE ServeLate \/ OtherCommand \/ OtherChange
  BY <1>5 DEF ServeLate, OtherCommand, OtherChange, faults
<1>6. CASE UNCHANGED vars
  BY <1>6 DEF vars
<1> QED
  BY <1>1, <1>2, <1>3, <1>4, <1>5, <1>6 DEF Next

(* The types hold always, and until a restore the invariant does. *)
LEMMA Inductive == Spec => [](TypeInv /\ (restores = 0 => IInv))
<1>1. Init => TypeInv /\ (restores = 0 => IInv)
  BY TypedInit, InitOK
<1>2. TypeInv /\ (restores = 0 => IInv) /\ [Next]_vars
        => (TypeInv /\ (restores = 0 => IInv))'
  <2> SUFFICES ASSUME TypeInv, restores = 0 => IInv, [Next]_vars
               PROVE  TypeInv' /\ (restores' = 0 => IInv')
    OBVIOUS
  <2>1. CASE Restore
    <3>1. restores' # 0
      BY <2>1 DEF Restore, TypeInv
    <3> QED
      BY <3>1, TypedNext
  <2>2. CASE ~Restore
    BY <2>2, StepOK, TypedNext, RestoresCounted
  <2> QED
    BY <2>1, <2>2
<1> QED
  BY <1>1, <1>2, PTL DEF Spec

(* The store, the kept handle, the clients and their workers, the requests *)
(* and the connections keep their types, also after a restore; until one   *)
(* revisions stay within the bound of the optimistic change; a browser     *)
(* awaits a reply exactly while its mutation is posted (mutate).           *)
THEOREM TypeCorrect == Spec => []TypeOK
<1>1. TypeInv /\ (restores = 0 => IInv) => TypeOK
  <2> SUFFICES ASSUME TypeInv, restores = 0 => IInv PROVE TypeOK
    OBVIOUS
  <2>1. store \in Contents /\ handle \in Contents \cup {None}
    BY DEF TypeInv, StateOK
  <2>2. ASSUME NEW c \in Clients
        PROVE  /\ client[c].phase \in Phases
               /\ client[c].rev \in Nat /\ client[c].wrev \in Nat
               /\ client[c].worker \in Contents \cup {None}
               /\ client[c].active \in 0..MaxChanges
               /\ client[c].mut.stage \in {"none", "worker", "posted", "recovery"}
               /\ client[c].rec.stage \in {"none", "fetch", "snapshot", "worker"}
               /\ client[c].rec.tries < MaxStartupAttempts
               /\ post[c].stage \in {"none", "request", "reply"}
               /\ conn[c] \in {"none", "connecting", "open"}
               /\ post[c].stage # "none" <=> client[c].mut.stage = "posted"
    <3>1. client[c] \in Runtimes /\ Typed(post[c], client[c])
      BY DEF TypeInv, StateOK
    <3>2. /\ client[c].phase \in Phases
          /\ client[c].mut.stage \in {"none", "worker", "posted", "recovery"}
          /\ client[c].rec.stage \in {"none", "fetch", "snapshot", "worker"}
      BY <3>1 DEF Runtimes, Mutations, Recoveries
    <3>3. /\ client[c].rev \in Nat /\ client[c].wrev \in Nat
          /\ client[c].worker \in Contents \cup {None}
      BY <3>1, RuntimeFields
    <3>4. /\ post[c].stage \in {"none", "request", "reply"}
          /\ conn[c] \in {"none", "connecting", "open"}
      BY DEF TypeInv, StateOK, Posts
    <3> QED
      BY <3>1, <3>2, <3>3, <3>4 DEF Typed
  <2>3. ASSUME restores = 0, NEW c \in Clients
        PROVE  client[c].rev \in Revs /\ client[c].wrev \in Revs
    <3>1. Len(store) \in Nat /\ Rev(store) = Len(store) + 1 /\ Len(store) <= MaxChanges
      <4>1. Len(store) <= issued /\ issued \in 0..MaxChanges
        BY <2>3, StoreBounded DEF TypeInv, StateOK
      <4> QED
        BY <2>1, <4>1, BoundAssumption DEF Contents, Rev
    <3>2. client[c].rev <= Rev(store) /\ client[c].wrev <= Rev(store) + 1
      BY <2>3 DEF IInv, ClientOK, BoundOK
    <3> QED
      BY <2>2, <3>1, <3>2, BoundAssumption DEF Revs
  <2> QED
    BY <2>1, <2>2, <2>3 DEF TypeOK
<1> QED
  BY <1>1, Inductive, PTL

-----------------------------------------------------------------------------
(* The theorems *)

(* The server dispatches a command on the persisted project until a backup *)
(* is restored: the kept handle whose revision is the store's has the      *)
(* content of the store, after failed persists, late commands and changes  *)
(* from elsewhere that need not be published (entryForStore, execute).     *)
THEOREM HandleIsCurrent == Spec => []HandleIsStore
<1>1. (restores = 0 => IInv) => HandleIsStore
  <2> SUFFICES ASSUME IInv, handle # None, Rev(handle) = Rev(store)
               PROVE  handle = store
    BY DEF HandleIsStore
  <2>1. handle \in Contents /\ store \in Contents /\ Had(handle, store)
    BY DEF IInv, StateOK, HandleOK
  <2> QED
    BY <2>1, HadSame
<1> QED
  BY <1>1, Inductive, PTL

(* Optimistic concurrency: until a backup is restored every change was     *)
(* committed to exactly the topology its browser made it on, for any       *)
(* number of browsers, late requests, interleavings and changes from       *)
(* elsewhere (EngineCommandService.execute).                               *)
THEOREM ChangesAreAsSeen == Spec => []CommittedAsSeen
<1>1. (restores = 0 => IInv) => CommittedAsSeen
  BY DEF IInv, CommittedAsSeen
<1> QED
  BY <1>1, Inductive, PTL

(* Between its mutations and recoveries a browser shows a topology the     *)
(* project has had, until a backup is restored: a refused or mistaken      *)
(* command leaves no trace in its worker (mutate, applyCommittedResponse,  *)
(* rebuild).                                                               *)
THEOREM WorkersAreExplained == Spec => []WorkerExplained
<1>1. (restores = 0 => IInv) => WorkerExplained
  <2> SUFFICES ASSUME IInv, NEW c \in Clients, client[c].worker # None,
                      client[c].mut.stage = "none"
               PROVE  IsPrefix(client[c].worker, store)
    BY DEF WorkerExplained, Explained
  <2>1. ClientOK(c, client[c]) /\ client[c] \in Runtimes /\ store \in Contents
    BY DEF IInv, StateOK
  <2>2. client[c].worker \in Contents
    BY <2>1, RuntimeFields
  <2>3. Had(client[c].worker, store)
    BY <2>1 DEF ClientOK, WorkerOK, Clean
  <2> QED
    BY <2>1, <2>2, <2>3, HadIsPrefix
<1> QED
  BY <1>1, Inductive, PTL

=============================================================================
