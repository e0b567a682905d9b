----------------------------- MODULE EngineSync -----------------------------
(***************************************************************************)
(* One project edited by several browsers.  Each browser keeps a worker    *)
(* with its own copy of the project and applies a command there first      *)
(* (DomainEngineClient.mutate); the server applies the same command to the *)
(* engine handle it keeps for the store and persists the patch             *)
(* (EngineCommandService.execute); commits reach the other browsers over   *)
(* the event stream of the EngineSseHub, whose events the                  *)
(* CanvasRuntimeManager gives to the client.                               *)
(*                                                                         *)
(* The content of a project is its topology: the sequence of the changes   *)
(* that made it, so its revision is the length plus one; revision 0 stands *)
(* for null.  Its name is left out.  A rename changes neither the revision *)
(* nor the topology and publishes nothing, so a kept handle and a worker   *)
(* may have an older name at the same revision.                            *)
(* Request ids are counted by every client from 1 and taken by queries     *)
(* too, so the id of another browser's command may equal one's own: that   *)
(* comparison is a choice.                                                 *)
(*                                                                         *)
(* Scoped says which URL the browsers use.  With a project and workspace   *)
(* in the query, scopedStore makes a new store object for every request,   *)
(* with listeners and an engine handle of its own.                         *)
(***************************************************************************)
EXTENDS Integers, Sequences, SequencesExt, FiniteSets

CONSTANTS Clients,            \* the browsers
          Editors,            \* the browsers whose users edit
          Switching,          \* the browsers that leave the canvas
          Scoped,             \* requests carry a project and a workspace
          MaxStartupAttempts, \* snapshot attempts of one recovery
          MaxChanges,         \* bound: commands and other changes issued
          MaxFaults           \* bound: requests given up on, workers lost,
                              \* event streams broken and backups restored

ASSUME BoundAssumption ==
  /\ Editors \subseteq Clients
  /\ Switching \subseteq Clients
  /\ Scoped \in BOOLEAN
  /\ MaxStartupAttempts \in Nat \ {0}
  /\ MaxChanges \in Nat
  /\ MaxFaults \in Nat

VARIABLES store,   \* the persisted project
          handle,  \* the engine handle of the unscoped store
          client,  \* the DomainEngineClient and its worker, per browser
          post,    \* the command a browser awaits: request or reply
          late,    \* commands whose browser gave up, still on their way
          stream,  \* committed events on their way to a browser
          conn,    \* the EventSource of a browser
          saw,     \* the content a command was made on (history)
          issued, restores, timeouts, losses, drops

vars == <<store, handle, client, post, late, stream, conn, saw, issued,
          restores, timeouts, losses, drops>>
faults == <<restores, timeouts, losses, drops>>
FaultsLeft == restores + timeouts + losses + drops < MaxFaults
server == <<store, handle>>

Changes == 1..MaxChanges
None == <<0>>   \* no handle, no worker: 0 is not a change
Rev(content) == Len(content) + 1
NoMutation == [stage |-> "none", op |-> 0, base |-> 0]
NoRecovery == [stage |-> "none", snap |-> <<>>, tries |-> 0]
NoPost == [stage |-> "none", op |-> 0, base |-> 0, result |-> "none"]

(* createEntry, before the first start. *)
NewClient == [phase |-> "idle", rev |-> 0, wrev |-> 0, worker |-> None,
              inbox |-> <<>>, active |-> 0, mut |-> NoMutation,
              rec |-> NoRecovery, shown |-> TRUE, dirty |-> FALSE]

Init ==
  /\ store = <<>>
  /\ handle = None
  /\ client = [c \in Clients |-> NewClient]
  /\ post = [c \in Clients |-> NoPost]
  /\ late = {}
  /\ stream = [c \in Clients |-> <<>>]
  /\ conn = [c \in Clients |-> "none"]
  /\ saw = [i \in Changes |-> <<>>]
  /\ issued = 0
  /\ restores = 0
  /\ timeouts = 0
  /\ losses = 0
  /\ drops = 0

-----------------------------------------------------------------------------
(* The client: recovery and its worker *)

(* recover joins a recovery that runs already; a new one sets the phase. *)
Recover(cl, phase) ==
  IF cl.rec.stage # "none" THEN cl
  ELSE [cl EXCEPT !.phase = phase,
                  !.rec = [stage |-> "fetch", snap |-> <<>>, tries |-> 0]]

(* What applyPatchEvent does with a rejected applyCommittedResponse. *)
EventFailed(cl) ==
  IF cl.shown THEN Recover(cl, "rebuilding") ELSE [cl EXCEPT !.dirty = TRUE]

(* terminateWorker rejects what the worker has not answered: a mutation    *)
(* ends with that error, an event is reported to its handler.              *)
Terminate(cl) ==
  LET dead == [cl EXCEPT !.worker = None, !.wrev = 0, !.active = 0,
                         !.inbox = <<>>,
                         !.mut = IF @.stage = "worker" THEN NoMutation ELSE @]
  IN IF \E i \in DOMAIN cl.inbox : cl.inbox[i].kind = "event"
       THEN EventFailed(dead) ELSE dead

(* The end of a recovery, which a failed mutation may be waiting for. *)
Recovered(cl) ==
  [cl EXCEPT !.rec = NoRecovery,
             !.mut = IF @.stage = "recovery" THEN NoMutation ELSE @]

(* performRecovery, the catch block of one attempt. *)
AttemptFailedQuietly(cl) ==
  LET dead == Terminate(cl) IN
  IF cl.rec.tries + 1 < MaxStartupAttempts
    THEN [dead EXCEPT !.rec = [stage |-> "fetch", snap |-> <<>>,
                               tries |-> cl.rec.tries + 1]]
    ELSE [dead EXCEPT !.rec = NoRecovery, !.phase = "failed"]

AttemptFailed(cl) ==
  LET dead == Terminate(cl) IN
  IF cl.rec.tries + 1 < MaxStartupAttempts
    THEN [dead EXCEPT !.rec = [stage |-> "fetch", snap |-> <<>>,
                               tries |-> cl.rec.tries + 1]]
    ELSE [Recovered(dead) EXCEPT !.phase = "failed"]

Update(c, cl) == client' = [client EXCEPT ![c] = cl]

(* activate: the first activation, or a retry of a failed runtime. *)
Start(c) ==
  /\ client[c].phase \in {"idle", "failed"}
  /\ client[c].shown
  /\ client[c].rec.stage = "none"
  /\ Update(c, Recover([client[c] EXCEPT !.dirty = FALSE], "loading"))
  /\ UNCHANGED <<store, handle, post, late, stream, conn, saw, issued, faults>>

(* fetchSnapshot at the server. *)
ServeSnapshot(c) ==
  /\ client[c].rec.stage = "fetch"
  /\ Update(c, [client[c] EXCEPT !.rec.stage = "snapshot",
                                 !.rec.snap = store])
  /\ UNCHANGED <<store, handle, post, late, stream, conn, saw, issued, faults>>

(* fetchSnapshot fails or times out at the browser. *)
FetchFails(c) ==
  /\ client[c].rec.stage \in {"fetch", "snapshot"}
  /\ FaultsLeft
  /\ timeouts' = timeouts + 1
  /\ Update(c, AttemptFailed(client[c]))
  /\ UNCHANGED <<store, handle, post, late, stream, conn, saw, issued,
                 restores, losses, drops>>

(* initializeWorker: the old worker goes, the new one gets the snapshot. *)
InitializeWorker(c) ==
  /\ client[c].rec.stage = "snapshot"
  /\ Update(c, [Terminate(client[c]) EXCEPT !.rec.stage = "worker"])
  /\ UNCHANGED <<store, handle, post, late, stream, conn, saw, issued, faults>>

(* The worker's ready message ends the recovery; the manager opens the     *)
(* event stream of a client that becomes ready for the first time.         *)
WorkerReady(c) ==
  LET snap == client[c].rec.snap IN
  /\ client[c].rec.stage = "worker"
  /\ Update(c, [Recovered(client[c]) EXCEPT !.worker = snap,
                  !.wrev = Rev(snap), !.rev = Rev(snap), !.phase = "ready"])
  /\ conn' = [conn EXCEPT ![c] = IF @ = "none" THEN "connecting" ELSE @]
  /\ UNCHANGED <<store, handle, post, late, stream, saw, issued, faults>>

(* worker.onerror, or the timeout of a request to it: a ready client       *)
(* recovers; during initialization the attempt fails.                      *)
LoseWorker(c) ==
  LET cl == client[c] IN
  /\ FaultsLeft
  /\ cl.worker # None \/ cl.rec.stage = "worker"
  /\ losses' = losses + 1
  /\ Update(c, IF cl.rec.stage = "worker" THEN AttemptFailed(cl)
               ELSE IF cl.phase = "ready" THEN Recover(Terminate(cl), "rebuilding")
               ELSE Terminate(cl))
  /\ UNCHANGED <<store, handle, post, late, stream, conn, saw, issued,
                 restores, timeouts, drops>>

-----------------------------------------------------------------------------
(* The client: its own commands *)

(* mutate up to the request to the worker. *)
Mutate(c) ==
  LET cl == client[c] IN
  /\ c \in Editors
  /\ issued < MaxChanges
  /\ cl.mut.stage = "none"
  /\ cl.phase = "ready"
  /\ cl.wrev = cl.rev
  /\ cl.worker # None
  /\ issued' = issued + 1
  /\ Update(c, [cl EXCEPT
       !.mut = [stage |-> "worker", op |-> issued + 1, base |-> cl.rev],
       !.inbox = Append(@, [kind |-> "mutation", op |-> issued + 1,
                            base |-> cl.rev, rev |-> cl.rev + 1])])
  /\ UNCHANGED <<store, handle, post, late, stream, conn, saw, faults>>

(* The worker answers a mutation.  The command is sent to the server when  *)
(* the worker applied it; a stale base revision ends the mutation.         *)
AnswerMutation(c) ==
  LET cl == client[c]
      r  == Head(cl.inbox)
      rest == [cl EXCEPT !.inbox = Tail(@)]
  IN /\ cl.inbox # <<>> /\ r.kind = "mutation"
     /\ IF r.base = Rev(cl.worker)
          THEN /\ Update(c, [rest EXCEPT !.worker = Append(@, r.op),
                               !.wrev = r.rev, !.active = r.op,
                               !.mut.stage = "posted"])
               /\ post' = [post EXCEPT ![c] = [stage |-> "request",
                            op |-> r.op, base |-> r.base, result |-> "none"]]
               /\ saw' = [saw EXCEPT ![r.op] = cl.worker]
          ELSE /\ Update(c, [rest EXCEPT !.mut = NoMutation])
               /\ UNCHANGED <<post, saw>>
     /\ UNCHANGED <<store, handle, late, stream, conn, issued, faults>>

(* The reply to a command: the revisions are set to the committed one, or  *)
(* the worker is rebuilt and the mutation fails when that is over.         *)
CommandReplyIgnored(c) ==
  LET cl == client[c] IN
  /\ post[c].stage = "reply"
  /\ post' = [post EXCEPT ![c] = NoPost]
  /\ Update(c, [cl EXCEPT !.active = 0, !.mut = NoMutation])
  /\ UNCHANGED <<store, handle, late, stream, conn, saw, issued, faults>>

CommandReply(c) ==
  LET cl == client[c]
      done == [cl EXCEPT !.wrev = post[c].base + 1, !.rev = post[c].base + 1,
                         !.phase = "ready", !.active = 0, !.mut = NoMutation]
      bad  == [cl EXCEPT !.phase = IF post[c].result = "conflict"
                                     THEN "conflict" ELSE @,
                         !.mut.stage = "recovery"]
  IN /\ post[c].stage = "reply"
     /\ post' = [post EXCEPT ![c] = NoPost]
     /\ Update(c, IF post[c].result = "committed" THEN done
                  ELSE Recover(bad, "rebuilding"))
     /\ UNCHANGED <<store, handle, late, stream, conn, saw, issued, faults>>

CommandTimesOutUnnoticed(c) ==
  /\ post[c].stage # "none"
  /\ FaultsLeft
  /\ timeouts' = timeouts + 1
  /\ post' = [post EXCEPT ![c] = NoPost]
  /\ UNCHANGED <<store, handle, client, late, stream, conn, saw, issued,
                 restores, losses, drops>>

(* The request or its reply is lost, or takes too long: the browser treats *)
(* the command as failed while the server may still execute it.            *)
CommandTimesOut(c) ==
  LET cl == client[c] IN
  /\ post[c].stage # "none"
  /\ FaultsLeft
  /\ timeouts' = timeouts + 1
  /\ late' = IF post[c].stage = "request"
               THEN late \cup {[op |-> post[c].op, base |-> post[c].base]}
               ELSE late
  /\ post' = [post EXCEPT ![c] = NoPost]
  /\ Update(c, Recover([cl EXCEPT !.mut.stage = "recovery"], "rebuilding"))
  /\ UNCHANGED <<store, handle, stream, conn, saw, issued, restores, losses,
                 drops>>

(* synchronizeCanonicalRevision, after an inventory change whose reply     *)
(* named revision r: it waits for the mutation to end.                     *)
Synchronize(c, r) ==
  LET cl == client[c] IN
  /\ c \in Editors
  /\ cl.mut.stage = "none"
  /\ cl.phase \in {"ready", "failed"}
  /\ ~(cl.phase = "ready" /\ cl.rev = r /\ cl.wrev = r)
  /\ Update(c, Recover(cl, "rebuilding"))
  /\ UNCHANGED <<store, handle, post, late, stream, conn, saw, issued, faults>>

-----------------------------------------------------------------------------
(* The server *)

(* entryForStore: a kept handle whose revision is the store's is used as   *)
(* it is, any other is replaced by one made of the persisted project.      *)
EntryForStore ==
  IF ~Scoped /\ handle # None /\ Rev(handle) = Rev(store) THEN handle
  ELSE store

(* A scoped store, and its handle, are garbage after the request. *)
Keep(entry) == handle' = IF Scoped THEN handle ELSE entry

(* The listeners of the store object that committed: the streams of the    *)
(* unscoped store, and none when each request has a store of its own.      *)
Publish(event) ==
  stream' = IF Scoped THEN stream
            ELSE [c \in Clients |-> IF conn[c] = "open"
                                      THEN Append(stream[c], event)
                                      ELSE stream[c]]

(* EngineCommandService.execute for one request, and its outcome. *)
Conflict(op, base) ==
  /\ base # Rev(EntryForStore)
  /\ Keep(EntryForStore)
  /\ UNCHANGED <<store, stream>>

CommitAnyBase(op, base) ==
  /\ store' = Append(store, op)
  /\ Keep(Append(EntryForStore, op))
  /\ Publish([kind |-> "patch", op |-> op, base |-> base, rev |-> base + 1])

Commit(op, base) ==
  /\ base = Rev(EntryForStore)
  /\ store' = Append(store, op)
  /\ Keep(Append(EntryForStore, op))
  /\ Publish([kind |-> "patch", op |-> op, base |-> base, rev |-> base + 1])

(* applyEnginePatch throws: nothing is persisted and the handle, which had *)
(* applied the command, is made again.                                     *)
PersistFailsKeepingHandle(op, base) ==
  /\ base = Rev(EntryForStore)
  /\ Keep(Append(EntryForStore, op))
  /\ UNCHANGED <<store, stream>>

PersistFails(op, base) ==
  /\ base = Rev(EntryForStore)
  /\ Keep(store)
  /\ UNCHANGED <<store, stream>>

(* The permission check before execute. *)
Refuse == UNCHANGED <<store, handle, stream>>

Execute(op, base, result) ==
  \/ result = "conflict" /\ Conflict(op, base)
  \/ result = "committed" /\ Commit(op, base)
  \/ result = "failed" /\ PersistFails(op, base)
  \/ result = "failed" /\ Refuse

ServeCommand(c) ==
  /\ post[c].stage = "request"
  /\ \E result \in {"conflict", "committed", "failed"} :
       /\ Execute(post[c].op, post[c].base, result)
       /\ post' = [post EXCEPT ![c].stage = "reply", ![c].result = result]
  /\ UNCHANGED <<client, late, conn, saw, issued, faults>>

ServeLate ==
  \E r \in late :
    /\ late' = late \ {r}
    /\ \E result \in {"conflict", "committed", "failed"} :
         Execute(r.op, r.base, result)
    /\ UNCHANGED <<client, post, conn, saw, issued, faults>>

(* The command of a browser that is not in Clients. *)
OtherCommand ==
  /\ issued < MaxChanges
  /\ issued' = issued + 1
  /\ Commit(issued + 1, Rev(EntryForStore))
  /\ saw' = [saw EXCEPT ![issued + 1] = EntryForStore]
  /\ UNCHANGED <<client, post, late, conn, faults>>

(* commitCanonicalMutation, setProject and their like: a change that does  *)
(* not go through the engine, on the store or on one made for the request. *)
(* Some of them, as a project's change of scope or its restoration from    *)
(* the archive, raise the revision and publish nothing.                    *)
OtherChange ==
  /\ issued < MaxChanges
  /\ issued' = issued + 1
  /\ store' = Append(store, issued + 1)
  /\ saw' = [saw EXCEPT ![issued + 1] = store]
  /\ \/ Publish([kind |-> "invalidated", op |-> issued + 1,
                  base |-> Rev(store), rev |-> Rev(store) + 1])
     \/ UNCHANGED stream
  /\ UNCHANGED <<handle, client, post, late, conn, faults>>

(* A backup is restored: the project is an earlier one again, with its     *)
(* revision.  One of another installation, or of a line that was left, is  *)
(* an earlier one and changes that are not published.  The store object    *)
(* stays, with its handle, and nothing is published.                       *)
Restore ==
  /\ FaultsLeft
  /\ restores' = restores + 1
  /\ \E n \in 0..(Len(store) - 1) : store' = SubSeq(store, 1, n)
  /\ UNCHANGED <<handle, client, post, late, stream, conn, saw, issued,
                 timeouts, losses, drops>>

-----------------------------------------------------------------------------
(* The event stream *)

(* EngineSseHub.connect. *)
Connect(c) ==
  /\ conn[c] = "connecting"
  /\ conn' = [conn EXCEPT ![c] = "open"]
  /\ UNCHANGED <<store, handle, client, post, late, stream, saw, issued, faults>>

(* The stream breaks; the EventSource connects again and nothing is sent   *)
(* again.                                                                  *)
Disconnect(c) ==
  /\ conn[c] = "open"
  /\ FaultsLeft
  /\ drops' = drops + 1
  /\ conn' = [conn EXCEPT ![c] = "connecting"]
  /\ stream' = [stream EXCEPT ![c] = <<>>]
  /\ UNCHANGED <<store, handle, client, post, late, saw, issued, restores,
                 timeouts, losses>>

(* applyCommittedResponse for a committed patch, its cases in the order of *)
(* the code.  A patch without a local operation is not supported.          *)
PatchEvent(cl, e, sameId, supported) ==
  IF cl.rev = e.rev THEN cl
  ELSE IF sameId /\ cl.rev = e.base /\ cl.wrev = e.rev
    THEN [cl EXCEPT !.rev = e.rev, !.phase = "ready"]
  ELSE IF cl.rev # e.base \/ ~supported THEN Recover(cl, "rebuilding")
  ELSE IF cl.wrev = 0 \/ cl.worker = None THEN EventFailed(cl)
  ELSE [cl EXCEPT !.inbox = Append(@, [kind |-> "event", op |-> e.op,
                                       base |-> cl.wrev, rev |-> e.rev])]

(* The listener for project-invalidated. *)
InvalidatedEvent(cl, e) ==
  IF cl.phase = "ready" /\ cl.rev = e.rev THEN cl ELSE EventFailed(cl)

(* The request id of the command this client awaits is its own command's,  *)
(* and may be that of any other client's.                                  *)
SameId(cl, e) ==
  IF cl.active = 0 THEN {FALSE}
  ELSE IF cl.active = e.op THEN {TRUE} ELSE BOOLEAN

HandleEvent(c) ==
  LET cl == client[c]
      e  == Head(stream[c])
  IN /\ stream[c] # <<>>
     /\ stream' = [stream EXCEPT ![c] = Tail(@)]
     /\ IF e.kind = "invalidated" THEN Update(c, InvalidatedEvent(cl, e))
        ELSE \E sameId \in SameId(cl, e), supported \in BOOLEAN :
               Update(c, PatchEvent(cl, e, sameId, supported))
     /\ UNCHANGED <<store, handle, post, late, conn, saw, issued, faults>>

(* The worker answers the command made of a committed patch. *)
AnswerEvent(c) ==
  LET cl == client[c]
      r  == Head(cl.inbox)
      rest == [cl EXCEPT !.inbox = Tail(@)]
      next == [rest EXCEPT !.worker = Append(@, r.op), !.wrev = r.base + 1]
  IN /\ cl.inbox # <<>> /\ r.kind = "event"
     /\ Update(c, IF r.base # Rev(cl.worker) THEN Recover(rest, "rebuilding")
                  ELSE IF r.base + 1 # r.rev THEN Recover(next, "rebuilding")
                  ELSE [next EXCEPT !.rev = r.rev, !.phase = "ready"])
     /\ UNCHANGED <<store, handle, post, late, stream, conn, saw, issued, faults>>

-----------------------------------------------------------------------------
(* The canvas runtimes of a browser *)

Hide(c) ==
  /\ c \in Switching
  /\ client[c].shown
  /\ client[c].phase # "idle"
  /\ Update(c, [client[c] EXCEPT !.shown = FALSE])
  /\ UNCHANGED <<store, handle, post, late, stream, conn, saw, issued, faults>>

(* activate: a runtime that missed an invalidation is rebuilt. *)
Show(c) ==
  LET cl == [client[c] EXCEPT !.shown = TRUE, !.dirty = FALSE] IN
  /\ ~client[c].shown
  /\ Update(c, IF client[c].dirty THEN Recover(cl, "rebuilding") ELSE cl)
  /\ UNCHANGED <<store, handle, post, late, stream, conn, saw, issued, faults>>

(* The cache evicts a runtime that is hidden and not busy. *)
Evict(c) ==
  /\ ~client[c].shown
  /\ client[c].phase \in {"ready", "failed"}
  /\ client[c].mut.stage = "none"
  /\ client[c].rec.stage = "none"
  /\ Update(c, NewClient)
  /\ conn' = [conn EXCEPT ![c] = "none"]
  /\ stream' = [stream EXCEPT ![c] = <<>>]
  /\ UNCHANGED <<store, handle, post, late, saw, issued, faults>>

-----------------------------------------------------------------------------
ClientStep(c) ==
  \/ Start(c) \/ InitializeWorker(c) \/ WorkerReady(c)
  \/ AnswerMutation(c) \/ AnswerEvent(c) \/ CommandReply(c) \/ HandleEvent(c)

NetworkStep(c) == ServeSnapshot(c) \/ ServeCommand(c) \/ Connect(c)

UserStep(c) ==
  \/ Mutate(c) \/ Hide(c) \/ Show(c) \/ Evict(c)
  \/ \E r \in 1..(MaxChanges + 1) :
       (r <= Rev(store) \/ restores > 0) /\ Synchronize(c, r)

FaultStep(c) ==
  FetchFails(c) \/ LoseWorker(c) \/ CommandTimesOut(c) \/ Disconnect(c)

Next ==
  \/ \E c \in Clients :
       ClientStep(c) \/ NetworkStep(c) \/ UserStep(c) \/ FaultStep(c)
  \/ ServeLate
  \/ OtherCommand
  \/ OtherChange
  \/ Restore

Spec == Init /\ [][Next]_vars

(* The event loops of the browser and of the server run what is ready, and *)
(* requests that are not lost are answered.  Nothing is assumed of the     *)
(* user, of other changes, of restores or of faults.  The actions under    *)
(* one WF are stages of one activity, of which at most one is enabled.     *)
CommandFairness ==
  \A c \in Clients :
    /\ WF_vars(ServeSnapshot(c) \/ InitializeWorker(c) \/ WorkerReady(c))
    /\ WF_vars(AnswerMutation(c) \/ AnswerEvent(c))
    /\ WF_vars(ServeCommand(c) \/ CommandReply(c))

EventFairness ==
  \A c \in Clients :
    WF_vars(Start(c)) /\ WF_vars(Connect(c)) /\ WF_vars(HandleEvent(c))

(* What a mutation waits for, with or without an event stream. *)
CommandSpec == Spec /\ CommandFairness

FairSpec == CommandSpec /\ EventFairness

-----------------------------------------------------------------------------
Phases == {"idle", "loading", "ready", "rebuilding", "conflict", "failed"}
Contents == Seq(Changes)
Revs == 0..(MaxChanges + 2)

(* The store, the clients, the network and the streams keep their types;   *)
(* until a restore no revision goes beyond the optimistic change.          *)
TypeOK ==
  /\ store \in Contents
  /\ handle \in Contents \cup {None}
  /\ \A c \in Clients :
       LET cl == client[c] IN
       /\ cl.phase \in Phases
       /\ cl.rev \in Nat /\ cl.wrev \in Nat
       /\ restores = 0 => cl.rev \in Revs /\ cl.wrev \in Revs
       /\ cl.worker \in Contents \cup {None}
       /\ cl.active \in 0..MaxChanges
       /\ cl.mut.stage \in {"none", "worker", "posted", "recovery"}
       /\ cl.rec.stage \in {"none", "fetch", "snapshot", "worker"}
       /\ cl.rec.tries < MaxStartupAttempts
       /\ post[c].stage \in {"none", "request", "reply"}
       /\ conn[c] \in {"none", "connecting", "open"}
       /\ post[c].stage # "none" <=> cl.mut.stage = "posted"

(* The three properties below are about a project no backup was restored   *)
(* over: a restore sets the revision back and leaves the handle and the    *)
(* browsers their contents, and an equal revision says nothing after it.   *)

(* The server dispatches a command on the persisted project: a kept handle *)
(* whose revision says that it is current has the content of the store,    *)
(* also after a patch that could not be persisted and after changes that   *)
(* do not go through the engine or are not published (entryForStore,       *)
(* execute's catch block).                                                 *)
HandleIsStore ==
  restores = 0 /\ handle # None /\ Rev(handle) = Rev(store) => handle = store

(* Optimistic concurrency: every change was made on exactly the topology   *)
(* it was committed to, however replies, events and recoveries interleave  *)
(* and whichever requests arrive late (execute, entryForStore).            *)
AsSeen == \A i \in DOMAIN store : saw[store[i]] = SubSeq(store, 1, i - 1)

CommittedAsSeen == restores = 0 => AsSeen

(* Between its mutations and recoveries a browser shows a topology the     *)
(* project has had: whatever was refused, lost or mistaken for its own     *)
(* command while it waited is gone from its worker (mutate,                *)
(* applyCommittedResponse, rebuild).                                       *)
Explained ==
  \A c \in Clients :
    LET cl == client[c] IN
    cl.worker # None /\ cl.rec.stage = "none" /\ cl.mut.stage = "none"
      => IsPrefix(cl.worker, store)

WorkerExplained == restores = 0 => Explained

(* A mutation of a browser ends, acknowledged or failed, through lost      *)
(* requests, lost workers, recoveries that give up and restored backups:   *)
(* the ones queued behind it on mutationTail get their turn.               *)
MutationsEnd ==
  \A c \in Clients : client[c].mut.stage # "none" ~> client[c].mut.stage = "none"

(* A browser that is open, shows the current project and listens to its    *)
(* event stream comes to show again what is committed afterwards (the      *)
(* EngineSseHub, applyCommittedResponse).                                  *)
OpenBrowsersReconcile ==
  \A c \in Clients :
    [](conn[c] = "open" /\ client[c].worker = store
         => []<>(client[c].worker = store))

=============================================================================
