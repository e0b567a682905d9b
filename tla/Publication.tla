---------------------------- MODULE Publication ----------------------------
(***************************************************************************)
(* The publication of ONE share to lab.gd: the durable operation queue of  *)
(* the sharing repository, the SharingPublicationService that changes it,  *)
(* the SharingPublicationCoordinator that works it off, the installation   *)
(* event stream that projects lab.gd's revisions back, and lab.gd itself,  *)
(* which is external and modelled from how the client uses it.             *)
(*                                                                         *)
(* A manifest hash stands for the projected content, so the idempotency    *)
(* key of a publish operation IS its manifest and that of a lifecycle      *)
(* operation or a direct request is its kind and the remote revision it    *)
(* was enqueued or sent at.                                                *)
(* remoteRevision NULL is 0: a real revision is positive.  Deadlines       *)
(* (available_at_ms, the debounce, the backoff) are abstracted: an open    *)
(* operation may be picked at any time.                                    *)
(***************************************************************************)
EXTENDS Integers, Sequences, FiniteSets

CONSTANTS Manifests,     \* the contents the share can be projected to
          NoManifest,    \* SQL NULL in a manifest hash column
          Synchronized,  \* mutability = replaceable and syncMode = synchronized
          MaxAttempts,   \* TRANSIENT_MAX_ATTEMPTS
          MaxEdits,      \* bound: content changes in a behaviour
          MaxCrashes,    \* bound: process restarts in a behaviour
          MaxRev,        \* bound: revision after which no mutation is requested
          MaxRemote,     \* bound: revision after which lab.gd changes nothing itself
          MaxPreviews,   \* bound: privacy projections awaited at the same time
          MaxLate,       \* bound: abandoned requests still on their way
          MaxDirect,     \* bound: direct requests in a behaviour
          LifecycleKinds, \* the remote lifecycle operations requested
          DirectKinds    \* the requests a route sends itself and awaits

ASSUME ManifestAssumption == NoManifest \notin Manifests
ASSUME BoundAssumption ==
  /\ Synchronized \in BOOLEAN
  /\ MaxAttempts \in Nat \ {0}
  /\ MaxEdits \in Nat
  /\ MaxCrashes \in Nat
  /\ MaxRev \in Nat
  /\ MaxRemote \in Nat
  /\ MaxPreviews \in Nat
  /\ MaxLate \in Nat
  /\ MaxDirect \in Nat
  /\ LifecycleKinds \subseteq {"unpublish", "delete"}
  /\ DirectKinds \subseteq {"republish", "password", "settings"}

VARIABLES content,     \* manifest the share projects to now
          share,       \* the row of table shares
          ops,         \* publish rows of share_publication_operations, by key
          lifecycle,   \* unpublish and delete rows, by key
          worker,      \* the operation the coordinator awaits, and its request
          scheduling,  \* scheduleCurrentState calls awaiting their preview
          publishing,  \* enqueuePublish calls awaiting their preview
          direct,      \* republish, password and settings requests awaited
          cursor,      \* remote_event_cursor
          log,         \* lab.gd: what each logical revision made of the share
          remoteOps,   \* lab.gd: its publication operation for each key
          remoteDone,  \* lab.gd: revision a mutation key produced, 0 if none
          late,        \* requests the client gave up on that may still arrive
          edits, crashes, sent

vars == <<content, share, ops, lifecycle, worker, scheduling, publishing,
          direct, cursor, log, remoteOps, remoteDone, late, edits, crashes, sent>>

local == <<content, share, ops, lifecycle, scheduling, publishing, cursor>>
remote == <<log, remoteOps, remoteDone>>
bounds == <<edits, crashes, sent>>

LifecycleKeys == LifecycleKinds \X (1..MaxRev)
MutationKeys == (LifecycleKinds \cup DirectKinds) \X (1..MaxRev)
ShareStates == {"unpublished", "preview-ready", "publishing", "synced",
                "changes-pending", "manual-update-available", "failed",
                "expired", "deleted"}
OpStates == {"none", "queued", "running", "retrying", "succeeded", "failed",
             "cancelled"}
Open == {"queued", "running", "retrying"}
Errors == {"none", "registry", "retryable", "final"}
NoKey == <<"unpublish", 0>>

IdleWorker == [pc |-> "idle", m |-> NoManifest, key |-> NoKey, exp |-> 0,
               attempts |-> 0, reply |-> "none", rev |-> 0]

Request(w) == [pc |-> w.pc, m |-> w.m, key |-> w.key, exp |-> w.exp]

(* A direct request: m is the content a settings change will select, and   *)
(* fresh says that nobody has written the share row (local_revision) since *)
(* the settings change read it.  Two equal requests count as one.          *)
NewDirect(kind, m) == [kind |-> kind, exp |-> share.rrev, m |-> m,
                       fresh |-> kind = "settings", reply |-> "none", rev |-> 0]

DirectKey(d) == <<d.kind, d.exp>>

DirectRequest(d) == [pc |-> "lifecycle", m |-> NoManifest, key |-> DirectKey(d),
                     exp |-> d.exp]

(* Every write of the share row raises its local_revision. *)
Touched(ds) == {[d EXCEPT !.fresh = FALSE] : d \in ds}

RemoteShareStateRaw(state) == state

RemoteShareState(state) == IF state = "active" THEN "synced" ELSE state

(* A row as enqueueOperation inserts it. *)
NewOp(expected) == [state |-> "queued", expected |-> expected,
                    attempts |-> 0, error |-> "none"]
NoOp == [state |-> "none", expected |-> 0, attempts |-> 0, error |-> "none"]

Init ==
  /\ content \in Manifests
  /\ share = [state |-> "unpublished", rrev |-> 0, pub |-> FALSE,
              active |-> NoManifest, approved |-> NoManifest]
  /\ ops = [m \in Manifests |-> NoOp]
  /\ lifecycle = [k \in LifecycleKeys |-> [state |-> "none", attempts |-> 0]]
  /\ worker = IdleWorker
  /\ scheduling = {}
  /\ publishing = {}
  /\ direct = {}
  /\ cursor = 0
  /\ log = <<>>
  /\ remoteOps = [m \in Manifests |-> "none"]
  /\ remoteDone = [k \in MutationKeys |-> 0]
  /\ late = {}
  /\ edits = 0
  /\ crashes = 0
  /\ sent = 0

-----------------------------------------------------------------------------
(* Local requests and inventory changes *)

(* enqueueOperation refuses a key whose row carries another intent: the    *)
(* expected revision differs, or an explicit retry meets a failure that is *)
(* not eligible.                                                           *)
EnqueueRefusedLoosely(m, expected, retryFailed) ==
  /\ ops[m].state = "failed" /\ retryFailed
  /\ ops[m].error \notin {"registry", "retryable"}

EnqueueRefused(m, expected, retryFailed) ==
  /\ ops[m].state # "none"
  /\ \/ ops[m].expected # expected
     \/ ops[m].state = "failed" /\ retryFailed
          /\ ops[m].error \notin {"registry", "retryable"}

(* The row an accepted enqueueOperation leaves: a new one, a cancelled one *)
(* reset, a failed one reopened on explicit retry, any other untouched.    *)
Enqueued(op, expected, retryFailed) ==
  CASE op.state \in {"none", "cancelled"} -> NewOp(expected)
    [] op.state = "failed" /\ retryFailed -> [op EXCEPT !.state = "retrying"]
    [] OTHER -> op

CancelPending(os) ==
  [m \in Manifests |-> IF os[m].state \in {"queued", "retrying"}
                         THEN [os[m] EXCEPT !.state = "cancelled"] ELSE os[m]]

(* A project commit.  markRelevantChange runs up to its first await with   *)
(* the commit: it marks a published share and starts scheduleCurrentState, *)
(* which keeps the share row and the content it read at this point.        *)
EditContent(m) ==
  /\ edits < MaxEdits
  /\ m # content
  /\ content' = m
  /\ edits' = edits + 1
  /\ IF share.state = "deleted" \/ share.rrev = 0
       THEN UNCHANGED <<share, scheduling, direct>>
       ELSE /\ share' = [share EXCEPT !.state =
                  IF Synchronized THEN "changes-pending"
                                  ELSE "manual-update-available"]
            /\ direct' = Touched(direct)
            /\ IF Synchronized
                 THEN /\ Cardinality(scheduling) < MaxPreviews
                      /\ scheduling' = scheduling \cup
                           {[m |-> m, rrev |-> share.rrev, active |-> share.active]}
                 ELSE UNCHANGED scheduling
  /\ UNCHANGED <<ops, lifecycle, worker, publishing, cursor, remote, late, crashes, sent>>

(* scheduleCurrentState resumes after its preview.  It compares with the   *)
(* active manifest it read before the await and enqueues at the revision   *)
(* it read before the await.                                               *)
ScheduleResumes(s) ==
  LET cancelled == CancelPending(ops) IN
  /\ scheduling' = scheduling \ {s}
  /\ \/ /\ s.active = s.m
        /\ ops' = cancelled
        /\ share' = [share EXCEPT !.state = "synced"]
        /\ direct' = IF share.state = "synced" THEN direct ELSE Touched(direct)
     \/ /\ s.active # s.m
        /\ ops' = [cancelled EXCEPT ![s.m] =
             IF EnqueueRefused(s.m, s.rrev, FALSE) THEN @ ELSE Enqueued(@, s.rrev, FALSE)]
        /\ UNCHANGED <<share, direct>>
  /\ UNCHANGED <<content, lifecycle, worker, publishing, cursor, remote, late, bounds>>

(* approvePreview writes only if the row it read before its preview is     *)
(* unchanged (local_revision), so its effect is that of one step.          *)
ApprovePreview ==
  /\ share' = [share EXCEPT !.state = "preview-ready", !.approved = content]
  /\ share' # share
  /\ direct' = Touched(direct)
  /\ UNCHANGED <<content, ops, lifecycle, worker, scheduling, publishing,
                 cursor, remote, late, bounds>>

(* POST publish or update: enqueuePublish projects the content ...         *)
EnqueuePublishStarts ==
  /\ content \notin publishing
  /\ Cardinality(publishing) < MaxPreviews
  /\ publishing' = publishing \cup {content}
  /\ UNCHANGED <<content, share, ops, lifecycle, worker, scheduling, direct, cursor,
                 remote, late, bounds>>

(* ... and resumes: the approval and the revision are read after the await. *)
EnqueuePublishResumes(m) ==
  /\ publishing' = publishing \ {m}
  /\ IF share.approved # m \/ EnqueueRefused(m, share.rrev, TRUE)
       THEN UNCHANGED <<ops, share, direct>>
       ELSE /\ direct' = Touched(direct)
            /\ ops' = [ops EXCEPT ![m] = Enqueued(@, share.rrev, TRUE)]
            /\ share' = [share EXCEPT !.state = "publishing"]
  /\ UNCHANGED <<content, lifecycle, worker, scheduling, cursor, remote, late, bounds>>

(* POST resource-snapshot: new content, approval withdrawn, nothing        *)
(* queued.  A settings change of a share that was never published has the  *)
(* same effect.                                                            *)
ResourceSnapshot(m) ==
  /\ edits < MaxEdits
  /\ edits' = edits + 1
  /\ content' = m
  /\ share' = [share EXCEPT !.approved = NoManifest, !.state =
       IF share.rrev = 0 THEN "unpublished"
       ELSE IF Synchronized THEN "changes-pending" ELSE "manual-update-available"]
  /\ direct' = Touched(direct)
  /\ UNCHANGED <<ops, lifecycle, worker, scheduling, publishing, cursor, remote,
                 late, crashes, sent>>

(* enqueueLifecycle: a second request at the same revision finds its row   *)
(* and changes nothing, whatever the row's state.                          *)
EnqueueLifecycle(kind) ==
  LET k == <<kind, share.rrev>> IN
  /\ share.pub
  /\ k \in LifecycleKeys
  /\ lifecycle[k].state = "none"
  /\ lifecycle' = [lifecycle EXCEPT ![k].state = "queued"]
  /\ UNCHANGED <<content, share, ops, worker, scheduling, publishing, direct, cursor,
                 remote, late, bounds>>

(* POST republish, PUT password and PATCH of a published share: the route  *)
(* sends the request at the revision it reads and awaits the reply, beside *)
(* the coordinator's own requests.                                         *)
DirectStarts(kind, m) ==
  /\ share.pub
  /\ <<kind, share.rrev>> \in MutationKeys
  /\ sent < MaxDirect
  /\ sent' = sent + 1
  /\ direct' = direct \cup {NewDirect(kind, m)}
  /\ IF kind = "settings"
       THEN m \in Manifests /\ edits < MaxEdits /\ edits' = edits + 1
       ELSE m = NoManifest /\ UNCHANGED edits
  /\ UNCHANGED <<content, share, ops, lifecycle, worker, scheduling, publishing,
                 cursor, remote, late, crashes>>

(* The reply.  The client accepts only a revision above the one it sent.   *)
Accepted(d) == d.reply = "ok" /\ d.rev > d.exp

(* republish and replacePassword read the row again for its local_revision *)
(* and write the reply's revision, whatever revision the share has by now. *)
DirectReplies(d) ==
  /\ d.kind # "settings" /\ Accepted(d)
  /\ share' = [share EXCEPT !.rrev = d.rev, !.state =
       IF d.kind = "password" THEN @ ELSE RemoteShareState(log[d.rev].state)]
  /\ direct' = Touched(direct \ {d})
  /\ UNCHANGED <<content, ops, lifecycle, worker, scheduling, publishing, cursor,
                 remote, late, bounds>>

(* The settings route writes only to the row it read: updateShareConfig-   *)
(* uration refuses another local_revision.  It then starts                 *)
(* scheduleCurrentState for the content selected now.                      *)
SettingsReplyUnguarded(d) ==
  /\ d.kind = "settings" /\ Accepted(d)
  /\ content' = d.m
  /\ share' = [share EXCEPT !.rrev = d.rev, !.approved = NoManifest,
                  !.state = RemoteShareState(log[d.rev].state)]
  /\ direct' = Touched(direct \ {d})
  /\ IF Synchronized
       THEN /\ Cardinality(scheduling) < MaxPreviews
            /\ scheduling' = scheduling \cup
                 {[m |-> d.m, rrev |-> d.rev, active |-> share.active]}
       ELSE UNCHANGED scheduling
  /\ UNCHANGED <<ops, lifecycle, worker, publishing, cursor, remote, late, bounds>>

SettingsReplies(d) ==
  /\ d.kind = "settings" /\ Accepted(d) /\ d.fresh
  /\ content' = d.m
  /\ share' = [share EXCEPT !.rrev = d.rev, !.approved = NoManifest,
                  !.state = RemoteShareState(log[d.rev].state)]
  /\ direct' = Touched(direct \ {d})
  /\ IF Synchronized
       THEN /\ Cardinality(scheduling) < MaxPreviews
            /\ scheduling' = scheduling \cup
                 {[m |-> d.m, rrev |-> d.rev, active |-> share.active]}
       ELSE UNCHANGED scheduling
  /\ UNCHANGED <<ops, lifecycle, worker, publishing, cursor, remote, late, bounds>>

-----------------------------------------------------------------------------
(* The coordinator's worker: one operation at a time, one request awaited  *)

(* The state and attempt count a failed attempt leaves.  The one counter   *)
(* serves both retry classes and is compared only by the transient one; it *)
(* is saturated where that comparison no longer changes.                   *)
FailedAttempts(attempts) == IF attempts >= MaxAttempts THEN attempts ELSE attempts + 1

Retryable(error, attempts) ==
  \/ error = "registry"
  \/ error \in {"retryable", "transient"} /\ FailedAttempts(attempts) < MaxAttempts

(* processOperation's catch: the row is written whatever became of it      *)
(* during the await, and a terminal failure marks the share.  "transient"  *)
(* is a retryable failure without one of the codes that may be reopened.   *)
AttemptFails(error) ==
  LET again == Retryable(error, worker.attempts)
      state == IF again THEN "retrying" ELSE "failed"
  IN
  /\ worker' = IdleWorker
  /\ share' = IF again THEN share ELSE [share EXCEPT !.state = "failed"]
  /\ direct' = IF again THEN direct ELSE Touched(direct)
  /\ IF worker.m \in Manifests
       THEN /\ ops' = [ops EXCEPT ![worker.m] = [@ EXCEPT
                 !.state = state, !.attempts = FailedAttempts(worker.attempts),
                 !.error = IF error = "transient" THEN "final" ELSE error]]
            /\ UNCHANGED lifecycle
       ELSE /\ lifecycle' = [lifecycle EXCEPT ![worker.key] =
                 [state |-> state, attempts |-> FailedAttempts(worker.attempts)]]
            /\ UNCHANGED ops

(* nextOperation and the start of executePublish: the stage request.       *)
PickPublishNotRunning(m) ==
  /\ worker.pc = "idle"
  /\ ops[m].state \in {"queued", "retrying"}
  /\ worker' = [IdleWorker EXCEPT !.pc = "staging", !.m = m,
                  !.exp = ops[m].expected, !.attempts = ops[m].attempts]
  /\ UNCHANGED <<local, direct, remote, late, bounds>>

PickPublish(m) ==
  /\ worker.pc = "idle"
  /\ ops[m].state \in Open
  /\ worker' = [IdleWorker EXCEPT !.pc = "staging", !.m = m,
                  !.exp = ops[m].expected, !.attempts = ops[m].attempts]
  /\ UNCHANGED <<local, direct, remote, late, bounds>>

(* nextOperation and the start of executeLifecycle: the request carries    *)
(* the key of the row but the revision the share has NOW.                  *)
PickLifecycle(k) ==
  /\ worker.pc = "idle"
  /\ lifecycle[k].state \in Open
  /\ worker' = [IdleWorker EXCEPT !.pc = "lifecycle", !.key = k,
                  !.exp = share.rrev, !.attempts = lifecycle[k].attempts]
  /\ UNCHANGED <<local, direct, remote, late, bounds>>

(* completePublication, one transaction: the operation succeeds and the    *)
(* share advances to expected + 1, converges on it, or keeps a newer one.  *)
Projection(result, m) ==
  IF share.rrev < result
    THEN [share EXCEPT !.pub = TRUE, !.rrev = result, !.active = m, !.state = "synced"]
    ELSE IF share.rrev = result
      THEN [share EXCEPT !.pub = TRUE, !.active = m, !.state =
              IF @ \in {"publishing", "synced", "failed"} THEN "synced" ELSE @]
      ELSE share

CompletePublicationAboveShare ==
  /\ ops' = [ops EXCEPT ![worker.m] = [@ EXCEPT !.state = "succeeded", !.error = "none"]]
  /\ share' = Projection(share.rrev + 1, worker.m)
  /\ direct' = Touched(direct)
  /\ worker' = IdleWorker
  /\ UNCHANGED lifecycle

CompletePublication ==
  /\ ops' = [ops EXCEPT ![worker.m] = [@ EXCEPT !.state = "succeeded", !.error = "none"]]
  /\ share' = Projection(worker.exp + 1, worker.m)
  /\ direct' = IF share.rrev > worker.exp + 1 THEN direct ELSE Touched(direct)
  /\ worker' = IdleWorker
  /\ UNCHANGED lifecycle

(* The stage reply.  lab.gd returns its operation for the key, creating it *)
(* on the first request; recordRemoteStage makes the row running even if   *)
(* it was cancelled during the await.  The uploads that follow only fail   *)
(* like the activation request does.                                       *)
StageReplies ==
  /\ worker.pc = "staging"
  /\ LET m == worker.m IN
     \/ /\ remoteOps[m] = "active"
        /\ CompletePublication
        /\ UNCHANGED remoteOps
     \/ /\ remoteOps[m] = "rejected"
        /\ AttemptFails("final")
        /\ UNCHANGED remoteOps
     \/ /\ remoteOps[m] \in {"none", "staged", "blocked"}
        /\ remoteOps' = [remoteOps EXCEPT ![m] = IF @ = "none" THEN "staged" ELSE @]
        /\ ops' = [ops EXCEPT ![m].state = "running"]
        /\ worker' = [worker EXCEPT !.pc = "activating"]
        /\ UNCHANGED <<share, lifecycle, direct>>
  /\ UNCHANGED <<content, scheduling, publishing, cursor, log, remoteDone, late, bounds>>

(* The activation reply.  A 409 publication-failed is looked up by staging *)
(* again; any other refusal is terminal.                                   *)
ActivateReplies ==
  /\ worker.pc = "activating"
  /\ \/ worker.reply = "ok" /\ CompletePublication
     \/ worker.reply = "conflict" /\ AttemptFails("final")
     \/ /\ worker.reply = "publication-failed"
        /\ worker' = [worker EXCEPT !.pc = "restaging", !.reply = "none"]
        /\ UNCHANGED <<share, ops, lifecycle, direct>>
  /\ UNCHANGED <<content, scheduling, publishing, cursor, remote, late, bounds>>

(* The reply to the second stage request.                                  *)
RestageReplies ==
  /\ worker.pc = "restaging"
  /\ \/ remoteOps[worker.m] = "active" /\ CompletePublication
     \/ remoteOps[worker.m] = "blocked" /\ AttemptFails("registry")
     \/ remoteOps[worker.m] \in {"staged", "rejected"} /\ AttemptFails("final")
  /\ UNCHANGED <<content, scheduling, publishing, cursor, remote, late, bounds>>

(* executeLifecycle after the reply: the client accepts only a revision    *)
(* above the one it sent; the operation and the share are then written     *)
(* with the reply's revision, whatever revision the share has by now.      *)
LifecycleRepliesUnchecked ==
  /\ worker.pc = "lifecycle"
  /\ \/ /\ worker.reply = "ok"
        /\ lifecycle' = [lifecycle EXCEPT ![worker.key].state = "succeeded"]
        /\ share' = [share EXCEPT !.rrev = worker.rev, !.state =
             IF worker.key[1] = "unpublish" THEN "unpublished" ELSE "deleted"]
        /\ worker' = IdleWorker
        /\ direct' = Touched(direct)
        /\ UNCHANGED ops
     \/ worker.reply = "conflict" /\ AttemptFails("final")
  /\ UNCHANGED <<content, scheduling, publishing, cursor, remote, late, bounds>>

LifecycleReplies ==
  /\ worker.pc = "lifecycle"
  /\ \/ /\ worker.reply = "ok" /\ worker.rev > worker.exp
        /\ lifecycle' = [lifecycle EXCEPT ![worker.key].state = "succeeded"]
        /\ share' = [share EXCEPT !.rrev = worker.rev, !.state =
             IF worker.key[1] = "unpublish" THEN "unpublished" ELSE "deleted"]
        /\ worker' = IdleWorker
        /\ direct' = Touched(direct)
        /\ UNCHANGED ops
     \/ /\ worker.reply = "conflict" \/ (worker.reply = "ok" /\ worker.rev <= worker.exp)
        /\ AttemptFails("final")
  /\ UNCHANGED <<content, scheduling, publishing, cursor, remote, late, bounds>>

(* Requests that change lab.gd and are not answered yet. *)
WorkerRequests ==
  IF worker.pc \in {"activating", "lifecycle"} /\ worker.reply = "none"
    THEN {Request(worker)} ELSE {}
DirectRequests == {DirectRequest(d) : d \in {e \in direct : e.reply = "none"}}

(* What may be on its way once nobody awaits the requests rs any more:     *)
(* each may be lost or still arrive.                                       *)
Delayed(rs) == {late \cup r : r \in {q \in SUBSET rs : Cardinality(late \cup q) <= MaxLate}}

(* The awaited request fails: no connection, a timeout, HTTP 5xx.          *)
RequestFails(error) ==
  /\ worker.pc # "idle"
  /\ AttemptFails(error)
  /\ late' \in Delayed(WorkerRequests)
  /\ UNCHANGED <<content, scheduling, publishing, cursor, remote, bounds>>

(* A direct request ends without a write: it fails on its way, lab.gd or   *)
(* the client refuses it, or a settings change finds its row changed.      *)
DirectFails(d) ==
  /\ ~Accepted(d) \/ (d.kind = "settings" /\ ~d.fresh)
  /\ direct' = direct \ {d}
  /\ late' \in Delayed({DirectRequest(e) : e \in {d} \cap {f \in direct : f.reply = "none"}})
  /\ UNCHANGED <<local, worker, remote, bounds>>

(* The process stops and starts again: awaited replies and previews are    *)
(* gone, the tables stay, and nextOperation selects running rows again.    *)
Crash ==
  /\ crashes < MaxCrashes
  /\ crashes' = crashes + 1
  /\ worker' = IdleWorker
  /\ scheduling' = {}
  /\ publishing' = {}
  /\ direct' = {}
  /\ late' \in Delayed(WorkerRequests \cup DirectRequests)
  /\ UNCHANGED <<content, share, ops, lifecycle, cursor, remote, edits, sent>>

-----------------------------------------------------------------------------
(* lab.gd (external) and its event stream *)

RemoteState == IF log = <<>> THEN "none" ELSE log[Len(log)].state

(* Activation: idempotent once active, refused unless the expected         *)
(* revision is the share's, otherwise decided by lab.gd.                   *)
RemoteActivate(m, exp, reply) ==
  \/ /\ remoteOps[m] = "active" /\ reply = "ok"
     /\ UNCHANGED <<log, remoteOps>>
  \/ /\ remoteOps[m] = "rejected" /\ reply = "publication-failed"
     /\ UNCHANGED <<log, remoteOps>>
  \/ /\ remoteOps[m] \in {"staged", "blocked"}
     /\ \/ /\ exp # Len(log) \/ RemoteState = "deleted"
           /\ reply = "conflict"
           /\ UNCHANGED <<log, remoteOps>>
        \/ /\ exp = Len(log) /\ RemoteState # "deleted"
           /\ \/ /\ reply = "ok"
                 /\ log' = Append(log, [state |-> "active", m |-> m])
                 /\ remoteOps' = [remoteOps EXCEPT ![m] = "active"]
              \/ /\ reply = "publication-failed"
                 /\ \E outcome \in {"blocked", "rejected"} :
                      remoteOps' = [remoteOps EXCEPT ![m] = outcome]
                 /\ UNCHANGED log

(* What a mutation makes of the share. *)
EntryState(kind) ==
  CASE kind = "unpublish" -> "unpublished"
    [] kind = "delete" -> "deleted"
    [] kind = "republish" -> "active"
    [] OTHER -> RemoteState

(* A mutation of the share: a key that was executed answers as it did then. *)
RemoteLifecycle(k, exp, reply, rev) ==
  \/ /\ remoteDone[k] # 0 /\ reply = "ok" /\ rev = remoteDone[k]
     /\ UNCHANGED <<log, remoteDone>>
  \/ /\ remoteDone[k] = 0
     /\ \/ /\ exp # Len(log) \/ RemoteState \in {"none", "deleted"}
           /\ reply = "conflict" /\ rev = 0
           /\ UNCHANGED <<log, remoteDone>>
        \/ /\ exp = Len(log) /\ RemoteState \notin {"none", "deleted"}
           /\ reply = "ok" /\ rev = Len(log) + 1
           /\ log' = Append(log, [m |-> NoManifest, state |-> EntryState(k[1])])
           /\ remoteDone' = [remoteDone EXCEPT ![k] = Len(log) + 1]

(* lab.gd answers the awaited request ...                                  *)
RemoteAnswers ==
  /\ worker.reply = "none"
  /\ \/ /\ worker.pc = "activating"
        /\ \E reply \in {"ok", "conflict", "publication-failed"} :
             /\ RemoteActivate(worker.m, worker.exp, reply)
             /\ worker' = [worker EXCEPT !.reply = reply]
        /\ UNCHANGED remoteDone
     \/ /\ worker.pc = "lifecycle"
        /\ \E reply \in {"ok", "conflict"}, rev \in 0..(Len(log) + 1) :
             /\ RemoteLifecycle(worker.key, worker.exp, reply, rev)
             /\ worker' = [worker EXCEPT !.reply = reply, !.rev = rev]
        /\ UNCHANGED remoteOps
  /\ UNCHANGED <<local, direct, late, bounds>>

RemoteAnswersDirect(d) ==
  /\ d.reply = "none"
  /\ \E reply \in {"ok", "conflict"}, rev \in 0..(Len(log) + 1) :
       /\ RemoteLifecycle(DirectKey(d), d.exp, reply, rev)
       /\ direct' = (direct \ {d}) \cup {[d EXCEPT !.reply = reply, !.rev = rev]}
  /\ UNCHANGED <<local, worker, remoteOps, late, bounds>>

(* ... and executes one whose sender is gone.                              *)
RemoteAnswersLate(r) ==
  /\ late' = late \ {r}
  /\ \/ /\ r.pc = "activating"
        /\ \E reply \in {"ok", "conflict", "publication-failed"} :
             RemoteActivate(r.m, r.exp, reply)
        /\ UNCHANGED remoteDone
     \/ /\ r.pc = "lifecycle"
        /\ \E reply \in {"ok", "conflict"}, rev \in 0..(Len(log) + 1) :
             RemoteLifecycle(r.key, r.exp, reply, rev)
        /\ UNCHANGED remoteOps
  /\ UNCHANGED <<local, direct, worker, bounds>>

(* A change made at lab.gd: expiration, or an account unlink.              *)
RemoteChange(state) ==
  /\ log # <<>>
  /\ Len(log) < MaxRemote
  /\ RemoteState \notin {state, "deleted"}
  /\ log' = Append(log, [state |-> state, m |-> NoManifest])
  /\ UNCHANGED <<local, direct, worker, remoteOps, remoteDone, late, bounds>>

(* applyRemoteEvent, one transaction.  Event i reports revision i; lab.gd  *)
(* sends them in order, and those it repeats after a reconnect are below   *)
(* the cursor and ignored.  Only a share whose public ID is known is found. *)
ApplyRemoteEvent(i) ==
  /\ i = cursor + 1
  /\ cursor' = i
  /\ share' = IF share.pub /\ i > share.rrev
                THEN [share EXCEPT !.rrev = i, !.state = RemoteShareState(log[i].state)]
                ELSE share
  /\ direct' = IF share.pub /\ i > share.rrev THEN Touched(direct) ELSE direct
  /\ UNCHANGED <<content, ops, lifecycle, worker, scheduling, publishing,
                 remote, late, bounds>>

-----------------------------------------------------------------------------
Requests ==
  \/ \E m \in Manifests : EditContent(m) \/ ResourceSnapshot(m)
  \/ ApprovePreview
  \/ EnqueuePublishStarts
  \/ \E kind \in LifecycleKinds : EnqueueLifecycle(kind)
  \/ \E kind \in DirectKinds, m \in Manifests \cup {NoManifest} : DirectStarts(kind, m)

Resumptions ==
  \/ \E s \in scheduling : ScheduleResumes(s)
  \/ \E m \in publishing : EnqueuePublishResumes(m)

DirectSteps ==
  \E d \in direct :
    DirectReplies(d) \/ SettingsReplies(d) \/ DirectFails(d) \/ RemoteAnswersDirect(d)

Work ==
  \/ \E m \in Manifests : PickPublish(m)
  \/ \E k \in LifecycleKeys : PickLifecycle(k)
  \/ StageReplies
  \/ ActivateReplies
  \/ RestageReplies
  \/ LifecycleReplies

Faults ==
  \/ \E error \in {"retryable", "transient", "final"} : RequestFails(error)
  \/ Crash
  \/ \E r \in late : RemoteAnswersLate(r)
  \/ \E state \in {"expired", "unpublished"} : RemoteChange(state)

Next ==
  \/ Requests \/ Resumptions \/ DirectSteps \/ Work \/ RemoteAnswers \/ Faults
  \/ \E i \in 1..Len(log) : ApplyRemoteEvent(i)

Spec == Init /\ [][Next]_vars

(* The coordinator's timer always fires again while an operation is open   *)
(* (scheduleFromDurableQueue) and deadlines pass, so every open operation  *)
(* is picked; awaited previews resume; lab.gd answers; and the Registry    *)
(* definition a blocked publication waits for becomes available.           *)
RemoteAccepts == RemoteAnswers /\ worker'.reply = "ok"

Fairness ==
  /\ WF_vars(Resumptions)
  /\ \A m \in Manifests : SF_vars(PickPublish(m))
  /\ \A k \in LifecycleKeys : SF_vars(PickLifecycle(k))
  /\ WF_vars(StageReplies \/ ActivateReplies \/ RestageReplies \/ LifecycleReplies)
  /\ WF_vars(RemoteAnswers)
  /\ SF_vars(RemoteAccepts)

FairSpec == Spec /\ Fairness

-----------------------------------------------------------------------------
(* Properties *)

Entries == [state : {"active", "unpublished", "deleted", "expired"},
            m : Manifests \cup {NoManifest}]
Pcs == {"idle", "staging", "activating", "restaging", "lifecycle"}
MutationKinds == {"unpublish", "delete", "republish", "password", "settings"}
Keys == MutationKinds \X (0..MaxRev)

ShareType == [state : ShareStates, rrev : Nat, pub : BOOLEAN,
              active : Manifests \cup {NoManifest},
              approved : Manifests \cup {NoManifest}]
OpType == [state : OpStates, expected : Nat, attempts : Nat, error : Errors]
LifecycleType == [state : OpStates, attempts : Nat]
WorkerType == [pc : Pcs, m : Manifests \cup {NoManifest}, key : Keys, exp : Nat,
               attempts : Nat, rev : Nat,
               reply : {"none", "ok", "conflict", "publication-failed"}]
ScheduleType == [m : Manifests, rrev : Nat, active : Manifests \cup {NoManifest}]
DirectType == [kind : DirectKinds, exp : Nat, m : Manifests \cup {NoManifest},
               fresh : BOOLEAN, reply : {"none", "ok", "conflict"}, rev : Nat]
RequestType == [pc : {"activating", "lifecycle"}, m : Manifests \cup {NoManifest},
                key : Keys, exp : Nat]
RemoteOpStates == {"none", "staged", "blocked", "rejected", "active"}

(* Type correctness: the rows, the awaited request and lab.gd's state have *)
(* the shape the tables, the client and the API give them.                 *)
TypeOK ==
  /\ content \in Manifests
  /\ share \in ShareType
  /\ ops \in [Manifests -> OpType]
  /\ lifecycle \in [LifecycleKeys -> LifecycleType]
  /\ worker \in WorkerType
  /\ scheduling \subseteq ScheduleType
  /\ publishing \subseteq Manifests
  /\ direct \subseteq DirectType
  /\ cursor \in Nat
  /\ log \in Seq(Entries)
  /\ remoteOps \in [Manifests -> RemoteOpStates]
  /\ remoteDone \in [MutationKeys -> Nat]
  /\ late \subseteq RequestType
  /\ edits \in Nat
  /\ crashes \in Nat
  /\ sent \in Nat

(* A publish operation that is marked succeeded was activated by lab.gd    *)
(* exactly once, and at the revision the code computes for it without ever *)
(* being told (expected + 1), through every retry, cancellation, crash,    *)
(* replay and late request.                                                *)
PublishedAtExactRevision ==
  \A m \in Manifests : ops[m].state = "succeeded" =>
    /\ ops[m].expected < Len(log)
    /\ log[ops[m].expected + 1] = [state |-> "active", m |-> m]
    /\ \A i \in 1..Len(log) : log[i].m = m => i = ops[m].expected + 1

(* The local projection never claims a revision or an event lab.gd has not *)
(* produced, whatever the order of replies and events.                     *)
NotAheadOfRemote == share.rrev <= Len(log) /\ cursor <= Len(log)

(* The reply to a request that was sent at exp is written in this step     *)
(* without being compared with the share's revision: executeLifecycle,     *)
(* republish and replacePassword do so.                                    *)
UncomparedReply(exp) ==
  \/ worker.pc = "lifecycle" /\ worker.reply = "ok" /\ worker.exp = exp
  \/ \E d \in direct \ direct' :
       d.kind \in {"republish", "password"} /\ d.reply = "ok" /\ d.exp = exp

Behind(m) == ops[m].state = "succeeded" /\ share.rrev <= ops[m].expected

(* completePublication asserts that the share is not behind a publication  *)
(* that has succeeded.  A share gets there only by the reply to an         *)
(* unpublish, delete, republish or password request that was sent before   *)
(* the revision the publication was made for: no publication completes     *)
(* behind, and no later request, settings change, event, retry or restart  *)
(* takes the share back.                                                   *)
CompletedNotBehind ==
  [][\A m \in Manifests : Behind(m)' =>
       Behind(m) \/ \E exp \in 0..(ops[m].expected - 1) : UncomparedReply(exp)]_vars

(* Publication completion, the event stream, a settings change, retries    *)
(* and restarts never lower the share's revision: only the reply to an     *)
(* unpublish, a delete, a republish or a password request can, which are   *)
(* written without being compared, and never below the revision such a     *)
(* request was sent at.                                                    *)
OnlyRepliesLowerRevision ==
  [][share'.rrev < share.rrev =>
       \E exp \in 0..(share'.rrev - 1) : UncomparedReply(exp)]_vars

(* Every open operation, publication, unpublish or delete, ends: it        *)
(* succeeds, fails or is cancelled, and a restart between two of its       *)
(* requests leaves none behind.                                            *)
OpenOpsResolve ==
  /\ \A m \in Manifests : ops[m].state \in Open ~> ops[m].state \notin Open
  /\ \A k \in LifecycleKeys : lifecycle[k].state \in Open ~> lifecycle[k].state \notin Open
=============================================================================
