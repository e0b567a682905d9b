------------------------- MODULE PublicationProofs -------------------------
(***************************************************************************)
(* Proofs about Publication, for every set of manifests, every bound and   *)
(* every lifecycle operation: type correctness, then one inductive         *)
(* invariant from which the safety properties follow.                      *)
(***************************************************************************)
EXTENDS Publication, TLAPS

-----------------------------------------------------------------------------
(* Operators of the model *)

(* A row enqueueOperation leaves is a row. *)
LEMMA EnqueuedType ==
  ASSUME NEW op \in OpType, NEW expected \in Nat, NEW retry \in BOOLEAN
  PROVE  Enqueued(op, expected, retry) \in OpType
BY DEF Enqueued, NewOp, OpType, OpStates, Errors

(* cancelPendingOperations keeps every row, its key and its intent, and    *)
(* never creates or completes one.                                         *)
LEMMA CancelPendingKeeps ==
  ASSUME NEW os \in [Manifests -> OpType]
  PROVE  /\ CancelPending(os) \in [Manifests -> OpType]
         /\ \A m \in Manifests :
              /\ CancelPending(os)[m].expected = os[m].expected
              /\ CancelPending(os)[m].state = "none" <=> os[m].state = "none"
              /\ CancelPending(os)[m].state = "succeeded" <=> os[m].state = "succeeded"
BY DEF CancelPending, OpType, OpStates

(* A failed attempt counts one more attempt or saturates. *)
LEMMA FailedAttemptsType ==
  ASSUME NEW n \in Nat
  PROVE  FailedAttempts(n) \in Nat
BY BoundAssumption DEF FailedAttempts

(* The keys of lifecycle operations, and the absence of one, are keys.     *)
LEMMA KeysType ==
  /\ LifecycleKeys \subseteq MutationKeys /\ MutationKeys \subseteq Keys
  /\ LifecycleKeys \subseteq Keys /\ NoKey \in Keys
<1>1. ASSUME NEW k \in MutationKeys PROVE k \in Keys
  <2>1. PICK kind \in LifecycleKinds \cup DirectKinds, rev \in 1..MaxRev : k = <<kind, rev>>
    BY DEF MutationKeys
  <2>2. kind \in MutationKinds /\ rev \in 0..MaxRev
    BY <2>1, BoundAssumption DEF MutationKinds
  <2> QED
    BY <2>1, <2>2 DEF Keys
<1>2. NoKey \in Keys
  BY BoundAssumption DEF Keys, NoKey, MutationKinds
<1>3. LifecycleKeys \subseteq MutationKeys
  BY DEF LifecycleKeys, MutationKeys
<1> QED
  BY <1>1, <1>2, <1>3

(* A request whose row was written is still a request. *)
LEMMA TouchedType ==
  ASSUME NEW ds, ds \subseteq DirectType
  PROVE  Touched(ds) \subseteq DirectType
BY DEF Touched, DirectType

(* What may still arrive was on its way before or has just been given up. *)
LEMMA DelayedIn ==
  ASSUME NEW rs, late' \in Delayed(rs)
  PROVE  late' \subseteq late \cup rs
<1>1. PICK r \in {q \in SUBSET rs : Cardinality(late \cup q) <= MaxLate} : late' = late \cup r
  BY Zenon DEF Delayed
<1>2. r \subseteq rs
  BY <1>1
<1> QED
  BY <1>1, <1>2

(* A coordinator that awaits nothing has the shape of one.                 *)
LEMMA IdleWorkerType == IdleWorker \in WorkerType
BY KeysType DEF IdleWorker, Pcs, WorkerType

-----------------------------------------------------------------------------
(* Type correctness *)

(* The initial rows and requests have their types.                         *)
LEMMA InitType == Init => TypeOK
<1> SUFFICES ASSUME Init PROVE TypeOK
  OBVIOUS
<1>1. share \in ShareType
  BY DEF Init, ShareType, ShareStates
<1>2. ops \in [Manifests -> OpType]
  BY DEF Init, NoOp, OpType, OpStates, Errors
<1>3. lifecycle \in [LifecycleKeys -> LifecycleType]
  BY DEF Init, LifecycleType, OpStates
<1>4. log \in Seq(Entries) /\ remoteOps \in [Manifests -> RemoteOpStates]
  BY DEF Init, RemoteOpStates
<1> QED
  BY <1>1, <1>2, <1>3, <1>4, IdleWorkerType DEF Init, TypeOK

(* What a failed attempt writes. *)
LEMMA AttemptFailsType ==
  ASSUME share \in ShareType, ops \in [Manifests -> OpType], worker \in WorkerType,
         lifecycle \in [LifecycleKeys -> LifecycleType],
         NEW error \in {"registry", "retryable", "transient", "final"},
         AttemptFails(error)
  PROVE  /\ ops' \in [Manifests -> OpType]
         /\ lifecycle' \in [LifecycleKeys -> LifecycleType]
         /\ worker' = IdleWorker
         /\ share' \in ShareType
         /\ share'.rrev = share.rrev
         /\ direct' \in {direct, Touched(direct)}
         /\ \A m \in Manifests :
              /\ ops'[m].expected = ops[m].expected
              /\ m # worker.m => ops'[m] = ops[m]
              /\ m = worker.m => ops'[m].state \in {"retrying", "failed"}
<1> DEFINE n == FailedAttempts(worker.attempts)
           state == IF Retryable(error, worker.attempts) THEN "retrying" ELSE "failed"
           e == IF error = "transient" THEN "final" ELSE error
<1>1. n \in Nat /\ state \in {"retrying", "failed"} /\ e \in Errors
  BY FailedAttemptsType DEF WorkerType, Errors
<1>2. worker' = IdleWorker
  BY DEF AttemptFails
<1>3. share' = share \/ share' = [share EXCEPT !.state = "failed"]
  BY DEF AttemptFails
<1>4. \/ /\ worker.m \in Manifests
         /\ ops' = [ops EXCEPT ![worker.m] = [@ EXCEPT !.state = state, !.attempts = n,
                                                     !.error = e]]
         /\ lifecycle' = lifecycle
      \/ /\ worker.m \notin Manifests
         /\ ops' = ops
         /\ lifecycle' = [lifecycle EXCEPT ![worker.key] = [state |-> state, attempts |-> n]]
  BY Zenon DEF AttemptFails
<1> HIDE DEF n, state, e
<1>5. ASSUME NEW op \in OpType
      PROVE  LET new == [op EXCEPT !.state = state, !.attempts = n, !.error = e]
             IN  new \in OpType /\ new.expected = op.expected /\ new.state = state
  BY <1>1 DEF OpType, OpStates
<1>6. [state |-> state, attempts |-> n] \in LifecycleType
  BY <1>1 DEF LifecycleType, OpStates
<1>7. lifecycle' \in [LifecycleKeys -> LifecycleType]
  BY <1>4, <1>6
<1>8. share' \in ShareType /\ share'.rrev = share.rrev
  BY <1>3 DEF ShareType, ShareStates
<1>9. /\ ops' \in [Manifests -> OpType]
      /\ \A m \in Manifests :
           /\ ops'[m].expected = ops[m].expected
           /\ m # worker.m => ops'[m] = ops[m]
           /\ m = worker.m => ops'[m].state \in {"retrying", "failed"}
  <2>1. CASE worker.m \in Manifests
    <3> DEFINE new == [ops[worker.m] EXCEPT !.state = state, !.attempts = n, !.error = e]
    <3>1. ops' = [ops EXCEPT ![worker.m] = new]
      BY <1>4, <2>1
    <3>2. new \in OpType /\ new.expected = ops[worker.m].expected /\ new.state = state
      BY <1>5, <2>1
    <3> HIDE DEF new
    <3> QED
      BY <1>1, <2>1, <3>1, <3>2
  <2>2. CASE worker.m \notin Manifests
    BY <1>4, <2>2
  <2> QED
    BY <2>1, <2>2
<1>10. direct' \in {direct, Touched(direct)}
  BY DEF AttemptFails
<1> QED
  BY <1>2, <1>7, <1>8, <1>9, <1>10

(* What completePublication writes: the operation succeeds, the intent of  *)
(* every operation stays, and the share's revision rises to expected + 1   *)
(* unless it is there already.                                             *)
LEMMA CompletePublicationType ==
  ASSUME share \in ShareType, ops \in [Manifests -> OpType], worker \in WorkerType,
         CompletePublication
  PROVE  /\ ops' \in [Manifests -> OpType]
         /\ UNCHANGED lifecycle
         /\ worker' = IdleWorker
         /\ share' \in ShareType
         /\ share'.rrev = IF share.rrev < worker.exp + 1 THEN worker.exp + 1 ELSE share.rrev
         /\ direct' = Touched(direct) \/ (direct' = direct /\ share'.rrev = share.rrev)
         /\ \A m \in Manifests :
              /\ ops'[m].expected = ops[m].expected
              /\ m # worker.m => ops'[m] = ops[m]
              /\ m = worker.m => ops'[m].state = "succeeded"
<1>1. ASSUME NEW op \in OpType
      PROVE  LET new == [op EXCEPT !.state = "succeeded", !.error = "none"]
             IN  new \in OpType /\ new.expected = op.expected /\ new.state = "succeeded"
  BY DEF OpType, OpStates, Errors
<1>2. share' \in ShareType
      /\ share'.rrev = IF share.rrev < worker.exp + 1 THEN worker.exp + 1 ELSE share.rrev
  <2>1. share' = Projection(worker.exp + 1, worker.m)
    BY DEF CompletePublication
  <2>2. worker.exp + 1 \in Nat /\ worker.m \in Manifests \cup {NoManifest}
    BY DEF WorkerType
  <2>3. CASE share.rrev < worker.exp + 1
    BY <2>1, <2>2, <2>3 DEF Projection, ShareType, ShareStates
  <2>4. CASE ~(share.rrev < worker.exp + 1) /\ share.rrev = worker.exp + 1
    BY <2>1, <2>2, <2>4 DEF Projection, ShareType, ShareStates
  <2>5. CASE ~(share.rrev < worker.exp + 1) /\ share.rrev # worker.exp + 1
    BY <2>1, <2>5 DEF Projection
  <2> QED
    BY <2>3, <2>4, <2>5
<1>3. ops' = [ops EXCEPT ![worker.m] =
                [ops[worker.m] EXCEPT !.state = "succeeded", !.error = "none"]]
  BY DEF CompletePublication
<1>4. worker.m \in Manifests => ops[worker.m] \in OpType
  OBVIOUS
<1>5. direct' = Touched(direct) \/ (direct' = direct /\ share'.rrev = share.rrev)
  <2>1. CASE share.rrev > worker.exp + 1
    <3>1. share.rrev \in Nat /\ worker.exp \in Nat
      BY DEF ShareType, WorkerType
    <3> QED
      BY <1>2, <2>1, <3>1 DEF CompletePublication
  <2>2. CASE ~(share.rrev > worker.exp + 1)
    BY <2>2 DEF CompletePublication
  <2> QED
    BY <2>1, <2>2
<1> QED
  BY <1>1, <1>2, <1>3, <1>4, <1>5 DEF CompletePublication

(* What lab.gd writes when it executes an activation or a lifecycle        *)
(* request: at most one entry more.                                        *)
LEMMA RemoteActivateType ==
  ASSUME log \in Seq(Entries), remoteOps \in [Manifests -> RemoteOpStates],
         NEW m \in Manifests \cup {NoManifest}, NEW exp, NEW reply,
         RemoteActivate(m, exp, reply)
  PROVE  log' \in Seq(Entries) /\ remoteOps' \in [Manifests -> RemoteOpStates]
<1>1. [state |-> "active", m |-> m] \in Entries
  BY DEF Entries
<1>2. log' \in Seq(Entries)
  BY <1>1 DEF RemoteActivate
<1>3. remoteOps' \in [Manifests -> RemoteOpStates]
  BY DEF RemoteActivate, RemoteOpStates
<1> QED
  BY <1>2, <1>3

(* What a mutation makes of a share that exists is a state of lab.gd's.    *)
LEMMA EntryStateType ==
  ASSUME log \in Seq(Entries), RemoteState # "none", NEW kind
  PROVE  EntryState(kind) \in {"active", "unpublished", "deleted", "expired"}
<1>1. RemoteState \in {"active", "unpublished", "deleted", "expired"}
  <2>1. log # <<>> /\ RemoteState = log[Len(log)].state
    BY DEF RemoteState
  <2>2. log[Len(log)] \in Entries
    BY <2>1
  <2> QED
    BY <2>1, <2>2 DEF Entries
<1> QED
  BY <1>1 DEF EntryState

(* A mutation executed by lab.gd keeps the types of its state.             *)
LEMMA RemoteLifecycleType ==
  ASSUME log \in Seq(Entries), remoteDone \in [MutationKeys -> Nat],
         NEW k, NEW exp, NEW reply, NEW rev,
         RemoteLifecycle(k, exp, reply, rev)
  PROVE  log' \in Seq(Entries) /\ remoteDone' \in [MutationKeys -> Nat]
<1> DEFINE entry == [m |-> NoManifest, state |-> EntryState(k[1])]
<1>1. RemoteState # "none" => entry \in Entries
  BY EntryStateType DEF Entries
<1>2. \/ log' = log /\ remoteDone' = remoteDone
      \/ /\ RemoteState # "none" /\ log' = Append(log, entry)
         /\ remoteDone' = [remoteDone EXCEPT ![k] = Len(log) + 1]
  BY DEF RemoteLifecycle
<1> HIDE DEF entry
<1>3. log' \in Seq(Entries)
  BY <1>1, <1>2
<1>4. Len(log) + 1 \in Nat
  OBVIOUS
<1>5. remoteDone' \in [MutationKeys -> Nat]
  BY <1>2, <1>4
<1> QED
  BY <1>3, <1>5

(* A direct request is sent under a key of its own; a settings change      *)
(* whose row is fresh was sent at the revision the share still has; and an *)
(* acknowledged request made a revision of lab.gd.                         *)
DirectOK ==
  \A d \in direct :
    /\ DirectKey(d) \in MutationKeys
    /\ d.kind = "settings" => d.m \in Manifests
    /\ d.fresh => d.kind = "settings" /\ d.exp = share.rrev
    /\ d.reply = "ok" => d.rev \in 1..Len(log)

(* Every step keeps the types. *)
LEMMA StepType == TypeOK /\ DirectOK /\ [Next]_vars => TypeOK'
<1> SUFFICES ASSUME TypeOK, DirectOK, [Next]_vars PROVE TypeOK'
  OBVIOUS
<1> USE DEF local, remote, bounds
<1>0. direct' \in {direct, Touched(direct)} => direct' \subseteq DirectType
  BY TouchedType DEF TypeOK
<1>1. ASSUME NEW m \in Manifests, EditContent(m) PROVE TypeOK'
  <2>1. share' \in ShareType
    BY <1>1 DEF EditContent, TypeOK, ShareType, ShareStates
  <2>2. scheduling' \subseteq ScheduleType
    <3>1. [m |-> m, rrev |-> share.rrev, active |-> share.active] \in ScheduleType
      BY DEF TypeOK, ScheduleType, ShareType
    <3> QED
      BY <1>1, <3>1 DEF EditContent, TypeOK
  <2>3. direct' \subseteq DirectType
    BY <1>0, <1>1 DEF EditContent
  <2> QED
    BY <1>1, <2>1, <2>2, <2>3 DEF EditContent, TypeOK
<1>2. ASSUME NEW m \in Manifests, ResourceSnapshot(m) PROVE TypeOK'
  <2>1. share' \in ShareType
    BY <1>2 DEF ResourceSnapshot, TypeOK, ShareType, ShareStates
  <2>2. direct' \subseteq DirectType
    BY <1>0, <1>2 DEF ResourceSnapshot
  <2> QED
    BY <1>2, <2>1, <2>2 DEF ResourceSnapshot, TypeOK
<1>3. CASE ApprovePreview
  <2>1. share' \in ShareType
    BY <1>3 DEF ApprovePreview, TypeOK, ShareType, ShareStates
  <2>2. direct' \subseteq DirectType
    BY <1>0, <1>3 DEF ApprovePreview
  <2> QED
    BY <1>3, <2>1, <2>2 DEF ApprovePreview, TypeOK
<1>4. CASE EnqueuePublishStarts
  BY <1>4 DEF EnqueuePublishStarts, TypeOK
<1>5. ASSUME NEW kind \in LifecycleKinds, EnqueueLifecycle(kind) PROVE TypeOK'
  <2>1. lifecycle' \in [LifecycleKeys -> LifecycleType]
    BY <1>5 DEF EnqueueLifecycle, TypeOK, LifecycleType, OpStates
  <2> QED
    BY <1>5, <2>1 DEF EnqueueLifecycle, TypeOK
<1>51. ASSUME NEW kind \in DirectKinds, NEW m \in Manifests \cup {NoManifest},
              DirectStarts(kind, m)
       PROVE  TypeOK'
  <2>1. NewDirect(kind, m) \in DirectType
    <3>1. share.rrev \in Nat
      BY DEF TypeOK, ShareType
    <3> QED
      BY <3>1 DEF NewDirect, DirectType
  <2>2. direct' \subseteq DirectType
    BY <1>51, <2>1 DEF DirectStarts, TypeOK
  <2>3. edits' \in Nat /\ sent' \in Nat
    BY <1>51 DEF DirectStarts, TypeOK
  <2> QED
    BY <1>51, <2>2, <2>3 DEF DirectStarts, TypeOK
<1>52. ASSUME NEW d \in direct, DirectReplies(d) \/ SettingsReplies(d)
       PROVE  TypeOK'
  <2>1. d \in DirectType /\ d.rev \in 1..Len(log) /\ share \in ShareType
    BY <1>52 DEF TypeOK, DirectOK, DirectReplies, SettingsReplies, Accepted
  <2>2. log[d.rev] \in Entries /\ d.rev \in Nat
    BY <2>1 DEF TypeOK
  <2>3. RemoteShareState(log[d.rev].state) \in ShareStates
    BY <2>2 DEF RemoteShareState, Entries, ShareStates
  <2>4. share' \in ShareType
    <3>1. CASE DirectReplies(d)
      BY <2>1, <2>2, <2>3, <3>1 DEF DirectReplies, ShareType
    <3>2. CASE SettingsReplies(d)
      BY <2>1, <2>2, <2>3, <3>2 DEF SettingsReplies, ShareType
    <3> QED
      BY <1>52, <3>1, <3>2
  <2>5. direct' \subseteq DirectType
    <3>1. direct \ {d} \subseteq DirectType /\ direct' = Touched(direct \ {d})
      BY <1>52 DEF TypeOK, DirectReplies, SettingsReplies
    <3> QED
      BY <3>1, TouchedType
  <2>6. CASE DirectReplies(d)
    BY <2>4, <2>5, <2>6 DEF DirectReplies, TypeOK
  <2>7. CASE SettingsReplies(d)
    <3>1. d.m \in Manifests
      BY <2>7 DEF SettingsReplies, DirectOK
    <3>2. [m |-> d.m, rrev |-> d.rev, active |-> share.active] \in ScheduleType
      BY <2>1, <2>2, <3>1 DEF ScheduleType, ShareType
    <3>3. scheduling' \subseteq ScheduleType
      BY <2>7, <3>2 DEF SettingsReplies, TypeOK
    <3> QED
      BY <2>4, <2>5, <2>7, <3>1, <3>3 DEF SettingsReplies, TypeOK
  <2> QED
    BY <1>52, <2>6, <2>7
<1>53. DirectRequests \subseteq RequestType
  <2>1. ASSUME NEW d \in direct PROVE DirectRequest(d) \in RequestType
    <3>1. DirectKey(d) \in Keys /\ d.exp \in Nat
      BY KeysType DEF DirectOK, TypeOK, DirectType
    <3> QED
      BY <3>1 DEF DirectRequest, RequestType
  <2> QED
    BY <2>1 DEF DirectRequests
<1>54. ASSUME NEW d \in direct, DirectFails(d) PROVE TypeOK'
  <2>1. late' \subseteq late \cup DirectRequests
    <3>1. late' \in Delayed({DirectRequest(e) : e \in {d} \cap {f \in direct : f.reply = "none"}})
      BY <1>54 DEF DirectFails
    <3>2. {DirectRequest(e) : e \in {d} \cap {f \in direct : f.reply = "none"}} \subseteq DirectRequests
      BY DEF DirectRequests
    <3> QED
      BY <3>1, <3>2, DelayedIn
  <2>2. late' \subseteq RequestType /\ direct' \subseteq DirectType
    BY <1>53, <1>54, <2>1 DEF DirectFails, TypeOK
  <2> QED
    BY <1>54, <2>2 DEF DirectFails, TypeOK
<1>55. ASSUME NEW d \in direct, RemoteAnswersDirect(d) PROVE TypeOK'
  <2>1. PICK reply \in {"ok", "conflict"}, rev \in 0..(Len(log) + 1) :
          /\ RemoteLifecycle(DirectKey(d), d.exp, reply, rev)
          /\ direct' = (direct \ {d}) \cup {[d EXCEPT !.reply = reply, !.rev = rev]}
    BY <1>55 DEF RemoteAnswersDirect
  <2>2. log' \in Seq(Entries) /\ remoteDone' \in [MutationKeys -> Nat]
    BY <2>1, RemoteLifecycleType DEF TypeOK
  <2>3. rev \in Nat
    BY DEF TypeOK
  <2>4. [d EXCEPT !.reply = reply, !.rev = rev] \in DirectType
    BY <2>3 DEF TypeOK, DirectType
  <2>5. direct' \subseteq DirectType
    BY <2>1, <2>4 DEF TypeOK
  <2> QED
    BY <1>55, <2>2, <2>5 DEF RemoteAnswersDirect, TypeOK
<1>6. ASSUME NEW s \in scheduling, ScheduleResumes(s) PROVE TypeOK'
  <2>1. s \in ScheduleType /\ ops \in [Manifests -> OpType] /\ share \in ShareType
    BY DEF TypeOK
  <2>2. ops' \in [Manifests -> OpType]
    <3>1. CancelPending(ops) \in [Manifests -> OpType]
      BY <2>1, CancelPendingKeeps
    <3>2. s.rrev \in Nat /\ s.m \in Manifests
      BY <2>1 DEF ScheduleType
    <3>3. Enqueued(CancelPending(ops)[s.m], s.rrev, FALSE) \in OpType
      BY <3>1, <3>2, EnqueuedType
    <3> QED
      BY <1>6, <3>1, <3>2, <3>3 DEF ScheduleResumes
  <2>3. share' \in ShareType
    BY <1>6, <2>1 DEF ScheduleResumes, ShareType, ShareStates
  <2>4. direct' \subseteq DirectType
    BY <1>0, <1>6 DEF ScheduleResumes
  <2> QED
    BY <1>6, <2>2, <2>3, <2>4 DEF ScheduleResumes, TypeOK
<1>7. ASSUME NEW m \in publishing, EnqueuePublishResumes(m) PROVE TypeOK'
  <2>1. m \in Manifests /\ share \in ShareType /\ ops \in [Manifests -> OpType]
    BY DEF TypeOK
  <2>2. Enqueued(ops[m], share.rrev, TRUE) \in OpType
    BY <2>1, EnqueuedType DEF ShareType
  <2>3. ops' \in [Manifests -> OpType]
    BY <1>7, <2>1, <2>2 DEF EnqueuePublishResumes
  <2>4. share' \in ShareType
    BY <1>7, <2>1 DEF EnqueuePublishResumes, ShareType, ShareStates
  <2>5. direct' \subseteq DirectType
    BY <1>0, <1>7 DEF EnqueuePublishResumes
  <2> QED
    BY <1>7, <2>3, <2>4, <2>5 DEF EnqueuePublishResumes, TypeOK
<1>8. ASSUME NEW m \in Manifests, PickPublish(m) PROVE TypeOK'
  <2>1. worker' \in WorkerType
    BY <1>8, IdleWorkerType DEF PickPublish, TypeOK, OpType, WorkerType, Pcs
  <2> QED
    BY <1>8, <2>1 DEF PickPublish, TypeOK
<1>9. ASSUME NEW k \in LifecycleKeys, PickLifecycle(k) PROVE TypeOK'
  <2>1. worker' \in WorkerType
    BY <1>9, IdleWorkerType, KeysType
       DEF PickLifecycle, TypeOK, LifecycleType, ShareType, WorkerType, Pcs
  <2> QED
    BY <1>9, <2>1 DEF PickLifecycle, TypeOK
<1>10. CASE StageReplies
  <2>1. CASE CompletePublication
    <3>1. TypeOK /\ worker' \in WorkerType
      BY <2>1, CompletePublicationType, IdleWorkerType DEF TypeOK
    <3>2. /\ ops' \in [Manifests -> OpType] /\ share' \in ShareType /\ UNCHANGED lifecycle
          /\ direct' \subseteq DirectType
      BY <1>0, <2>1, CompletePublicationType DEF TypeOK
    <3>3. remoteOps' \in [Manifests -> RemoteOpStates]
      BY <1>10 DEF StageReplies, TypeOK, RemoteOpStates
    <3> QED
      BY <1>10, <3>1, <3>2, <3>3 DEF StageReplies, TypeOK
  <2>2. CASE AttemptFails("final")
    <3>1. /\ worker' = IdleWorker /\ ops' \in [Manifests -> OpType]
          /\ share' \in ShareType /\ lifecycle' \in [LifecycleKeys -> LifecycleType]
          /\ direct' \subseteq DirectType
      BY <1>0, <2>2, AttemptFailsType DEF TypeOK
    <3>2. remoteOps' \in [Manifests -> RemoteOpStates]
      BY <1>10 DEF StageReplies, TypeOK, RemoteOpStates
    <3> QED
      BY <1>10, <3>1, <3>2, IdleWorkerType DEF StageReplies, TypeOK
  <2>3. CASE /\ remoteOps' = [remoteOps EXCEPT ![worker.m] = IF @ = "none" THEN "staged" ELSE @]
             /\ ops' = [ops EXCEPT ![worker.m].state = "running"]
             /\ worker' = [worker EXCEPT !.pc = "activating"]
             /\ UNCHANGED <<share, lifecycle, direct>>
    <3>1. ops' \in [Manifests -> OpType]
      BY <2>3 DEF TypeOK, OpType, OpStates
    <3>2. worker' \in WorkerType
      BY <2>3 DEF TypeOK, WorkerType, Pcs
    <3>3. remoteOps' \in [Manifests -> RemoteOpStates]
      BY <2>3 DEF TypeOK, RemoteOpStates
    <3> QED
      BY <1>10, <2>3, <3>1, <3>2, <3>3 DEF StageReplies, TypeOK
  <2> QED
    BY <1>10, <2>1, <2>2, <2>3 DEF StageReplies
<1>11. CASE ActivateReplies \/ RestageReplies
  <2>1. /\ UNCHANGED <<content, scheduling, publishing, cursor, remote, late, bounds>>
        /\ \/ CompletePublication
           \/ \E error \in {"registry", "final"} : AttemptFails(error)
           \/ /\ worker' = [worker EXCEPT !.pc = "restaging", !.reply = "none"]
              /\ UNCHANGED <<share, ops, lifecycle, direct>>
    BY <1>11 DEF ActivateReplies, RestageReplies
  <2> DEFINE Written ==
        /\ worker' \in WorkerType /\ ops' \in [Manifests -> OpType]
        /\ share' \in ShareType /\ lifecycle' \in [LifecycleKeys -> LifecycleType]
        /\ direct' \subseteq DirectType
  <2>2. Written
    <3>1. CASE CompletePublication
      BY <1>0, <3>1, CompletePublicationType, IdleWorkerType DEF TypeOK
    <3>2. ASSUME NEW error \in {"registry", "final"}, AttemptFails(error)
          PROVE  Written
      BY <1>0, <3>2, AttemptFailsType, IdleWorkerType DEF TypeOK
    <3>3. CASE /\ worker' = [worker EXCEPT !.pc = "restaging", !.reply = "none"]
               /\ UNCHANGED <<share, ops, lifecycle, direct>>
      BY <3>3 DEF TypeOK, WorkerType, Pcs
    <3> QED
      BY <2>1, <3>1, <3>2, <3>3
  <2> QED
    BY <2>1, <2>2 DEF TypeOK
<1>12. CASE LifecycleReplies
  <2>1. CASE AttemptFails("final")
    <3>1. /\ worker' = IdleWorker /\ ops' \in [Manifests -> OpType]
          /\ share' \in ShareType /\ lifecycle' \in [LifecycleKeys -> LifecycleType]
          /\ direct' \subseteq DirectType
      BY <1>0, <2>1, AttemptFailsType DEF TypeOK
    <3> QED
      BY <1>12, <3>1, IdleWorkerType DEF LifecycleReplies, TypeOK
  <2>2. CASE /\ lifecycle' = [lifecycle EXCEPT ![worker.key].state = "succeeded"]
             /\ share' = [share EXCEPT !.rrev = worker.rev, !.state =
                  IF worker.key[1] = "unpublish" THEN "unpublished" ELSE "deleted"]
             /\ worker' = IdleWorker
             /\ direct' = Touched(direct)
             /\ UNCHANGED ops
    <3>1. lifecycle' \in [LifecycleKeys -> LifecycleType]
      BY <2>2 DEF TypeOK, LifecycleType, OpStates
    <3>2. share' \in ShareType
      BY <2>2 DEF TypeOK, ShareType, ShareStates, WorkerType
    <3>3. direct' \subseteq DirectType
      BY <1>0, <2>2
    <3> QED
      BY <1>12, <2>2, <3>1, <3>2, <3>3, IdleWorkerType DEF LifecycleReplies, TypeOK
  <2> QED
    BY <1>12, <2>1, <2>2 DEF LifecycleReplies
<1>13. WorkerRequests \subseteq RequestType
  <2>1. worker.pc \in {"activating", "lifecycle"} => Request(worker) \in RequestType
    BY DEF Request, TypeOK, WorkerType, RequestType
  <2> QED
    BY <2>1 DEF WorkerRequests
<1>14. ASSUME NEW error \in {"retryable", "transient", "final"}, RequestFails(error)
       PROVE  TypeOK'
  <2>1. AttemptFails(error)
    BY <1>14 DEF RequestFails
  <2>2. /\ worker' = IdleWorker /\ ops' \in [Manifests -> OpType]
        /\ share' \in ShareType /\ lifecycle' \in [LifecycleKeys -> LifecycleType]
        /\ direct' \subseteq DirectType
    BY <1>0, <2>1, AttemptFailsType DEF TypeOK
  <2>3. late' \subseteq RequestType
    <3>1. late' \subseteq late \cup WorkerRequests
      BY <1>14, DelayedIn DEF RequestFails
    <3> QED
      BY <1>13, <3>1 DEF TypeOK
  <2> QED
    BY <1>14, <2>2, <2>3, IdleWorkerType DEF RequestFails, TypeOK
<1>15. CASE Crash
  <2>1. late' \subseteq late \cup (WorkerRequests \cup DirectRequests)
    BY <1>15, DelayedIn DEF Crash
  <2>2. late' \subseteq RequestType
    BY <1>13, <1>53, <2>1 DEF TypeOK
  <2> QED
    BY <1>15, <2>2, IdleWorkerType DEF Crash, TypeOK
<1>16. CASE RemoteAnswers
  <2>1. ASSUME NEW reply \in {"ok", "conflict", "publication-failed"},
               RemoteActivate(worker.m, worker.exp, reply),
               worker' = [worker EXCEPT !.reply = reply], UNCHANGED remoteDone
        PROVE  TypeOK'
    <3>1. worker.m \in Manifests \cup {NoManifest}
      BY DEF TypeOK, WorkerType
    <3>2. log' \in Seq(Entries) /\ remoteOps' \in [Manifests -> RemoteOpStates]
      BY <2>1, <3>1, RemoteActivateType DEF TypeOK
    <3>3. worker' \in WorkerType
      BY <2>1 DEF TypeOK, WorkerType
    <3> QED
      BY <1>16, <2>1, <3>2, <3>3 DEF RemoteAnswers, TypeOK
  <2>2. ASSUME NEW reply \in {"ok", "conflict"}, NEW rev \in 0..(Len(log) + 1),
               RemoteLifecycle(worker.key, worker.exp, reply, rev),
               worker' = [worker EXCEPT !.reply = reply, !.rev = rev], UNCHANGED remoteOps
        PROVE  TypeOK'
    <3>1. log' \in Seq(Entries) /\ remoteDone' \in [MutationKeys -> Nat]
      BY <2>2, RemoteLifecycleType DEF TypeOK
    <3>2. rev \in Nat
      BY DEF TypeOK
    <3>3. worker' \in WorkerType
      BY <2>2, <3>2 DEF TypeOK, WorkerType
    <3> QED
      BY <1>16, <2>2, <3>1, <3>3 DEF RemoteAnswers, TypeOK
  <2> QED
    BY <1>16, <2>1, <2>2 DEF RemoteAnswers
<1>17. ASSUME NEW r \in late, RemoteAnswersLate(r) PROVE TypeOK'
  <2>1. late' \subseteq RequestType
    BY <1>17 DEF RemoteAnswersLate, TypeOK
  <2>2. ASSUME NEW reply, RemoteActivate(r.m, r.exp, reply), UNCHANGED remoteDone
        PROVE  TypeOK'
    <3>1. r.m \in Manifests \cup {NoManifest}
      BY DEF TypeOK, RequestType
    <3>2. log' \in Seq(Entries) /\ remoteOps' \in [Manifests -> RemoteOpStates]
      BY <2>2, <3>1, RemoteActivateType DEF TypeOK
    <3> QED
      BY <1>17, <2>1, <2>2, <3>2 DEF RemoteAnswersLate, TypeOK
  <2>3. ASSUME NEW reply, NEW rev, RemoteLifecycle(r.key, r.exp, reply, rev),
               UNCHANGED remoteOps
        PROVE  TypeOK'
    <3>1. log' \in Seq(Entries) /\ remoteDone' \in [MutationKeys -> Nat]
      BY <2>3, RemoteLifecycleType DEF TypeOK
    <3> QED
      BY <1>17, <2>1, <2>3, <3>1 DEF RemoteAnswersLate, TypeOK
  <2> QED
    BY <1>17, <2>2, <2>3 DEF RemoteAnswersLate
<1>18. ASSUME NEW state \in {"expired", "unpublished"}, RemoteChange(state) PROVE TypeOK'
  <2>1. [state |-> state, m |-> NoManifest] \in Entries
    BY DEF Entries
  <2>2. log' \in Seq(Entries)
    BY <1>18, <2>1 DEF RemoteChange, TypeOK
  <2> QED
    BY <1>18, <2>2 DEF RemoteChange, TypeOK
<1>19. ASSUME NEW i \in 1..Len(log), ApplyRemoteEvent(i) PROVE TypeOK'
  <2>1. log[i] \in Entries /\ i \in Nat
    BY DEF TypeOK
  <2>2. RemoteShareState(log[i].state) \in ShareStates
    BY <2>1 DEF RemoteShareState, Entries, ShareStates
  <2>3. share' \in ShareType
    BY <1>19, <2>1, <2>2 DEF ApplyRemoteEvent, TypeOK, ShareType
  <2>4. direct' \subseteq DirectType
    BY <1>0, <1>19 DEF ApplyRemoteEvent
  <2> QED
    BY <1>19, <2>1, <2>3, <2>4 DEF ApplyRemoteEvent, TypeOK
<1>20. CASE UNCHANGED vars
  BY <1>20 DEF vars, TypeOK
<1> QED
  BY <1>1, <1>2, <1>3, <1>4, <1>5, <1>6, <1>7, <1>8, <1>9, <1>10, <1>11, <1>12,
     <1>14, <1>15, <1>16, <1>17, <1>18, <1>19, <1>20, <1>51, <1>52, <1>54, <1>55
     DEF Next, Requests, Resumptions, DirectSteps, Work, Faults

-----------------------------------------------------------------------------
(* The inductive invariant *)

(* The request the worker awaits carries the intent of the row it works    *)
(* on, which meanwhile may be cancelled and queued again but never         *)
(* disappears or succeeds; and an acknowledged activation or lifecycle     *)
(* request was carried out.                                                *)
WorkerOK ==
  /\ worker.pc \in {"idle", "lifecycle"} => worker.m = NoManifest
  /\ worker.pc \in {"staging", "restaging"} => worker.reply = "none"
  /\ worker.pc \in {"staging", "activating", "restaging"} =>
       /\ worker.m \in Manifests
       /\ ops[worker.m].state \notin {"none", "succeeded"}
       /\ worker.exp = ops[worker.m].expected
  /\ worker.pc = "activating" /\ worker.reply = "ok" => remoteOps[worker.m] = "active"
  /\ worker.pc = "lifecycle" =>
       /\ worker.key \in LifecycleKeys
       /\ worker.reply = "ok" => worker.rev <= Len(log)

(* So does every abandoned activation that may still arrive. *)
LateOK ==
  \A r \in late :
    /\ r.pc = "activating" =>
         /\ r.m \in Manifests
         /\ ops[r.m].state # "none"
         /\ r.exp = ops[r.m].expected
    /\ r.pc = "lifecycle" => r.key \in MutationKeys

(* lab.gd's operations and its revisions agree with the rows: a manifest   *)
(* it activated is exactly the entry at its row's expected revision + 1.   *)
RemoteOK ==
  /\ \A m \in Manifests :
       /\ ops[m].state = "none" => remoteOps[m] = "none"
       /\ ops[m].state = "succeeded" => remoteOps[m] = "active"
       /\ remoteOps[m] = "active" =>
            /\ ops[m].expected < Len(log)
            /\ log[ops[m].expected + 1] = [state |-> "active", m |-> m]
  /\ \A i \in 1..Len(log) : log[i].m \in Manifests =>
       remoteOps[log[i].m] = "active" /\ i = ops[log[i].m].expected + 1
  /\ \A k \in MutationKeys : remoteDone[k] <= Len(log)

IInv == TypeOK /\ WorkerOK /\ DirectOK /\ LateOK /\ RemoteOK /\ NotAheadOfRemote

(* The numbers the invariant compares. *)
LEMMA Numbers ==
  ASSUME TypeOK
  PROVE  /\ share.rrev \in Nat /\ worker.exp \in Nat /\ worker.rev \in Nat
         /\ cursor \in Nat /\ Len(log) \in Nat
         /\ \A m \in Manifests : ops[m].expected \in Nat
<1>1. share.rrev \in Nat
  BY DEF TypeOK, ShareType
<1>2. worker.exp \in Nat /\ worker.rev \in Nat
  BY DEF TypeOK, WorkerType
<1>3. \A m \in Manifests : ops[m].expected \in Nat
  BY DEF TypeOK, OpType
<1>4. cursor \in Nat /\ Len(log) \in Nat
  BY DEF TypeOK
<1> QED
  BY <1>1, <1>2, <1>3, <1>4

(* The inductive invariant holds initially.                                *)
LEMMA InitInv == Init => IInv
<1> SUFFICES ASSUME Init PROVE IInv
  OBVIOUS
<1>1. TypeOK
  BY InitType
<1>2. log = <<>> /\ late = {} /\ worker.pc = "idle" /\ worker.m = NoManifest
  BY DEF Init, IdleWorker
<1>3. \A m \in Manifests : ops[m].state = "none" /\ remoteOps[m] = "none"
  BY DEF Init, NoOp
<1>4. Len(log) = 0 /\ \A k \in MutationKeys : remoteDone[k] = 0
  BY <1>2 DEF Init
<1>5. WorkerOK /\ LateOK /\ DirectOK
  BY <1>2 DEF WorkerOK, LateOK, DirectOK, Init
<1>6. RemoteOK
  BY <1>3, <1>4 DEF RemoteOK
<1>7. NotAheadOfRemote
  BY <1>4 DEF NotAheadOfRemote, Init
<1> QED
  BY <1>1, <1>5, <1>6, <1>7 DEF IInv

(* No step changes the intent of a row or makes it disappear. *)
IntentKept ==
  \A m \in Manifests : ops[m].state # "none" =>
    ops'[m].state # "none" /\ ops'[m].expected = ops[m].expected

(* No step but completePublication makes a row succeed. *)
NothingCompleted ==
  \A m \in Manifests : ops'[m].state = "succeeded" => ops[m].state = "succeeded"

(* enqueueOperation reopens a row only with the intent it has. *)
LEMMA EnqueuedKeeps ==
  ASSUME NEW op \in OpType, NEW expected \in Nat, NEW retry \in BOOLEAN,
         op.state # "none" => op.expected = expected
  PROVE  /\ op.state # "none" =>
               /\ Enqueued(op, expected, retry).state # "none"
               /\ Enqueued(op, expected, retry).expected = op.expected
         /\ Enqueued(op, expected, retry).state = "succeeded" => op.state = "succeeded"
BY DEF Enqueued, NewOp, OpType, OpStates

(* Steps that leave lab.gd alone keep RemoteOK if they keep the intents    *)
(* and let succeed only what lab.gd activated.                             *)
LEMMA RemoteOKKept ==
  ASSUME RemoteOK, IntentKept, UNCHANGED <<log, remoteOps, remoteDone>>,
         \A m \in Manifests : ops'[m].state = "succeeded" => remoteOps[m] = "active"
  PROVE  RemoteOK'
<1>1. \A m \in Manifests : remoteOps[m] = "active" =>
        ops[m].state # "none" /\ ops'[m].expected = ops[m].expected
  BY DEF RemoteOK, IntentKept
<1>2. ASSUME NEW m \in Manifests
      PROVE  /\ ops'[m].state = "none" => remoteOps'[m] = "none"
             /\ ops'[m].state = "succeeded" => remoteOps'[m] = "active"
             /\ remoteOps'[m] = "active" =>
                  /\ ops'[m].expected < Len(log')
                  /\ log'[ops'[m].expected + 1] = [state |-> "active", m |-> m]
  BY <1>1 DEF RemoteOK, IntentKept
<1>3. ASSUME NEW i \in 1..Len(log'), log'[i].m \in Manifests
      PROVE  remoteOps'[log'[i].m] = "active" /\ i = ops'[log'[i].m].expected + 1
  BY <1>1, <1>3 DEF RemoteOK
<1> QED
  BY <1>2, <1>3 DEF RemoteOK

(* A step that writes the share row withdraws every settings change that   *)
(* is awaited; any other leaves the revision alone.                        *)
DirectStep ==
  \/ \E ds \in SUBSET direct : direct' = Touched(ds)
  \/ direct' \subseteq direct /\ share'.rrev = share.rrev

(* Such a step keeps what is known of the direct requests. *)
LEMMA DirectKept ==
  ASSUME TypeOK, DirectOK, DirectStep, Len(log) \in Nat, Len(log') \in Nat,
         Len(log) <= Len(log')
  PROVE  DirectOK'
<1>1. CASE direct' \subseteq direct /\ share'.rrev = share.rrev
  <2>1. \A rev : rev \in 1..Len(log) => rev \in 1..Len(log')
    OBVIOUS
  <2> QED
    BY <1>1, <2>1, Zenon DEF DirectOK
<1>2. ASSUME NEW ds \in SUBSET direct, direct' = Touched(ds) PROVE DirectOK'
  <2>0. ASSUME NEW d \in direct'
        PROVE  /\ DirectKey(d) \in MutationKeys
               /\ d.kind = "settings" => d.m \in Manifests
               /\ d.fresh => FALSE
               /\ d.reply = "ok" => d.rev \in 1..Len(log')
    <3>1. PICK e \in ds : d = [e EXCEPT !.fresh = FALSE]
      BY <1>2, Zenon DEF Touched
    <3>2. e \in direct /\ e \in DirectType
      BY <1>2, <3>1 DEF TypeOK
    <3>3. /\ d.kind = e.kind /\ d.exp = e.exp /\ d.m = e.m /\ d.reply = e.reply
          /\ d.rev = e.rev /\ d.fresh = FALSE
      BY <3>1, <3>2 DEF DirectType
    <3>4. /\ DirectKey(e) \in MutationKeys
          /\ e.kind = "settings" => e.m \in Manifests
          /\ e.reply = "ok" => e.rev \in 1..Len(log)
      BY <3>2 DEF DirectOK
    <3>5. DirectKey(d) = DirectKey(e)
      BY <3>3 DEF DirectKey
    <3> QED
      BY <3>3, <3>4, <3>5
  <2> QED
    BY <2>0 DEF DirectOK
<1> QED
  BY <1>1, <1>2 DEF DirectStep

(* What a request, a preview or an event does: it leaves the worker,       *)
(* lab.gd and the requests on their way alone, keeps the intents,          *)
(* completes nothing and never takes the revision back.                    *)
Quiet ==
  /\ IntentKept /\ NothingCompleted
  /\ UNCHANGED <<worker, log, remoteOps, remoteDone, late>>
  /\ share.rrev <= share'.rrev /\ share'.rrev <= Len(log) /\ cursor' <= Len(log)

(* Such a step keeps the inductive invariant. *)
LEMMA LocalStep ==
  ASSUME IInv, TypeOK', DirectOK', IntentKept, NothingCompleted,
         UNCHANGED <<worker, log, remoteOps, remoteDone, late>>,
         share'.rrev <= Len(log), cursor' <= Len(log)
  PROVE  IInv'
<1> USE DEF IInv
<1>1. WorkerOK'
  BY DEF WorkerOK, IntentKept, NothingCompleted
<1>2. LateOK'
  BY DEF LateOK, IntentKept
<1>3. RemoteOK'
  BY RemoteOKKept DEF RemoteOK, NothingCompleted
<1>4. NotAheadOfRemote'
  BY DEF NotAheadOfRemote
<1> QED
  BY <1>1, <1>2, <1>3, <1>4

(* A step that ends awaited requests without a completion: a failed        *)
(* attempt, a crash, or a reply to unpublish or delete.                    *)
LEMMA WorkerIdleStep ==
  ASSUME IInv, TypeOK', IntentKept, NothingCompleted, worker' = IdleWorker,
         UNCHANGED <<log, remoteOps, remoteDone, cursor>>, DirectStep,
         late' \subseteq late \cup (WorkerRequests \cup DirectRequests),
         share'.rrev <= Len(log)
  PROVE  IInv'
<1> USE DEF IInv
<1>1. WorkerOK'
  BY DEF WorkerOK, IdleWorker
<1>2. LateOK'
  <2> SUFFICES ASSUME NEW r \in late'
               PROVE  /\ r.pc = "activating" =>
                           /\ r.m \in Manifests
                           /\ ops'[r.m].state # "none"
                           /\ r.exp = ops'[r.m].expected
                      /\ r.pc = "lifecycle" => r.key \in MutationKeys
    BY DEF LateOK
  <2>1. CASE r \in late
    BY <2>1 DEF LateOK, IntentKept
  <2>2. CASE r \in WorkerRequests
    <3>1. r = Request(worker)
      BY <2>2 DEF WorkerRequests
    <3>2. r.pc = worker.pc /\ r.m = worker.m /\ r.exp = worker.exp /\ r.key = worker.key
      BY <3>1 DEF Request
    <3> QED
      BY <3>2, KeysType DEF WorkerOK, IntentKept
  <2>3. CASE r \in DirectRequests
    <3>1. PICK d \in direct : r = DirectRequest(d)
      BY <2>3 DEF DirectRequests
    <3>2. r.pc = "lifecycle" /\ r.key = DirectKey(d)
      BY <3>1 DEF DirectRequest
    <3> QED
      BY <3>2 DEF DirectOK
  <2> QED
    BY <2>1, <2>2, <2>3
<1>3. RemoteOK'
  BY RemoteOKKept DEF RemoteOK, NothingCompleted
<1>4. NotAheadOfRemote'
  BY DEF NotAheadOfRemote
<1>5. DirectOK'
  BY DirectKept, Numbers
<1> QED
  BY <1>1, <1>2, <1>3, <1>4, <1>5

(* completePublication for an operation lab.gd has activated. *)
LEMMA CompleteStep ==
  ASSUME IInv, TypeOK', CompletePublication,
         worker.pc \in {"staging", "activating", "restaging"},
         remoteOps[worker.m] = "active",
         UNCHANGED <<log, remoteOps, remoteDone, late, cursor>>
  PROVE  IInv'
<1> USE DEF IInv
<1>1. /\ worker.m \in Manifests
      /\ ops[worker.m].state # "none"
      /\ worker.exp = ops[worker.m].expected
  BY DEF WorkerOK
<1>2. /\ worker' = IdleWorker
      /\ share'.rrev = IF share.rrev < worker.exp + 1 THEN worker.exp + 1 ELSE share.rrev
      /\ \A m \in Manifests :
           /\ ops'[m].expected = ops[m].expected
           /\ m # worker.m => ops'[m] = ops[m]
           /\ m = worker.m => ops'[m].state = "succeeded"
      /\ direct' = Touched(direct) \/ (direct' = direct /\ share'.rrev = share.rrev)
  BY CompletePublicationType DEF TypeOK
<1>3. /\ share.rrev \in Nat /\ worker.exp \in Nat /\ Len(log) \in Nat
      /\ \A m \in Manifests : ops[m].expected \in Nat
  BY Numbers
<1>4. IntentKept
  BY <1>1, <1>2 DEF IntentKept
<1>5. WorkerOK'
  BY <1>2 DEF WorkerOK, IdleWorker
<1>6. LateOK'
  BY <1>4 DEF LateOK, IntentKept
<1>7. RemoteOK'
  BY <1>2, <1>4, RemoteOKKept DEF RemoteOK
<1>8. NotAheadOfRemote'
  <2>1. worker.exp < Len(log)
    BY <1>1 DEF RemoteOK
  <2>2. share.rrev <= Len(log) /\ cursor <= Len(log)
    BY DEF NotAheadOfRemote
  <2>3. share'.rrev <= Len(log)
    BY <1>2, <1>3, <2>1, <2>2
  <2> QED
    BY <2>2, <2>3 DEF NotAheadOfRemote
<1>9. DirectOK'
  <2>1. DirectStep
    BY <1>2 DEF DirectStep
  <2> QED
    BY <1>3, <2>1, DirectKept
<1> QED
  BY <1>5, <1>6, <1>7, <1>8, <1>9

(* lab.gd appends an entry without a manifest. *)
LEMMA AppendOther ==
  ASSUME TypeOK, RemoteOK, NEW entry \in Entries, entry.m = NoManifest,
         log' = Append(log, entry), UNCHANGED <<ops, remoteOps>>,
         \A k \in MutationKeys : remoteDone'[k] <= Len(log) + 1
  PROVE  RemoteOK'
<1>1. Len(log') = Len(log) + 1 /\ Len(log) \in Nat
  BY DEF TypeOK
<1>2. \A i \in 1..Len(log) : log'[i] = log[i]
  BY DEF TypeOK
<1>3. log'[Len(log) + 1].m = NoManifest
  BY DEF TypeOK
<1>4. ASSUME NEW m \in Manifests
      PROVE  /\ ops'[m].state = "none" => remoteOps'[m] = "none"
             /\ ops'[m].state = "succeeded" => remoteOps'[m] = "active"
             /\ remoteOps'[m] = "active" =>
                  /\ ops'[m].expected < Len(log')
                  /\ log'[ops'[m].expected + 1] = [state |-> "active", m |-> m]
  <2>1. ops[m].expected \in Nat
    BY DEF TypeOK, OpType
  <2> QED
    BY <1>1, <1>2, <2>1 DEF RemoteOK
<1>5. ASSUME NEW i \in 1..Len(log'), log'[i].m \in Manifests
      PROVE  remoteOps'[log'[i].m] = "active" /\ i = ops'[log'[i].m].expected + 1
  <2>1. i \in 1..Len(log)
    BY <1>1, <1>3, <1>5, ManifestAssumption
  <2> QED
    BY <1>2, <1>5, <2>1 DEF RemoteOK
<1>6. \A k \in MutationKeys : remoteDone'[k] <= Len(log')
  BY <1>1
<1> QED
  BY <1>4, <1>5, <1>6 DEF RemoteOK

(* lab.gd executes an activation that carries the intent of its row: it    *)
(* answers as before, refuses, or appends the manifest at expected + 1.    *)
LEMMA ActivateStep ==
  ASSUME TypeOK, RemoteOK, NEW m \in Manifests, NEW exp, NEW reply,
         ops[m].state # "none", exp = ops[m].expected,
         RemoteActivate(m, exp, reply), UNCHANGED <<ops, remoteDone>>
  PROVE  /\ RemoteOK'
         /\ Len(log) <= Len(log')
         /\ reply = "ok" => remoteOps'[m] = "active"
         /\ \A n \in Manifests : remoteOps[n] = "active" => remoteOps'[n] = "active"
<1>1. Len(log) \in Nat /\ \A n \in Manifests : ops[n].expected \in Nat
  BY Numbers
<1>2. remoteOps \in [Manifests -> RemoteOpStates] /\ log \in Seq(Entries)
  BY DEF TypeOK
<1>3. CASE UNCHANGED log /\ UNCHANGED remoteOps
  <2>1. IntentKept
    BY DEF IntentKept
  <2>2. RemoteOK'
    BY <1>3, <2>1, RemoteOKKept DEF RemoteOK
  <2>3. reply = "ok" => remoteOps'[m] = "active"
    BY <1>2, <1>3 DEF RemoteActivate
  <2> QED
    BY <1>1, <1>3, <2>2, <2>3
<1>4. ASSUME NEW outcome \in {"blocked", "rejected"},
             remoteOps' = [remoteOps EXCEPT ![m] = outcome], UNCHANGED log,
             remoteOps[m] \in {"staged", "blocked"}, reply = "publication-failed"
      PROVE  /\ RemoteOK'
             /\ \A n \in Manifests : remoteOps[n] = "active" => remoteOps'[n] = "active"
  <2>1. \A n \in Manifests : n # m => remoteOps'[n] = remoteOps[n]
    BY <1>2, <1>4
  <2>2. remoteOps[m] # "active" /\ remoteOps'[m] # "active"
    BY <1>2, <1>4
  <2>3. ops[m].state # "succeeded"
    BY <2>2 DEF RemoteOK
  <2> QED
    BY <1>4, <2>1, <2>2, <2>3 DEF RemoteOK
<1>5. CASE /\ exp = Len(log)
           /\ log' = Append(log, [state |-> "active", m |-> m])
           /\ remoteOps' = [remoteOps EXCEPT ![m] = "active"]
           /\ remoteOps[m] \in {"staged", "blocked"}
  <2> DEFINE entry == [state |-> "active", m |-> m]
  <2>1. entry.m = m
    OBVIOUS
  <2>2. Len(log') = Len(log) + 1 /\ log'[Len(log) + 1] = entry
    BY <1>2, <1>5
  <2>3. \A i \in 1..Len(log) : log'[i] = log[i]
    BY <1>2, <1>5
  <2>4. remoteOps'[m] = "active" /\ \A n \in Manifests : n # m => remoteOps'[n] = remoteOps[n]
    BY <1>2, <1>5
  <2>5. ASSUME NEW n \in Manifests
        PROVE  /\ ops'[n].state = "none" => remoteOps'[n] = "none"
               /\ ops'[n].state = "succeeded" => remoteOps'[n] = "active"
               /\ remoteOps'[n] = "active" =>
                    /\ ops'[n].expected < Len(log')
                    /\ log'[ops'[n].expected + 1] = [state |-> "active", m |-> n]
    <3>1. CASE n = m
      <4>1. ops'[n].state # "none" /\ ops'[n].expected = Len(log)
        BY <1>5, <3>1
      <4>2. Len(log) < Len(log') /\ log'[Len(log) + 1] = [state |-> "active", m |-> n]
        BY <1>1, <2>2, <3>1
      <4> QED
        BY <2>4, <3>1, <4>1, <4>2
    <3>2. CASE n # m
      <4>1. remoteOps[n] = "active" =>
              /\ ops[n].expected + 1 \in 1..Len(log)
              /\ log[ops[n].expected + 1] = [state |-> "active", m |-> n]
        BY <1>1 DEF RemoteOK
      <4>2. /\ ops[n].state = "none" => remoteOps[n] = "none"
            /\ ops[n].state = "succeeded" => remoteOps[n] = "active"
        BY DEF RemoteOK
      <4> QED
        BY <1>1, <2>2, <2>3, <2>4, <3>2, <4>1, <4>2
    <3> QED
      BY <3>1, <3>2
  <2>6. ASSUME NEW i \in 1..Len(log'), log'[i].m \in Manifests
        PROVE  remoteOps'[log'[i].m] = "active" /\ i = ops'[log'[i].m].expected + 1
    <3>1. CASE i = Len(log) + 1
      BY <1>1, <1>5, <2>1, <2>2, <2>4, <3>1
    <3>2. CASE i # Len(log) + 1
      <4>1. i \in 1..Len(log) /\ log'[i] = log[i]
        BY <1>1, <2>2, <2>3, <3>2
      <4> QED
        BY <2>4, <2>6, <4>1 DEF RemoteOK
    <3> QED
      BY <3>1, <3>2
  <2>7. \A k \in MutationKeys : remoteDone'[k] <= Len(log')
    <3>1. \A k \in MutationKeys : remoteDone[k] \in Nat
      BY DEF TypeOK
    <3> QED
      BY <1>1, <2>2, <3>1 DEF RemoteOK
  <2>8. RemoteOK'
    BY <2>5, <2>6, <2>7 DEF RemoteOK
  <2> QED
    BY <1>1, <2>2, <2>4, <2>8
<1> QED
  BY <1>1, <1>3, <1>4, <1>5 DEF RemoteActivate

(* lab.gd executes a mutation: it answers as before, refuses, or makes a     *)
(* revision, which it names in its reply.                                  *)
LEMMA LifecycleStep ==
  ASSUME TypeOK, RemoteOK, NEW k \in MutationKeys, NEW exp, NEW reply, NEW rev,
         RemoteLifecycle(k, exp, reply, rev), UNCHANGED <<ops, remoteOps>>
  PROVE  /\ RemoteOK'
         /\ Len(log) <= Len(log')
         /\ reply = "ok" => rev \in 1..Len(log')
<1>1. Len(log) \in Nat
  BY Numbers
<1>2. remoteDone \in [MutationKeys -> Nat] /\ log \in Seq(Entries)
  BY DEF TypeOK
<1>3. CASE UNCHANGED log /\ UNCHANGED remoteDone
  <2>1. IntentKept
    BY DEF IntentKept
  <2>2. RemoteOK'
    BY <1>3, <2>1, RemoteOKKept DEF RemoteOK
  <2>3. reply = "ok" => rev \in 1..Len(log')
    <3>1. remoteDone[k] \in Nat /\ remoteDone[k] <= Len(log)
      BY <1>2 DEF RemoteOK
    <3>2. reply = "ok" => rev = remoteDone[k] /\ remoteDone[k] # 0
      BY <1>1, <1>2, <1>3 DEF RemoteLifecycle
    <3> QED
      BY <1>1, <1>3, <3>1, <3>2
  <2> QED
    BY <1>1, <1>3, <2>2, <2>3
<1>4. CASE /\ rev = Len(log) + 1 /\ RemoteState # "none"
           /\ log' = Append(log, [m |-> NoManifest, state |-> EntryState(k[1])])
           /\ remoteDone' = [remoteDone EXCEPT ![k] = Len(log) + 1]
  <2> DEFINE entry == [m |-> NoManifest, state |-> EntryState(k[1])]
  <2>1. entry \in Entries /\ entry.m = NoManifest
    BY <1>2, <1>4, EntryStateType DEF Entries
  <2>2. log' = Append(log, entry)
    BY <1>4
  <2> HIDE DEF entry
  <2>3. \A j \in MutationKeys : remoteDone[j] <= Len(log) /\ remoteDone[j] \in Nat
    BY <1>2 DEF RemoteOK
  <2>4. \A j \in MutationKeys : remoteDone'[j] <= Len(log) + 1
    BY <1>1, <1>2, <1>4, <2>3
  <2>5. RemoteOK'
    BY <2>1, <2>2, <2>4, AppendOther
  <2>6. Len(log') = Len(log) + 1
    BY <1>2, <2>1, <2>2
  <2> QED
    BY <1>1, <1>4, <2>5, <2>6
<1> QED
  BY <1>3, <1>4 DEF RemoteLifecycle

(* A failed attempt keeps the intents and completes nothing. *)
LEMMA AttemptFailsKeeps ==
  ASSUME IInv, NEW error \in {"registry", "retryable", "transient", "final"},
         AttemptFails(error)
  PROVE  /\ IntentKept /\ NothingCompleted
         /\ worker' = IdleWorker
         /\ share'.rrev = share.rrev
         /\ DirectStep
<1>1. /\ worker' = IdleWorker /\ share'.rrev = share.rrev
      /\ direct' \in {direct, Touched(direct)}
      /\ \A m \in Manifests :
           /\ ops'[m].expected = ops[m].expected
           /\ m # worker.m => ops'[m] = ops[m]
           /\ m = worker.m => ops'[m].state \in {"retrying", "failed"}
  BY AttemptFailsType DEF IInv, TypeOK
<1> QED
  BY <1>1 DEF IntentKept, NothingCompleted, DirectStep

(* A failed attempt keeps the inductive invariant.                         *)
LEMMA FailStep ==
  ASSUME IInv, TypeOK', NEW error \in {"registry", "retryable", "transient", "final"},
         AttemptFails(error), late' \subseteq late \cup WorkerRequests,
         UNCHANGED <<log, remoteOps, remoteDone, cursor>>
  PROVE  IInv'
<1>1. /\ IntentKept /\ NothingCompleted /\ worker' = IdleWorker /\ share'.rrev = share.rrev
      /\ DirectStep
  BY AttemptFailsKeeps
<1>2. share'.rrev <= Len(log)
  BY <1>1 DEF IInv, NotAheadOfRemote
<1>3. late' \subseteq late \cup (WorkerRequests \cup DirectRequests)
  OBVIOUS
<1> QED
  BY <1>1, <1>2, <1>3, WorkerIdleStep

(* Requests and events are quiet. *)
LEMMA RequestsQuiet ==
  ASSUME IInv, TypeOK',
         Requests \/ Resumptions \/ \E i \in 1..Len(log) : ApplyRemoteEvent(i)
  PROVE  Quiet
<1> USE DEF local, remote, bounds
<1>1. TypeOK /\ share.rrev \in Nat /\ cursor <= Len(log) /\ share.rrev <= Len(log)
  BY Numbers DEF IInv, NotAheadOfRemote
<1>2. CASE Requests
  <2>1. UNCHANGED <<ops, worker, log, remoteOps, remoteDone, late, cursor>>
    BY <1>2 DEF Requests, EditContent, ResourceSnapshot, ApprovePreview,
                EnqueuePublishStarts, EnqueueLifecycle, DirectStarts
  <2>2. share'.rrev = share.rrev
    <3>1. share \in ShareType
      BY <1>1 DEF TypeOK
    <3> QED
      BY <1>2, <3>1 DEF Requests, EditContent, ResourceSnapshot, ApprovePreview,
                        EnqueuePublishStarts, EnqueueLifecycle, DirectStarts, ShareType
  <2>3. IntentKept /\ NothingCompleted
    BY <2>1 DEF IntentKept, NothingCompleted
  <2> QED
    BY <1>1, <2>1, <2>2, <2>3 DEF Quiet
<1>3. ASSUME NEW s \in scheduling, ScheduleResumes(s) PROVE Quiet
  <2>1. UNCHANGED <<worker, log, remoteOps, remoteDone, late, cursor>>
    BY <1>3 DEF ScheduleResumes
  <2>2. share'.rrev = share.rrev
    <3>1. share \in ShareType
      BY <1>1 DEF TypeOK
    <3> QED
      BY <1>3, <3>1 DEF ScheduleResumes, ShareType
  <2>3. s.m \in Manifests /\ s.rrev \in Nat /\ ops \in [Manifests -> OpType]
    BY <1>1 DEF TypeOK, ScheduleType
  <2> DEFINE os == CancelPending(ops)
  <2>4. /\ os \in [Manifests -> OpType]
        /\ \A m \in Manifests :
             /\ os[m].expected = ops[m].expected
             /\ os[m].state = "none" <=> ops[m].state = "none"
             /\ os[m].state = "succeeded" <=> ops[m].state = "succeeded"
    BY <2>3, CancelPendingKeeps
  <2>5. \/ ops' = os
        \/ /\ ops' = [os EXCEPT ![s.m] = Enqueued(os[s.m], s.rrev, FALSE)]
           /\ ops[s.m].state # "none" => ops[s.m].expected = s.rrev
    BY <1>3, <2>3, <2>4 DEF ScheduleResumes, EnqueueRefused
  <2> HIDE DEF os
  <2>6. IntentKept /\ NothingCompleted
    <3>1. CASE ops' = os
      BY <2>4, <3>1 DEF IntentKept, NothingCompleted
    <3>2. CASE /\ ops' = [os EXCEPT ![s.m] = Enqueued(os[s.m], s.rrev, FALSE)]
               /\ ops[s.m].state # "none" => ops[s.m].expected = s.rrev
      <4>1. /\ os[s.m] \in OpType
            /\ os[s.m].state # "none" => os[s.m].expected = s.rrev
        BY <2>3, <2>4, <3>2
      <4> DEFINE new == Enqueued(os[s.m], s.rrev, FALSE)
      <4>2. /\ os[s.m].state # "none" => new.state # "none" /\ new.expected = os[s.m].expected
            /\ new.state = "succeeded" => os[s.m].state = "succeeded"
        BY <2>3, <4>1, EnqueuedKeeps
      <4> HIDE DEF new
      <4>3. ops' = [os EXCEPT ![s.m] = new]
        BY <3>2 DEF new
      <4> QED
        BY <2>3, <2>4, <4>2, <4>3 DEF IntentKept, NothingCompleted
    <3> QED
      BY <2>5, <3>1, <3>2
  <2> QED
    BY <1>1, <2>1, <2>2, <2>6 DEF Quiet
<1>4. ASSUME NEW m \in publishing, EnqueuePublishResumes(m) PROVE Quiet
  <2>1. UNCHANGED <<worker, log, remoteOps, remoteDone, late, cursor>>
    BY <1>4 DEF EnqueuePublishResumes
  <2>2. share'.rrev = share.rrev
    <3>1. share \in ShareType
      BY <1>1 DEF TypeOK
    <3> QED
      BY <1>4, <3>1 DEF EnqueuePublishResumes, ShareType
  <2>3. m \in Manifests /\ ops \in [Manifests -> OpType] /\ ops[m] \in OpType
    BY <1>1 DEF TypeOK
  <2> DEFINE new == Enqueued(ops[m], share.rrev, TRUE)
  <2>4. \/ ops' = ops
        \/ /\ ops' = [ops EXCEPT ![m] = new]
           /\ ops[m].state # "none" => ops[m].expected = share.rrev
    BY <1>4 DEF EnqueuePublishResumes, EnqueueRefused
  <2>5. (ops[m].state # "none" => ops[m].expected = share.rrev) =>
          /\ ops[m].state # "none" => new.state # "none" /\ new.expected = ops[m].expected
          /\ new.state = "succeeded" => ops[m].state = "succeeded"
    BY <1>1, <2>3, EnqueuedKeeps
  <2> HIDE DEF new
  <2>6. IntentKept /\ NothingCompleted
    BY <2>3, <2>4, <2>5 DEF IntentKept, NothingCompleted
  <2> QED
    BY <1>1, <2>1, <2>2, <2>6 DEF Quiet
<1>5. ASSUME NEW i \in 1..Len(log), ApplyRemoteEvent(i) PROVE Quiet
  <2>1. UNCHANGED <<ops, worker, log, remoteOps, remoteDone, late>> /\ cursor' = i
    BY <1>5 DEF ApplyRemoteEvent
  <2>2. share.rrev <= share'.rrev /\ share'.rrev <= Len(log)
    <3>1. share \in ShareType /\ i \in Nat /\ i <= Len(log)
      BY <1>1, Numbers DEF TypeOK
    <3> QED
      <4>1. CASE share.pub /\ i > share.rrev
        <5>1. share'.rrev = i
          BY <1>5, <3>1, <4>1 DEF ApplyRemoteEvent, ShareType
        <5> QED
          BY <1>1, <3>1, <4>1, <5>1
      <4>2. CASE ~(share.pub /\ i > share.rrev)
        <5>1. share' = share
          BY <1>5, <4>2 DEF ApplyRemoteEvent
        <5> QED
          BY <1>1, <5>1
      <4> QED
        BY <4>1, <4>2
  <2>3. IntentKept /\ NothingCompleted
    BY <2>1 DEF IntentKept, NothingCompleted
  <2>4. cursor' <= Len(log)
    BY <1>1, <2>1, Numbers
  <2> QED
    BY <2>1, <2>2, <2>3, <2>4 DEF Quiet
<1> QED
  BY <1>2, <1>3, <1>4, <1>5 DEF Resumptions

(* Requests and events withdraw a settings change or leave it its row; a   *)
(* new one is sent at the revision it read.                                *)
LEMMA RequestsDirect ==
  ASSUME IInv, TypeOK',
         Requests \/ Resumptions \/ \E i \in 1..Len(log) : ApplyRemoteEvent(i)
  PROVE  DirectOK'
<1>1. TypeOK /\ DirectOK /\ Len(log) \in Nat /\ share \in ShareType
  BY Numbers DEF IInv, TypeOK
<1>2. log' = log /\ Len(log') = Len(log) /\ Len(log) <= Len(log')
  <2>1. log' = log
    BY RequestsQuiet DEF Quiet
  <2> QED
    BY <1>1, <2>1
<1>3. ASSUME NEW kind \in DirectKinds, NEW m \in Manifests \cup {NoManifest},
             DirectStarts(kind, m)
      PROVE  DirectOK'
  <2> DEFINE new == NewDirect(kind, m)
  <2>1. /\ new.kind = kind /\ new.exp = share.rrev /\ new.m = m
        /\ new.fresh = (kind = "settings") /\ new.reply = "none"
    BY DEF NewDirect
  <2>2. /\ <<kind, share.rrev>> \in MutationKeys /\ share' = share
        /\ kind = "settings" => m \in Manifests
        /\ direct' = direct \cup {new}
    BY <1>3 DEF DirectStarts
  <2>3. DirectKey(new) = <<kind, share.rrev>>
    BY <2>1 DEF DirectKey
  <2> HIDE DEF new
  <2>4. /\ DirectKey(new) \in MutationKeys
        /\ new.kind = "settings" => new.m \in Manifests
        /\ new.fresh => new.kind = "settings" /\ new.exp = share'.rrev
        /\ new.reply # "ok"
    BY <2>1, <2>2, <2>3
  <2> SUFFICES ASSUME NEW d \in direct'
               PROVE  /\ DirectKey(d) \in MutationKeys
                      /\ d.kind = "settings" => d.m \in Manifests
                      /\ d.fresh => d.kind = "settings" /\ d.exp = share'.rrev
                      /\ d.reply = "ok" => d.rev \in 1..Len(log')
    BY DEF DirectOK, DirectKey
  <2>5. CASE d \in direct
    BY <1>1, <1>2, <2>2, <2>5 DEF DirectOK
  <2>6. CASE d = new
    BY <2>4, <2>6
  <2> QED
    BY <2>2, <2>5, <2>6
<1>4. \/ \E kind \in DirectKinds, m \in Manifests \cup {NoManifest} : DirectStarts(kind, m)
      \/ direct' = Touched(direct)
      \/ direct' = direct /\ share'.rrev = share.rrev
  <2>1. CASE Requests
    <3>1. ASSUME NEW m \in Manifests, EditContent(m)
          PROVE  direct' = Touched(direct) \/ (direct' = direct /\ share' = share)
      BY <3>1 DEF EditContent
    <3>2. ASSUME NEW m \in Manifests, ResourceSnapshot(m) PROVE direct' = Touched(direct)
      BY <3>2 DEF ResourceSnapshot
    <3>3. ApprovePreview => direct' = Touched(direct)
      BY DEF ApprovePreview
    <3>4. EnqueuePublishStarts => direct' = direct /\ share' = share
      BY DEF EnqueuePublishStarts
    <3>5. ASSUME NEW kind \in LifecycleKinds, EnqueueLifecycle(kind)
          PROVE  direct' = direct /\ share' = share
      BY <3>5 DEF EnqueueLifecycle
    <3> QED
      BY <2>1, <3>1, <3>2, <3>3, <3>4, <3>5 DEF Requests
  <2>2. ASSUME NEW s \in scheduling, ScheduleResumes(s)
        PROVE  direct' = Touched(direct) \/ (direct' = direct /\ share'.rrev = share.rrev)
    <3>1. share' = share \/ share' = [share EXCEPT !.state = "synced"]
      BY <2>2 DEF ScheduleResumes
    <3>2. share'.rrev = share.rrev
      BY <1>1, <3>1 DEF ShareType
    <3>3. direct' = Touched(direct) \/ direct' = direct
      BY <2>2 DEF ScheduleResumes
    <3> QED
      BY <3>2, <3>3
  <2>3. ASSUME NEW m \in publishing, EnqueuePublishResumes(m)
        PROVE  direct' = Touched(direct) \/ (direct' = direct /\ share' = share)
    BY <2>3 DEF EnqueuePublishResumes
  <2>4. ASSUME NEW i \in 1..Len(log), ApplyRemoteEvent(i)
        PROVE  direct' = Touched(direct) \/ (direct' = direct /\ share' = share)
    BY <2>4 DEF ApplyRemoteEvent
  <2> QED
    BY <2>1, <2>2, <2>3, <2>4 DEF Resumptions
<1>5. ASSUME direct' = Touched(direct) \/ (direct' = direct /\ share'.rrev = share.rrev)
      PROVE  DirectOK'
  <2>1. DirectStep
    BY <1>5 DEF DirectStep
  <2> QED
    BY <1>1, <1>2, <2>1, DirectKept
<1> QED
  BY <1>3, <1>4, <1>5

(* Requests and events keep the inductive invariant. *)
LEMMA RequestsInv ==
  ASSUME IInv, TypeOK',
         Requests \/ Resumptions \/ \E i \in 1..Len(log) : ApplyRemoteEvent(i)
  PROVE  IInv'
<1>1. Quiet /\ DirectOK'
  BY RequestsQuiet, RequestsDirect
<1> QED
  BY <1>1, LocalStep DEF Quiet

(* The written reply to a direct request. *)
LEMMA DirectRepliesFacts ==
  ASSUME IInv, NEW d \in direct, DirectReplies(d) \/ SettingsReplies(d)
  PROVE  /\ UNCHANGED <<ops, worker, log, remoteOps, remoteDone, late, cursor>>
         /\ direct' = Touched(direct \ {d})
         /\ share'.rrev = d.rev /\ d.rev \in 1..Len(log) /\ d.rev > d.exp /\ d.exp \in Nat
         /\ DirectStep
<1>1. d \in DirectType /\ share \in ShareType /\ d.reply = "ok" /\ d.rev > d.exp
  BY DEF IInv, TypeOK, DirectReplies, SettingsReplies, Accepted
<1>2. /\ UNCHANGED <<ops, worker, log, remoteOps, remoteDone, late, cursor>>
      /\ direct' = Touched(direct \ {d})
  BY DEF DirectReplies, SettingsReplies, remote
<1>3. share'.rrev = d.rev
  <2>1. CASE DirectReplies(d)
    BY <1>1, <2>1 DEF DirectReplies, ShareType
  <2>2. CASE SettingsReplies(d)
    BY <1>1, <2>2 DEF SettingsReplies, ShareType
  <2> QED
    BY <2>1, <2>2
<1>4. d.rev \in 1..Len(log) /\ d.exp \in Nat
  BY <1>1 DEF IInv, DirectOK, DirectType
<1>5. DirectStep
  BY <1>2 DEF DirectStep
<1> QED
  BY <1>1, <1>2, <1>3, <1>4, <1>5

(* The steps of a direct request keep the inductive invariant. *)
LEMMA DirectInv ==
  ASSUME IInv, TypeOK', NEW d \in direct,
         DirectReplies(d) \/ SettingsReplies(d) \/ DirectFails(d)
  PROVE  IInv'
<1>1. TypeOK /\ DirectOK /\ LateOK /\ Len(log) \in Nat
  BY Numbers DEF IInv
<1>2. CASE DirectReplies(d) \/ SettingsReplies(d)
  <2>1. /\ UNCHANGED <<ops, worker, log, remoteOps, remoteDone, late, cursor>>
        /\ share'.rrev = d.rev /\ d.rev \in 1..Len(log) /\ DirectStep
    BY <1>2, DirectRepliesFacts
  <2>2. DirectOK'
    BY <1>1, <2>1, DirectKept
  <2>3. IntentKept /\ NothingCompleted
    BY <2>1 DEF IntentKept, NothingCompleted
  <2>4. share'.rrev <= Len(log) /\ cursor' <= Len(log)
    BY <1>1, <2>1 DEF IInv, NotAheadOfRemote
  <2> QED
    BY <2>1, <2>2, <2>3, <2>4, LocalStep
<1>3. CASE DirectFails(d)
  <2>1. /\ UNCHANGED <<share, ops, worker, log, remoteOps, remoteDone, cursor>>
        /\ direct' = direct \ {d}
        /\ late' \in Delayed({DirectRequest(e) : e \in {d} \cap {f \in direct : f.reply = "none"}})
    BY <1>3 DEF DirectFails, local, remote
  <2>2. late' \subseteq late \cup {DirectRequest(e) : e \in {d} \cap {f \in direct : f.reply = "none"}}
    BY <2>1, DelayedIn
  <2>3. \A r \in late' : r \in late \/ r = DirectRequest(d)
    BY <2>2
  <2>4. DirectOK'
    BY <1>1, <2>1 DEF DirectOK
  <2>5. LateOK'
    <3>1. DirectRequest(d).pc = "lifecycle" /\ DirectRequest(d).key \in MutationKeys
      BY <1>1 DEF DirectRequest, DirectOK
    <3> QED
      BY <1>1, <2>1, <2>3, <3>1 DEF LateOK
  <2>6. WorkerOK' /\ RemoteOK' /\ NotAheadOfRemote'
    BY <2>1 DEF IInv, WorkerOK, RemoteOK, NotAheadOfRemote
  <2> QED
    BY <2>4, <2>5, <2>6 DEF IInv
<1> QED
  BY <1>2, <1>3

(* The worker takes an operation or handles a reply. *)
LEMMA WorkInv ==
  ASSUME IInv, TypeOK', Work
  PROVE  IInv'
<1> USE DEF local, remote, bounds
<1>1. TypeOK /\ WorkerOK /\ LateOK /\ RemoteOK /\ NotAheadOfRemote /\ DirectOK
  BY DEF IInv
<1>2. ASSUME NEW m \in Manifests, PickPublish(m) PROVE IInv'
  <2>1. UNCHANGED <<ops, share, direct, cursor, log, remoteOps, remoteDone, late>>
    BY <1>2 DEF PickPublish
  <2>2. /\ worker'.pc = "staging" /\ worker'.m = m /\ worker'.reply = "none"
        /\ worker'.exp = ops[m].expected /\ ops[m].state \in Open
    BY <1>2 DEF PickPublish, IdleWorker
  <2>3. WorkerOK'
    BY <2>1, <2>2 DEF WorkerOK, Open
  <2> QED
    BY <1>1, <2>1, <2>3 DEF IInv, LateOK, RemoteOK, NotAheadOfRemote, DirectOK
<1>3. ASSUME NEW k \in LifecycleKeys, PickLifecycle(k) PROVE IInv'
  <2>1. UNCHANGED <<ops, share, direct, cursor, log, remoteOps, remoteDone, late>>
    BY <1>3 DEF PickLifecycle
  <2>2. /\ worker'.pc = "lifecycle" /\ worker'.m = NoManifest /\ worker'.reply = "none"
        /\ worker'.key = k /\ worker'.exp = share.rrev
    BY <1>3 DEF PickLifecycle, IdleWorker
  <2>3. WorkerOK'
    BY <1>1, <2>1, <2>2 DEF WorkerOK
  <2> QED
    BY <1>1, <2>1, <2>3 DEF IInv, LateOK, RemoteOK, NotAheadOfRemote, DirectOK
<1>4. CASE StageReplies
  <2>1. UNCHANGED <<log, remoteDone, late, cursor>> /\ worker.pc = "staging"
    BY <1>4 DEF StageReplies
  <2>2. CASE remoteOps[worker.m] = "active" /\ CompletePublication /\ UNCHANGED remoteOps
    BY <2>1, <2>2, CompleteStep
  <2>3. CASE AttemptFails("final") /\ UNCHANGED remoteOps
    BY <2>1, <2>3, FailStep
  <2>4. CASE /\ remoteOps[worker.m] \in {"none", "staged", "blocked"}
             /\ remoteOps' = [remoteOps EXCEPT ![worker.m] = IF @ = "none" THEN "staged" ELSE @]
             /\ ops' = [ops EXCEPT ![worker.m].state = "running"]
             /\ worker' = [worker EXCEPT !.pc = "activating"]
             /\ UNCHANGED <<share, lifecycle, direct>>
    <3> DEFINE w == worker.m
    <3>1. /\ w \in Manifests /\ worker.reply = "none"
          /\ ops[w].state \notin {"none", "succeeded"}
          /\ worker.exp = ops[w].expected
      BY <1>1, <2>1 DEF WorkerOK
    <3>2. /\ worker'.pc = "activating" /\ worker'.m = w /\ worker'.exp = worker.exp
          /\ worker'.reply = "none"
      BY <1>1, <2>4, <3>1 DEF TypeOK, WorkerType
    <3>3. /\ ops'[w].state = "running"
          /\ \A m \in Manifests : ops'[m].expected = ops[m].expected
          /\ \A m \in Manifests : m # w => ops'[m] = ops[m]
      BY <1>1, <2>4, <3>1 DEF TypeOK, OpType
    <3>4. /\ remoteOps[w] # "active" /\ remoteOps'[w] \notin {"active", "none"}
          /\ \A m \in Manifests : m # w => remoteOps'[m] = remoteOps[m]
      BY <1>1, <2>4, <3>1 DEF TypeOK
    <3> HIDE DEF w
    <3>5. IntentKept /\ NothingCompleted
      BY <3>3 DEF IntentKept, NothingCompleted
    <3>6. WorkerOK'
      BY <3>1, <3>2, <3>3 DEF WorkerOK
    <3>7. LateOK'
      BY <1>1, <2>1, <3>5 DEF LateOK, IntentKept
    <3>8. RemoteOK'
      <4>1. ASSUME NEW m \in Manifests
            PROVE  /\ ops'[m].state = "none" => remoteOps'[m] = "none"
                   /\ ops'[m].state = "succeeded" => remoteOps'[m] = "active"
                   /\ remoteOps'[m] = "active" =>
                        /\ ops'[m].expected < Len(log')
                        /\ log'[ops'[m].expected + 1] = [state |-> "active", m |-> m]
        BY <1>1, <2>1, <3>3, <3>4 DEF RemoteOK
      <4>2. ASSUME NEW i \in 1..Len(log'), log'[i].m \in Manifests
            PROVE  remoteOps'[log'[i].m] = "active" /\ i = ops'[log'[i].m].expected + 1
        BY <1>1, <2>1, <3>3, <3>4, <4>2 DEF RemoteOK
      <4>3. \A k \in MutationKeys : remoteDone'[k] <= Len(log')
        BY <1>1, <2>1 DEF RemoteOK
      <4> QED
        BY <4>1, <4>2, <4>3 DEF RemoteOK
    <3>9. NotAheadOfRemote' /\ DirectOK'
      BY <1>1, <2>1, <2>4 DEF NotAheadOfRemote, DirectOK
    <3> QED
      BY <3>6, <3>7, <3>8, <3>9 DEF IInv
  <2> QED
    BY <1>4, <2>2, <2>3, <2>4 DEF StageReplies
<1>5. CASE ActivateReplies
  <2>1. UNCHANGED <<log, remoteOps, remoteDone, late, cursor>> /\ worker.pc = "activating"
    BY <1>5 DEF ActivateReplies
  <2>2. CASE worker.reply = "ok" /\ CompletePublication
    <3>1. remoteOps[worker.m] = "active"
      BY <1>1, <2>1, <2>2 DEF WorkerOK
    <3> QED
      BY <2>1, <2>2, <3>1, CompleteStep
  <2>3. CASE AttemptFails("final")
    BY <2>1, <2>3, FailStep
  <2>4. CASE /\ worker' = [worker EXCEPT !.pc = "restaging", !.reply = "none"]
             /\ UNCHANGED <<share, ops, lifecycle, direct>>
    <3>1. /\ worker'.pc = "restaging" /\ worker'.reply = "none"
          /\ worker'.m = worker.m /\ worker'.exp = worker.exp
      BY <1>1, <2>4 DEF TypeOK, WorkerType
    <3>2. WorkerOK'
      BY <1>1, <2>1, <2>4, <3>1 DEF WorkerOK
    <3> QED
      BY <1>1, <2>1, <2>4, <3>2 DEF IInv, LateOK, RemoteOK, NotAheadOfRemote, DirectOK
  <2> QED
    BY <1>5, <2>2, <2>3, <2>4 DEF ActivateReplies
<1>6. CASE RestageReplies
  <2>1. UNCHANGED <<log, remoteOps, remoteDone, late, cursor>> /\ worker.pc = "restaging"
    BY <1>6 DEF RestageReplies
  <2>2. CASE remoteOps[worker.m] = "active" /\ CompletePublication
    BY <2>1, <2>2, CompleteStep
  <2>3. CASE AttemptFails("final")
    BY <2>1, <2>3, FailStep
  <2>4. CASE AttemptFails("registry")
    BY <2>1, <2>4, FailStep
  <2> QED
    BY <1>6, <2>2, <2>3, <2>4 DEF RestageReplies
<1>7. CASE LifecycleReplies
  <2>1. UNCHANGED <<log, remoteOps, remoteDone, late, cursor>> /\ worker.pc = "lifecycle"
    BY <1>7 DEF LifecycleReplies
  <2>2. CASE AttemptFails("final")
    BY <2>1, <2>2, FailStep
  <2>3. CASE /\ worker.reply = "ok" /\ worker.rev > worker.exp
             /\ share' = [share EXCEPT !.rrev = worker.rev, !.state =
                  IF worker.key[1] = "unpublish" THEN "unpublished" ELSE "deleted"]
             /\ worker' = IdleWorker
             /\ direct' = Touched(direct)
             /\ UNCHANGED ops
    <3>1. share'.rrev = worker.rev
      BY <1>1, <2>3 DEF TypeOK, ShareType
    <3>2. worker.rev <= Len(log)
      BY <1>1, <2>1, <2>3 DEF WorkerOK
    <3>3. IntentKept /\ NothingCompleted /\ DirectStep
      BY <2>3 DEF IntentKept, NothingCompleted, DirectStep
    <3> QED
      BY <2>1, <2>3, <3>1, <3>2, <3>3, WorkerIdleStep
  <2> QED
    BY <1>7, <2>2, <2>3 DEF LifecycleReplies
<1> QED
  BY <1>2, <1>3, <1>4, <1>5, <1>6, <1>7 DEF Work

(* lab.gd executes a request: awaited, abandoned, or its own change. *)
LEMMA RemoteInv ==
  ASSUME IInv, TypeOK',
         \/ RemoteAnswers
         \/ \E d \in direct : RemoteAnswersDirect(d)
         \/ \E r \in late : RemoteAnswersLate(r)
         \/ \E state \in {"expired", "unpublished"} : RemoteChange(state)
  PROVE  IInv'
<1> USE DEF local, remote, bounds
<1>1. TypeOK /\ WorkerOK /\ LateOK /\ RemoteOK /\ NotAheadOfRemote /\ DirectOK
  BY DEF IInv
<1>2. UNCHANGED <<share, ops, cursor>>
  BY DEF RemoteAnswers, RemoteAnswersDirect, RemoteAnswersLate, RemoteChange
<1>3. ASSUME Len(log) <= Len(log'), direct' = direct PROVE DirectOK'
  <2>1. DirectStep
    BY <1>2, <1>3 DEF DirectStep
  <2> QED
    BY <1>1, <1>3, <2>1, DirectKept, Numbers DEF TypeOK
<1>4. ASSUME Len(log) <= Len(log') PROVE NotAheadOfRemote'
  <2>1. Len(log') \in Nat
    BY DEF TypeOK
  <2> QED
    BY <1>1, <1>2, <1>4, <2>1, Numbers DEF NotAheadOfRemote
<1>5. ASSUME late' \subseteq late PROVE LateOK'
  BY <1>1, <1>2, <1>5 DEF LateOK
<1>6. CASE RemoteAnswers
  <2>1. late' = late /\ direct' = direct
    BY <1>6 DEF RemoteAnswers
  <2>2. ASSUME NEW reply \in {"ok", "conflict", "publication-failed"},
               worker.pc = "activating",
               RemoteActivate(worker.m, worker.exp, reply),
               worker' = [worker EXCEPT !.reply = reply], UNCHANGED remoteDone
        PROVE  IInv'
    <3>1. /\ worker.m \in Manifests /\ ops[worker.m].state \notin {"none", "succeeded"}
          /\ worker.exp = ops[worker.m].expected
      BY <1>1, <2>2 DEF WorkerOK
    <3>2. /\ RemoteOK' /\ Len(log) <= Len(log')
          /\ reply = "ok" => remoteOps'[worker.m] = "active"
      BY <1>1, <1>2, <2>2, <3>1, ActivateStep
    <3>3. /\ worker'.pc = "activating" /\ worker'.reply = reply
          /\ worker'.m = worker.m /\ worker'.exp = worker.exp
      BY <1>1, <2>2 DEF TypeOK, WorkerType
    <3>4. WorkerOK'
      BY <1>2, <3>1, <3>2, <3>3 DEF WorkerOK
    <3> QED
      BY <1>3, <1>4, <1>5, <2>1, <3>2, <3>4 DEF IInv
  <2>3. ASSUME NEW reply \in {"ok", "conflict"}, NEW rev, worker.pc = "lifecycle",
               RemoteLifecycle(worker.key, worker.exp, reply, rev),
               worker' = [worker EXCEPT !.reply = reply, !.rev = rev], UNCHANGED remoteOps
        PROVE  IInv'
    <3>1. worker.key \in LifecycleKeys /\ worker.m = NoManifest
      BY <1>1, <2>3 DEF WorkerOK
    <3>2. /\ RemoteOK' /\ Len(log) <= Len(log')
          /\ reply = "ok" => rev <= Len(log')
      BY <1>1, <1>2, <2>3, <3>1, LifecycleStep, KeysType
    <3>3. /\ worker'.pc = "lifecycle" /\ worker'.reply = reply /\ worker'.rev = rev
          /\ worker'.m = worker.m /\ worker'.exp = worker.exp /\ worker'.key = worker.key
      BY <1>1, <2>3 DEF TypeOK, WorkerType
    <3>4. WorkerOK'
      BY <1>1, <1>2, <2>3, <3>1, <3>2, <3>3 DEF WorkerOK
    <3> QED
      BY <1>3, <1>4, <1>5, <2>1, <3>2, <3>4 DEF IInv
  <2> QED
    BY <1>6, <2>2, <2>3 DEF RemoteAnswers
<1>7. ASSUME UNCHANGED worker, Len(log) <= Len(log'),
             \A m \in Manifests : remoteOps[m] = "active" => remoteOps'[m] = "active"
      PROVE  WorkerOK'
  <2>1. worker.reply = "ok" /\ worker.pc = "lifecycle" => worker.rev <= Len(log')
    <3>1. Len(log') \in Nat
      BY DEF TypeOK
    <3> QED
      BY <1>1, <1>7, <3>1, Numbers DEF WorkerOK
  <2> QED
    BY <1>1, <1>2, <1>7, <2>1 DEF WorkerOK
<1>8. ASSUME NEW r \in late, RemoteAnswersLate(r) PROVE IInv'
  <2>1. late' \subseteq late /\ UNCHANGED worker /\ direct' = direct
    BY <1>8 DEF RemoteAnswersLate
  <2>2. ASSUME NEW reply, r.pc = "activating", RemoteActivate(r.m, r.exp, reply),
               UNCHANGED remoteDone
        PROVE  IInv'
    <3>1. r.m \in Manifests /\ ops[r.m].state # "none" /\ r.exp = ops[r.m].expected
      BY <1>1, <2>2 DEF LateOK
    <3>2. /\ RemoteOK' /\ Len(log) <= Len(log')
          /\ \A m \in Manifests : remoteOps[m] = "active" => remoteOps'[m] = "active"
      BY <1>1, <1>2, <2>2, <3>1, ActivateStep
    <3> QED
      BY <1>3, <1>4, <1>5, <1>7, <2>1, <3>2 DEF IInv
  <2>3. ASSUME NEW reply, NEW rev, r.pc = "lifecycle",
               RemoteLifecycle(r.key, r.exp, reply, rev), UNCHANGED remoteOps
        PROVE  IInv'
    <3>1. r.key \in MutationKeys
      BY <1>1, <2>3 DEF LateOK
    <3>2. RemoteOK' /\ Len(log) <= Len(log')
      BY <1>1, <1>2, <2>3, <3>1, LifecycleStep
    <3> QED
      BY <1>3, <1>4, <1>5, <1>7, <2>1, <2>3, <3>2 DEF IInv
  <2> QED
    BY <1>8, <2>2, <2>3 DEF RemoteAnswersLate
<1>9. ASSUME NEW state \in {"expired", "unpublished"}, RemoteChange(state) PROVE IInv'
  <2> DEFINE entry == [state |-> state, m |-> NoManifest]
  <2>1. entry \in Entries /\ entry.m = NoManifest
    BY DEF Entries
  <2>2. log' = Append(log, entry) /\ UNCHANGED <<worker, remoteOps, remoteDone, late, direct>>
    BY <1>9 DEF RemoteChange
  <2> HIDE DEF entry
  <2>3. log \in Seq(Entries) /\ Len(log) \in Nat /\ remoteDone \in [MutationKeys -> Nat]
    BY <1>1 DEF TypeOK
  <2>4. Len(log') = Len(log) + 1
    BY <2>1, <2>2, <2>3
  <2>5. \A k \in MutationKeys : remoteDone'[k] <= Len(log) + 1
    BY <1>1, <2>2, <2>3 DEF RemoteOK
  <2>6. RemoteOK'
    BY <1>1, <1>2, <2>1, <2>2, <2>5, AppendOther
  <2>7. WorkerOK'
    BY <1>7, <2>2, <2>3, <2>4
  <2> QED
    BY <1>3, <1>4, <1>5, <2>2, <2>3, <2>4, <2>6, <2>7 DEF IInv
<1>10. ASSUME NEW d \in direct, RemoteAnswersDirect(d) PROVE IInv'
  <2>1. PICK reply \in {"ok", "conflict"}, rev \in 0..(Len(log) + 1) :
          /\ RemoteLifecycle(DirectKey(d), d.exp, reply, rev)
          /\ direct' = (direct \ {d}) \cup {[d EXCEPT !.reply = reply, !.rev = rev]}
    BY <1>10 DEF RemoteAnswersDirect
  <2>2. UNCHANGED <<worker, remoteOps, late>>
    BY <1>10 DEF RemoteAnswersDirect
  <2>3. DirectKey(d) \in MutationKeys /\ d \in DirectType
    BY <1>1 DEF DirectOK, TypeOK
  <2>4. /\ RemoteOK' /\ Len(log) <= Len(log')
        /\ reply = "ok" => rev \in 1..Len(log')
    BY <1>1, <1>2, <2>1, <2>2, <2>3, LifecycleStep
  <2>5. Len(log) \in Nat /\ Len(log') \in Nat
    BY <1>1 DEF TypeOK
  <2> DEFINE new == [d EXCEPT !.reply = reply, !.rev = rev]
  <2>6. /\ new.kind = d.kind /\ new.exp = d.exp /\ new.m = d.m /\ new.fresh = d.fresh
        /\ new.reply = reply /\ new.rev = rev
    BY <2>3 DEF DirectType
  <2>7. direct' = (direct \ {d}) \cup {new}
    BY <2>1
  <2>8. DirectKey(new) = DirectKey(d)
    BY <2>6 DEF DirectKey
  <2> HIDE DEF new
  <2>9. DirectOK'
    <3> SUFFICES ASSUME NEW e \in direct'
                 PROVE  /\ DirectKey(e) \in MutationKeys
                        /\ e.kind = "settings" => e.m \in Manifests
                        /\ e.fresh => e.kind = "settings" /\ e.exp = share'.rrev
                        /\ e.reply = "ok" => e.rev \in 1..Len(log')
      BY DEF DirectOK, DirectKey
    <3>1. CASE e \in direct
      <4>1. /\ DirectKey(e) \in MutationKeys
            /\ e.kind = "settings" => e.m \in Manifests
            /\ e.fresh => e.kind = "settings" /\ e.exp = share'.rrev
        BY <1>1, <1>2, <3>1 DEF DirectOK
      <4>2. e.reply = "ok" => e.rev \in 1..Len(log)
        BY <1>1, <3>1 DEF DirectOK
      <4> QED
        BY <2>4, <2>5, <4>1, <4>2
    <3>2. CASE e = new
      <4>1. /\ d.kind = "settings" => d.m \in Manifests
            /\ d.fresh => d.kind = "settings" /\ d.exp = share'.rrev
        BY <1>1, <1>2 DEF DirectOK
      <4> QED
        BY <2>3, <2>4, <2>6, <2>8, <3>2, <4>1
    <3> QED
      BY <2>7, <3>1, <3>2
  <2>10. WorkerOK'
    BY <1>7, <2>2, <2>4
  <2> QED
    BY <1>4, <1>5, <2>2, <2>4, <2>9, <2>10 DEF IInv
<1> QED
  BY <1>6, <1>8, <1>9, <1>10

(* Every step keeps the inductive invariant.                               *)
LEMMA StepInv == IInv /\ [Next]_vars => IInv'
<1> SUFFICES ASSUME IInv, [Next]_vars PROVE IInv'
  OBVIOUS
<1>1. TypeOK /\ TypeOK'
  BY StepType DEF IInv
<1>11. CASE \E d \in direct : DirectReplies(d) \/ SettingsReplies(d) \/ DirectFails(d)
  BY <1>1, <1>11, DirectInv
<1>2. CASE Requests \/ Resumptions \/ \E i \in 1..Len(log) : ApplyRemoteEvent(i)
  BY <1>1, <1>2, RequestsInv
<1>3. CASE Work
  BY <1>1, <1>3, WorkInv
<1>4. CASE \/ RemoteAnswers
           \/ \E d \in direct : RemoteAnswersDirect(d)
           \/ \E r \in late : RemoteAnswersLate(r)
           \/ \E state \in {"expired", "unpublished"} : RemoteChange(state)
  BY <1>1, <1>4, RemoteInv
<1>5. ASSUME NEW error \in {"retryable", "transient", "final"}, RequestFails(error)
      PROVE  IInv'
  <2>1. /\ AttemptFails(error) /\ late' \subseteq late \cup WorkerRequests
        /\ UNCHANGED <<log, remoteOps, remoteDone, cursor>>
    BY <1>5, DelayedIn DEF RequestFails, remote
  <2> QED
    BY <1>1, <2>1, FailStep
<1>6. CASE Crash
  <2>1. /\ worker' = IdleWorker /\ direct' = {}
        /\ late' \subseteq late \cup (WorkerRequests \cup DirectRequests)
        /\ UNCHANGED <<share, ops, log, remoteOps, remoteDone, cursor>>
    BY <1>6, DelayedIn DEF Crash, remote
  <2>2. IntentKept /\ NothingCompleted /\ DirectStep
    BY <2>1 DEF IntentKept, NothingCompleted, DirectStep
  <2>3. share'.rrev <= Len(log)
    BY <2>1 DEF IInv, NotAheadOfRemote
  <2> QED
    BY <1>1, <2>1, <2>2, <2>3, WorkerIdleStep
<1>7. CASE UNCHANGED vars
  BY <1>1, <1>7 DEF vars, IInv, WorkerOK, LateOK, RemoteOK, NotAheadOfRemote,
                    DirectOK
<1> QED
  BY <1>2, <1>3, <1>4, <1>5, <1>6, <1>7, <1>11 DEF Next, Faults, DirectSteps

(* The inductive invariant holds in every state of every behaviour.        *)
LEMMA Invariance == Spec => []IInv
BY InitInv, StepInv, PTL DEF Spec

-----------------------------------------------------------------------------
(* Theorems *)

(* THEOREM: the rows of the sharing tables, the request the coordinator    *)
(* awaits and lab.gd's state keep the shapes the schema, the client and    *)
(* the API give them, in every behaviour.                                  *)
THEOREM TypeCorrect == Spec => []TypeOK
<1>1. IInv => TypeOK
  BY DEF IInv
<1> QED
  BY <1>1, Invariance, PTL

(* THEOREM: a publish operation is marked succeeded only if lab.gd         *)
(* activated its manifest exactly once and at the revision the code        *)
(* derives (expectedRemoteRevision + 1), for any number of manifests,      *)
(* retries, crashes, cancellations and late requests.                      *)
THEOREM ExactRevision == Spec => []PublishedAtExactRevision
<1>1. IInv => PublishedAtExactRevision
  <2> SUFFICES ASSUME IInv, NEW m \in Manifests, ops[m].state = "succeeded"
               PROVE  /\ ops[m].expected < Len(log)
                      /\ log[ops[m].expected + 1] = [state |-> "active", m |-> m]
                      /\ \A i \in 1..Len(log) : log[i].m = m => i = ops[m].expected + 1
    BY DEF PublishedAtExactRevision
  <2> QED
    BY DEF IInv, RemoteOK
<1> QED
  BY <1>1, Invariance, PTL

(* THEOREM: the local projection of the share and the event cursor never   *)
(* run ahead of the revisions lab.gd has produced.                         *)
THEOREM NeverAhead == Spec => []NotAheadOfRemote
<1>1. IInv => NotAheadOfRemote
  BY DEF IInv
<1> QED
  BY <1>1, Invariance, PTL

(* THEOREM: completePublication never meets an operation that has already  *)
(* succeeded, so its assertion that the share is not behind ("Completed    *)
(* publication projection is behind its logical revision") never fires,    *)
(* although uncompared replies can put the share behind.                   *)
THEOREM CompletesOnce ==
  Spec => [](worker.m \in Manifests => ops[worker.m].state # "succeeded")
<1>1. IInv => (worker.m \in Manifests => ops[worker.m].state # "succeeded")
  <2> SUFFICES ASSUME IInv, worker.m \in Manifests PROVE ops[worker.m].state # "succeeded"
    OBVIOUS
  <2>1. worker.pc \in {"staging", "activating", "restaging"}
    BY ManifestAssumption DEF IInv, WorkerOK, TypeOK, WorkerType, Pcs
  <2> QED
    BY <2>1 DEF IInv, WorkerOK
<1> QED
  BY <1>1, Invariance, PTL

(* What a step may do to the revisions: an operation succeeds only at or   *)
(* below the share's revision, and the revision falls only to an           *)
(* uncompared reply, which is above the revision its request was sent at.  *)
Forward ==
  /\ \A m \in Manifests : ops'[m].state = "succeeded" =>
       /\ ops'[m].expected = ops[m].expected
       /\ ops[m].state = "succeeded" \/ ops[m].expected < share'.rrev
  /\ \/ share.rrev <= share'.rrev
     \/ \E exp \in Nat : exp < share'.rrev /\ UncomparedReply(exp)

(* A step that keeps the intents and completes nothing. *)
LEMMA ForwardKept ==
  ASSUME IInv, IntentKept, NothingCompleted,
         \/ share.rrev <= share'.rrev
         \/ \E exp \in Nat : exp < share'.rrev /\ UncomparedReply(exp)
  PROVE  Forward
<1>1. ASSUME NEW m \in Manifests, ops'[m].state = "succeeded"
      PROVE  ops'[m].expected = ops[m].expected /\ ops[m].state = "succeeded"
  BY <1>1 DEF IntentKept, NothingCompleted
<1> QED
  BY <1>1 DEF Forward

(* Every step goes forward in this sense. *)
LEMMA StepForward ==
  ASSUME IInv, TypeOK', Next
  PROVE  Forward
<1>1. /\ share.rrev \in Nat /\ worker.exp \in Nat
      /\ \A m \in Manifests : ops[m].expected \in Nat
  BY Numbers DEF IInv
<1>2. CASE Requests \/ Resumptions \/ \E i \in 1..Len(log) : ApplyRemoteEvent(i)
  <2>1. Quiet
    BY <1>2, RequestsQuiet
  <2> QED
    BY <2>1, ForwardKept DEF Quiet
<1>3. ASSUME UNCHANGED <<ops, share>> PROVE Forward
  BY <1>1, <1>3 DEF Forward
<1>4. CASE \/ RemoteAnswers \/ Crash \/ (\E r \in late : RemoteAnswersLate(r))
           \/ (\E d \in direct : DirectFails(d) \/ RemoteAnswersDirect(d))
           \/ (\E state \in {"expired", "unpublished"} : RemoteChange(state))
           \/ (\E m \in Manifests : PickPublish(m)) \/ (\E k \in LifecycleKeys : PickLifecycle(k))
  <2>1. UNCHANGED <<ops, share>>
    BY <1>4 DEF RemoteAnswers, Crash, RemoteAnswersLate, DirectFails, RemoteAnswersDirect,
                RemoteChange, PickPublish, PickLifecycle, local
  <2> QED
    BY <1>3, <2>1
<1>5. ASSUME NEW error \in {"registry", "retryable", "transient", "final"}, AttemptFails(error)
      PROVE  Forward
  <2>1. IntentKept /\ NothingCompleted /\ share'.rrev = share.rrev
    BY <1>5, AttemptFailsKeeps
  <2>2. share.rrev <= share'.rrev
    BY <1>1, <2>1
  <2> QED
    BY <2>1, <2>2, ForwardKept
<1>6. ASSUME CompletePublication, worker.pc \in {"staging", "activating", "restaging"}
      PROVE  Forward
  <2>1. worker.m \in Manifests /\ worker.exp = ops[worker.m].expected
    BY <1>6 DEF IInv, WorkerOK
  <2>2. /\ share'.rrev = IF share.rrev < worker.exp + 1 THEN worker.exp + 1 ELSE share.rrev
        /\ \A m \in Manifests :
             /\ ops'[m].expected = ops[m].expected
             /\ m # worker.m => ops'[m] = ops[m]
    BY <1>6, CompletePublicationType DEF IInv, TypeOK
  <2>3. share.rrev <= share'.rrev /\ worker.exp < share'.rrev
    BY <1>1, <2>2
  <2>4. ASSUME NEW m \in Manifests, ops'[m].state = "succeeded"
        PROVE  /\ ops'[m].expected = ops[m].expected
               /\ ops[m].state = "succeeded" \/ ops[m].expected < share'.rrev
    <3>1. CASE m = worker.m
      BY <2>1, <2>2, <2>3, <3>1
    <3>2. CASE m # worker.m
      BY <2>2, <2>4, <3>2
    <3> QED
      BY <3>1, <3>2
  <2> QED
    BY <2>3, <2>4 DEF Forward
<1>7. CASE StageReplies
  <2>1. worker.pc = "staging"
    BY <1>7 DEF StageReplies
  <2>2. CASE CompletePublication
    BY <1>6, <2>1, <2>2
  <2>3. CASE AttemptFails("final")
    BY <1>5, <2>3
  <2>4. CASE ops' = [ops EXCEPT ![worker.m].state = "running"] /\ UNCHANGED share
    <3>1. IntentKept /\ NothingCompleted
      BY <2>4 DEF IInv, TypeOK, OpType, IntentKept, NothingCompleted
    <3>2. share.rrev <= share'.rrev
      BY <1>1, <2>4
    <3> QED
      BY <3>1, <3>2, ForwardKept
  <2> QED
    BY <1>7, <2>2, <2>3, <2>4 DEF StageReplies
<1>8. CASE ActivateReplies \/ RestageReplies
  <2>1. worker.pc \in {"activating", "restaging"}
    BY <1>8 DEF ActivateReplies, RestageReplies
  <2>2. CASE CompletePublication
    BY <1>6, <2>1, <2>2
  <2>3. CASE AttemptFails("final") \/ AttemptFails("registry")
    BY <1>5, <2>3
  <2>4. CASE UNCHANGED <<share, ops>>
    BY <1>3, <2>4
  <2> QED
    BY <1>8, <2>2, <2>3, <2>4 DEF ActivateReplies, RestageReplies
<1>9. CASE LifecycleReplies
  <2>1. CASE AttemptFails("final")
    BY <1>5, <2>1
  <2>2. CASE /\ worker.reply = "ok" /\ worker.rev > worker.exp
             /\ share' = [share EXCEPT !.rrev = worker.rev, !.state =
                  IF worker.key[1] = "unpublish" THEN "unpublished" ELSE "deleted"]
             /\ UNCHANGED ops
    <3>1. share'.rrev = worker.rev
      BY <2>2 DEF IInv, TypeOK, ShareType
    <3>2. worker.exp < share'.rrev
      BY <1>1, <2>2, <3>1, Numbers DEF IInv
    <3>3. UncomparedReply(worker.exp)
      BY <1>9, <2>2 DEF LifecycleReplies, UncomparedReply
    <3>4. IntentKept /\ NothingCompleted
      BY <2>2 DEF IntentKept, NothingCompleted
    <3> QED
      BY <1>1, <3>2, <3>3, <3>4, ForwardKept
  <2> QED
    BY <1>9, <2>1, <2>2 DEF LifecycleReplies
<1>10. ASSUME NEW d \in direct, DirectReplies(d) \/ SettingsReplies(d) PROVE Forward
  <2>1. /\ UNCHANGED ops /\ direct' = Touched(direct \ {d})
        /\ share'.rrev = d.rev /\ d.rev \in 1..Len(log) /\ d.rev > d.exp /\ d.exp \in Nat
    BY <1>10, DirectRepliesFacts
  <2>2. d.exp < share'.rrev
    BY <2>1
  <2>3. IntentKept /\ NothingCompleted
    BY <2>1 DEF IntentKept, NothingCompleted
  <2>4. CASE DirectReplies(d)
    <3>1. d.kind # "settings" /\ d.reply = "ok" /\ d \in DirectType
      BY <2>4 DEF DirectReplies, Accepted, IInv, TypeOK
    <3>2. d.kind \in {"republish", "password"}
      BY <3>1, BoundAssumption DEF DirectType
    <3>3. ~d.fresh
      BY <3>1 DEF IInv, DirectOK
    <3>4. d \notin direct'
      <4> SUFFICES ASSUME d \in direct' PROVE FALSE
        OBVIOUS
      <4>1. PICK e \in direct \ {d} : d = [e EXCEPT !.fresh = FALSE]
        BY <2>1, Zenon DEF Touched
      <4>2. e \in DirectType /\ e \in direct
        BY <4>1 DEF IInv, TypeOK
      <4>3. e.kind = d.kind
        BY <4>1, <4>2 DEF DirectType
      <4>4. ~e.fresh
        BY <3>1, <4>2, <4>3 DEF IInv, DirectOK
      <4>5. e.fresh = FALSE
        BY <4>2, <4>4 DEF DirectType
      <4>6. d = e
        BY <4>1, <4>2, <4>5 DEF DirectType
      <4> QED
        BY <4>1, <4>6
    <3>5. UncomparedReply(d.exp)
      BY <3>1, <3>2, <3>4 DEF UncomparedReply
    <3> QED
      BY <2>1, <2>2, <2>3, <3>5, ForwardKept
  <2>5. CASE SettingsReplies(d)
    <3>1. d.exp = share.rrev
      BY <2>5 DEF SettingsReplies, IInv, DirectOK
    <3>2. share.rrev <= share'.rrev
      BY <1>1, <2>1, <3>1
    <3> QED
      BY <2>3, <3>2, ForwardKept
  <2> QED
    BY <1>10, <2>4, <2>5
<1>11. CASE \E error \in {"retryable", "transient", "final"} : RequestFails(error)
  <2>1. PICK error \in {"retryable", "transient", "final"} : AttemptFails(error)
    BY <1>11 DEF RequestFails
  <2> QED
    BY <1>5, <2>1
<1> QED
  BY <1>2, <1>4, <1>7, <1>8, <1>9, <1>10, <1>11 DEF Next, Work, Faults, DirectSteps

(* THEOREM: nothing but the uncompared reply to an unpublish, delete,      *)
(* republish or password request that was sent before the revision a       *)
(* publication was made for puts the share behind that publication.        *)
THEOREM NeverBehind == Spec => CompletedNotBehind
<1> DEFINE Kept == \A m \in Manifests : Behind(m)' =>
         Behind(m) \/ \E exp \in 0..(ops[m].expected - 1) : UncomparedReply(exp)
<1>1. ASSUME IInv, IInv', [Next]_vars PROVE [Kept]_vars
  <2> SUFFICES ASSUME Next PROVE Kept
    BY <1>1
  <2>1. Forward
    BY <1>1, StepForward DEF IInv
  <2> SUFFICES ASSUME NEW m \in Manifests, Behind(m)', ~Behind(m)
               PROVE  \E exp \in 0..(ops[m].expected - 1) : UncomparedReply(exp)
    OBVIOUS
  <2>2. ops'[m].state = "succeeded" /\ share'.rrev <= ops'[m].expected
    BY DEF Behind
  <2>3. ops[m].expected \in Nat /\ share.rrev \in Nat /\ share'.rrev \in Nat
    BY <1>1, Numbers DEF IInv, TypeOK, ShareType
  <2>4. ops'[m].expected = ops[m].expected /\ ops[m].state = "succeeded"
    BY <2>1, <2>2, <2>3 DEF Forward
  <2>5. ~(share.rrev <= share'.rrev)
    BY <2>2, <2>3, <2>4 DEF Behind
  <2>6. PICK exp \in Nat : exp < share'.rrev /\ UncomparedReply(exp)
    BY <2>1, <2>5 DEF Forward
  <2>7. exp \in 0..(ops[m].expected - 1)
    BY <2>2, <2>3, <2>4, <2>6
  <2> QED
    BY <2>6, <2>7
<1> QED
  BY <1>1, Invariance, PTL DEF Spec, CompletedNotBehind

(* THEOREM: no step but the written reply to an unpublish, a delete, a     *)
(* republish or a password request lowers the revision of the share, and   *)
(* it stays above the revision that request was sent at.                   *)
THEOREM OnlyRepliesLower == Spec => OnlyRepliesLowerRevision
<1> DEFINE Lowers == share'.rrev < share.rrev =>
         \E exp \in 0..(share'.rrev - 1) : UncomparedReply(exp)
<1>1. ASSUME IInv, IInv', [Next]_vars PROVE [Lowers]_vars
  <2> SUFFICES ASSUME Next, share'.rrev < share.rrev
               PROVE  \E exp \in 0..(share'.rrev - 1) : UncomparedReply(exp)
    BY <1>1
  <2>1. Forward
    BY <1>1, StepForward DEF IInv
  <2>2. share.rrev \in Nat /\ share'.rrev \in Nat
    BY <1>1, Numbers DEF IInv, TypeOK, ShareType
  <2>3. PICK exp \in Nat : exp < share'.rrev /\ UncomparedReply(exp)
    BY <2>1, <2>2 DEF Forward
  <2>4. exp \in 0..(share'.rrev - 1)
    BY <2>2, <2>3
  <2> QED
    BY <2>3, <2>4
<1> QED
  BY <1>1, Invariance, PTL DEF Spec, OnlyRepliesLowerRevision
=============================================================================
