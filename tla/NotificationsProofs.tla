------------------------- MODULE NotificationsProofs -------------------------
(***************************************************************************)
(* Proofs about Notifications, for every set of resources and contact      *)
(* points and every bound.                                                 *)
(*                                                                         *)
(* IInv adds two facts to the invariants themselves: an incident exists    *)
(* exactly when its number has been used (so an incident that is opened is *)
(* a new one), and the job the worker holds is still leased or went away   *)
(* with its incident (so nothing the worker writes undoes a delivery).     *)
(***************************************************************************)
EXTENDS Notifications, TLAPS

(* An incident exists exactly when its number has been used. *)
Numbered == \A k \in Incidents : incidents[k].state = "none" <=> k[2] > opened[k[1]]

(* What the worker holds is leased, or was removed with its incident. *)
WorkerHolds ==
  \A j \in worker.job :
    \/ jobs[j].state = "leased"
    \/ jobs[j].state = "none" /\ incidents[j[1]].state = "removed"

(* The strengthening of OneIncidentPerEvent and OutageInhibits. *)
IncidentInv == Numbered /\ OneIncidentPerEvent /\ OutageInhibits /\ UnmonitoredEnds

(* The strengthening of RecoveryNeedsOpening. *)
JobInv == WorkerHolds /\ RecoveryNeedsOpening

-----------------------------------------------------------------------------
(* The keys of incidents and jobs *)

(* The parts of an incident's key and of a job's key. *)
LEMMA KeyParts ==
  /\ \A k \in Incidents : /\ k = <<k[1], k[2]>>
                          /\ k[1] \in Events /\ k[2] \in 1..MaxIncidents
  /\ \A j \in Jobs : /\ j = <<j[1], j[2], j[3]>>
                     /\ j[1] \in Incidents /\ j[2] \in Points /\ j[3] \in Kinds
                     /\ j[1][1] \in Events
                     /\ <<j[1], j[2], "opening">> \in Jobs
BY SMT DEF Incidents, Jobs, Kinds

(* Host is an event and is none of the resources.                          *)
LEMMA HostEvent == Host \in Events /\ Host \notin Children
BY EventAssumption DEF Events

-----------------------------------------------------------------------------
(* The helpers on jobs *)

(* queueJobs adds jobs and leaves every existing one as it is.             *)
LEMMA QueueJobsFacts ==
  ASSUME NEW js \in [Jobs -> JobType], NEW keys
  PROVE  /\ QueueJobs(js, keys) \in [Jobs -> JobType]
         /\ \A j \in Jobs :
              \/ QueueJobs(js, keys)[j] = js[j]
              \/ js[j].state = "none" /\ j \in keys /\ QueueJobs(js, keys)[j].state = "queued"
BY SMT DEF QueueJobs, JobType, NewJob

(* A cancelling mutator touches only waiting jobs.                         *)
LEMMA CancelJobsFacts ==
  ASSUME NEW js \in [Jobs -> JobType], NEW keys
  PROVE  /\ CancelJobs(js, keys) \in [Jobs -> JobType]
         /\ \A j \in Jobs :
              \/ CancelJobs(js, keys)[j] = js[j]
              \/ js[j].state \in Waiting /\ CancelJobs(js, keys)[j].state = "cancelled"
<1>1. ASSUME NEW j \in Jobs
      PROVE  [js[j] EXCEPT !.state = "cancelled"] \in JobType
  BY SMT DEF JobType
<1> QED BY <1>1, SMT DEF CancelJobs, Waiting

-----------------------------------------------------------------------------
(* Type correctness *)

(* Opening incidents keeps the types of what it writes.                    *)
LEMMA OpenType ==
  ASSUME TypeOK, NEW events \in SUBSET Events, NEW js \in [Jobs -> JobType],
         Open(events, js)
  PROVE  /\ opened' \in [Events -> 0..MaxIncidents]
         /\ incidents' \in [Incidents -> IncidentType]
         /\ jobs' \in [Jobs -> JobType]
<1>1. opened' \in [Events -> 0..MaxIncidents]
  BY BoundAssumption, SMT DEF Open, TypeOK
<1>2. incidents' \in [Incidents -> IncidentType]
  BY SMT DEF Open, TypeOK, NewIncident, IncidentType
<1>3. jobs' \in [Jobs -> JobType]
  BY QueueJobsFacts DEF Open
<1> QED BY <1>1, <1>2, <1>3

(* Changing the state of an incident, or of a job, keeps its type.         *)
LEMMA RecordTypes ==
  /\ \A i \in IncidentType, x \in {"resolved", "cancelled"} :
       [i EXCEPT !.state = x] \in IncidentType
  /\ \A i \in IncidentType : /\ [i EXCEPT !.acked = TRUE] \in IncidentType
                             /\ [i EXCEPT !.notified = TRUE] \in IncidentType
  /\ RemovedIncident \in IncidentType
  /\ \A j \in JobType, x \in {"queued", "retrying", "leased", "delivered", "cancelled"} :
       [j EXCEPT !.state = x] \in JobType /\ [j EXCEPT !.state = x].state = x
  /\ NoIncident \in IncidentType /\ NoJob \in JobType
<1>1. \A i \in IncidentType, x \in {"resolved", "cancelled"} :
        [i EXCEPT !.state = x] \in IncidentType
  BY SMT DEF IncidentType
<1>2. ASSUME NEW i \in IncidentType
      PROVE  [i EXCEPT !.acked = TRUE] \in IncidentType /\ [i EXCEPT !.notified = TRUE] \in IncidentType
  <2>1. PICK b \in BOOLEAN : b = TRUE
    OBVIOUS
  <2>2. [i EXCEPT !.acked = b] \in IncidentType
    BY SMT DEF IncidentType
  <2>3. [i EXCEPT !.notified = b] \in IncidentType
    BY SMT DEF IncidentType
  <2> QED BY <2>1, <2>2, <2>3
<1>3. RemovedIncident \in IncidentType
  BY SMT DEF IncidentType, RemovedIncident
<1>4. ASSUME NEW j \in JobType,
             NEW x \in {"queued", "retrying", "leased", "delivered", "cancelled"}
      PROVE  [j EXCEPT !.state = x] \in JobType /\ [j EXCEPT !.state = x].state = x
  BY SMT DEF JobType
<1>5. NoIncident \in IncidentType /\ NoJob \in JobType
  BY SMT DEF IncidentType, JobType, NoIncident, NoJob
<1> QED BY <1>1, <1>2, <1>3, <1>4, <1>5

(* Initially every variable has its type.                                  *)
LEMMA InitType == Init => TypeOK
<1> SUFFICES ASSUME Init PROVE TypeOK
  OBVIOUS
<1>1. incidents \in [Incidents -> IncidentType] /\ jobs \in [Jobs -> JobType]
  BY RecordTypes DEF Init
<1>2. worker \in [pc : {"idle", "leased", "cancelling", "deferring", "sending"},
                  job : SUBSET Jobs]
  BY SMT DEF Init
<1>3. pending \in [Events -> 0..2] /\ opened \in [Events -> 0..MaxIncidents]
  BY BoundAssumption, SMT DEF Init
<1>4. config \in [rules : SUBSET Events, resources : SUBSET Children, points : SUBSET Points]
  BY SMT DEF Init
<1> QED BY <1>1, <1>2, <1>3, <1>4 DEF Init, TypeOK

(* An observation keeps the types.                                         *)
LEMMA ObservationsType == TypeOK /\ Observations => TypeOK'
<1> SUFFICES ASSUME TypeOK, Observations PROVE TypeOK'
  OBVIOUS
<1> USE HostEvent
<1>1. ASSUME NEW e \in Events, NEW x \in {"healthy", "unknown"}, ObserveWell(e, x)
      PROVE  TypeOK'
  <2>1. pending' \in [Events -> 0..2]
    BY <1>1, SMT DEF ObserveWell, TypeOK
  <2>2. incidents' \in [Incidents -> IncidentType]
    BY <1>1, RecordTypes DEF ObserveWell, TypeOK
  <2>3. jobs' \in [Jobs -> JobType]
    BY <1>1, QueueJobsFacts DEF ObserveWell, TypeOK
  <2> QED BY <1>1, <2>1, <2>2, <2>3 DEF ObserveWell, TypeOK, policy, bounds
<1>2. ASSUME NEW e \in Children, NEW due \in BOOLEAN, ObserveChildProblem(e, due)
      PROVE  TypeOK'
  <2> USE DEF Events
  <2>1. pending' \in [Events -> 0..2]
    BY <1>2, SMT DEF ObserveChildProblem, TypeOK
  <2>2. /\ opened' \in [Events -> 0..MaxIncidents]
        /\ incidents' \in [Incidents -> IncidentType]
        /\ jobs' \in [Jobs -> JobType]
    <3>1. CASE Open({e}, jobs)
      BY <3>1, OpenType DEF TypeOK
    <3>2. CASE UNCHANGED <<opened, incidents, jobs>>
      BY <3>2 DEF TypeOK
    <3> QED BY <1>2, <3>1, <3>2 DEF ObserveChildProblem
  <2> QED BY <1>2, <2>1, <2>2 DEF ObserveChildProblem, TypeOK, policy, bounds
<1>3. ASSUME NEW due \in BOOLEAN, ObserveHostProblem(due)
      PROVE  TypeOK'
  <2>1. pending' \in [Events -> 0..2]
    BY <1>3, SMT DEF ObserveHostProblem, TypeOK
  <2>2. CancelJobs(jobs, ChildJobs) \in [Jobs -> JobType]
    BY CancelJobsFacts DEF TypeOK
  <2>3. /\ opened' \in [Events -> 0..MaxIncidents]
        /\ incidents' \in [Incidents -> IncidentType]
        /\ jobs' \in [Jobs -> JobType]
    <3>1. CASE Open({Host}, CancelJobs(jobs, ChildJobs))
      BY <2>2, <3>1, OpenType
    <3>2. CASE jobs' = CancelJobs(jobs, ChildJobs) /\ UNCHANGED <<opened, incidents>>
      BY <2>2, <3>2 DEF TypeOK
    <3> QED BY <1>3, <3>1, <3>2 DEF ObserveHostProblem
  <2> QED BY <1>3, <2>1, <2>3 DEF ObserveHostProblem, TypeOK, policy, bounds
<1> QED BY <1>1, <1>2, <1>3 DEF Observations

(* The timer's evaluation keeps the types.                                 *)
LEMMA EvaluationType == TypeOK /\ Evaluation => TypeOK'
<1> SUFFICES ASSUME TypeOK, Evaluation PROVE TypeOK'
  OBVIOUS
<1>1. ASSUME NEW due \in SUBSET Events, EvaluatePending(due)
      PROVE  TypeOK'
  <2> DEFINE open == {e \in due : e \in config.rules /\ ~Inhibited(e)}
  <2>1. pending' \in [Events -> 0..2]
    BY <1>1, SMT DEF EvaluatePending, TypeOK
  <2>2. Open(open, jobs) /\ open \in SUBSET Events
    BY <1>1 DEF EvaluatePending
  <2> HIDE DEF open
  <2>3. /\ opened' \in [Events -> 0..MaxIncidents]
        /\ incidents' \in [Incidents -> IncidentType]
        /\ jobs' \in [Jobs -> JobType]
    BY <2>2, OpenType DEF TypeOK
  <2> QED BY <1>1, <2>1, <2>3 DEF EvaluatePending, TypeOK, policy, bounds
<1>2. CASE EvaluateSuppressedOpenings
  <2>1. jobs' \in [Jobs -> JobType]
    BY <1>2, RecordTypes DEF EvaluateSuppressedOpenings, TypeOK
  <2> QED BY <1>2, <2>1 DEF EvaluateSuppressedOpenings, TypeOK, policy, bounds
<1>3. CASE EvaluateRecoveries
  <2>1. jobs' \in [Jobs -> JobType]
    BY <1>3, QueueJobsFacts DEF EvaluateRecoveries, TypeOK
  <2> QED BY <1>3, <2>1 DEF EvaluateRecoveries, TypeOK, policy, bounds
<1>4. ASSUME NEW due \in SUBSET Remindable, EvaluateReminders(due)
      PROVE  TypeOK'
  <2>1. jobs' \in [Jobs -> JobType]
    BY <1>4, QueueJobsFacts DEF EvaluateReminders, TypeOK
  <2> QED BY <1>4, <2>1 DEF EvaluateReminders, TypeOK, policy, bounds
<1> QED BY <1>1, <1>2, <1>3, <1>4 DEF Evaluation

(* Requests keep the types.                                                *)
LEMMA AdministrationType == TypeOK /\ Administration => TypeOK'
<1> SUFFICES ASSUME TypeOK, Administration PROVE TypeOK'
  OBVIOUS
<1> USE HostEvent
<1>1. ASSUME NEW k \in Incidents, Acknowledge(k) PROVE TypeOK'
  <2>1. incidents' \in [Incidents -> IncidentType]
    BY <1>1, RecordTypes DEF Acknowledge, TypeOK
  <2> QED BY <1>1, <2>1, SMT DEF Acknowledge, TypeOK, policy
<1>2. ASSUME NEW j \in Jobs, Retry(j) PROVE TypeOK'
  <2>1. jobs' \in [Jobs -> JobType]
    BY <1>2, RecordTypes DEF Retry, TypeOK
  <2> QED BY <1>2, <2>1, SMT DEF Retry, TypeOK, policy
<1>3. ASSUME NEW rules \in SUBSET Events, NEW resources \in SUBSET Children,
             UpdatePolicy(rules, resources)
      PROVE  TypeOK'
  <2>1. config' \in [rules : SUBSET Events, resources : SUBSET Children, points : SUBSET Points]
    BY <1>3, SMT DEF UpdatePolicy, TypeOK
  <2> QED BY <1>3, <2>1, SMT DEF UpdatePolicy, TypeOK
<1>4. ASSUME NEW points \in SUBSET Points, UpdateContactPoint(points) PROVE TypeOK'
  <2>1. config' \in [rules : SUBSET Events, resources : SUBSET Children, points : SUBSET Points]
    BY <1>4, SMT DEF UpdateContactPoint, TypeOK
  <2> QED BY <1>4, <2>1, SMT DEF UpdateContactPoint, TypeOK
<1>5. CASE UnlinkAgent
  <2>1. PICK rules \in SUBSET Events :
          config' = [rules |-> rules, resources |-> {}, points |-> config.points]
    BY <1>5 DEF UnlinkAgent
  <2>2. config' \in [rules : SUBSET Events, resources : SUBSET Children, points : SUBSET Points]
    BY <2>1, SMT DEF TypeOK
  <2> QED BY <1>5, <2>2, SMT DEF UnlinkAgent, TypeOK
<1>6. CASE CancelHost
  <2>1. pending' \in [Events -> 0..2]
    BY <1>6, SMT DEF CancelHost
  <2>2. incidents' \in [Incidents -> IncidentType]
    BY <1>6, RecordTypes DEF CancelHost, TypeOK
  <2>3. jobs' \in [Jobs -> JobType]
    BY <1>6, CancelJobsFacts DEF CancelHost, TypeOK
  <2> QED BY <1>6, <2>1, <2>2, <2>3 DEF CancelHost, TypeOK, bounds
<1>7. CASE ReconcilePolicies
  <2>1. pending' \in [Events -> 0..2]
    BY <1>7, SMT DEF ReconcilePolicies, TypeOK
  <2>2. incidents' \in [Incidents -> IncidentType]
    BY <1>7, RecordTypes DEF ReconcilePolicies, TypeOK
  <2>3. jobs' \in [Jobs -> JobType]
    BY <1>7, CancelJobsFacts DEF ReconcilePolicies, TypeOK
  <2>4. cooling' \subseteq Events \X Points
    BY <1>7 DEF ReconcilePolicies, TypeOK
  <2> QED BY <1>7, <2>1, <2>2, <2>3, <2>4 DEF ReconcilePolicies, TypeOK, bounds
<1> QED BY <1>1, <1>2, <1>3, <1>4, <1>5, <1>6, <1>7 DEF Administration

(* The worker keeps the types.                                             *)
LEMMA WorkType == TypeOK /\ (Work \/ \E j \in Jobs : Lease(j)) => TypeOK'
<1> SUFFICES ASSUME TypeOK, Work \/ \E j \in Jobs : Lease(j) PROVE TypeOK'
  OBVIOUS
<1> DEFINE WorkerType == [pc : {"idle", "leased", "cancelling", "deferring", "sending"},
                          job : SUBSET Jobs]
<1>0. worker.job \subseteq Jobs
  BY SMT DEF TypeOK
<1>a. [pc |-> "idle", job |-> {}] \in WorkerType
  BY SMT
<1>1. ASSUME NEW j \in Jobs, Lease(j) PROVE TypeOK'
  <2>1. PICK expired \in SUBSET Leased : LeaseNext(expired, j)
    BY <1>1 DEF Lease
  <2>2. jobs' \in [Jobs -> JobType]
    BY <2>1, RecordTypes DEF LeaseNext, TypeOK
  <2>3. worker' \in WorkerType
    BY <2>1, SMT DEF LeaseNext
  <2> QED BY <2>1, <2>2, <2>3 DEF LeaseNext, TypeOK, policy, bounds
<1>2. ASSUME NEW j \in worker.job, ProcessNext(j) PROVE TypeOK'
  <2>1. worker' \in WorkerType
    BY <1>2, SMT DEF ProcessNext, TypeOK
  <2> QED BY <1>2, <2>1 DEF ProcessNext, TypeOK, policy, bounds
<1>3. ASSUME NEW j \in worker.job, SettleRemoved(j) PROVE TypeOK'
  BY <1>3, <1>a DEF SettleRemoved, TypeOK, policy, bounds
<1>4. ASSUME NEW j \in worker.job, Cancel(j) PROVE TypeOK'
  <2>1. jobs' \in [Jobs -> JobType]
    BY <1>0, <1>4, RecordTypes DEF Cancel, Settle, TypeOK
  <2> QED BY <1>4, <1>a, <2>1 DEF Cancel, Settle, TypeOK, policy, bounds
<1>5. ASSUME NEW j \in worker.job, Defer(j) PROVE TypeOK'
  <2>1. jobs' \in [Jobs -> JobType]
    BY <1>0, <1>5, RecordTypes DEF Defer, Settle, TypeOK
  <2> QED BY <1>5, <1>a, <2>1 DEF Defer, Settle, TypeOK, policy, bounds
<1>6. ASSUME NEW j \in worker.job, Fail(j) PROVE TypeOK'
  <2> DEFINE n == IF jobs[j].attempts < MaxAttempts THEN jobs[j].attempts + 1 ELSE MaxAttempts
             new == [state |-> IF n >= MaxAttempts THEN "exhausted" ELSE "retrying",
                     attempts |-> n]
  <2>0. jobs[j] \in JobType
    BY <1>0 DEF TypeOK
  <2>1. n \in Nat
    BY <2>0, BoundAssumption, SMT DEF JobType
  <2>2. jobs' = [jobs EXCEPT ![j] = new]
    BY <1>6 DEF Fail, Settle
  <2>3. new \in JobType
    <3> HIDE DEF n
    <3> QED BY <2>1, SMT DEF JobType
  <2>4. jobs' \in [Jobs -> JobType]
    <3> HIDE DEF new
    <3> QED BY <2>2, <2>3 DEF TypeOK
  <2> QED BY <1>6, <1>a, <2>4 DEF Fail, Settle, TypeOK, policy, bounds
<1>7. ASSUME NEW j \in worker.job, Succeed(j) PROVE TypeOK'
  <2>1. jobs' \in [Jobs -> JobType]
    BY <1>0, <1>7, RecordTypes DEF Succeed, Settle, TypeOK
  <2>2. j \in Jobs /\ j[1] \in Incidents /\ <<j[1][1], j[2]>> \in Events \X Points
    BY <1>0, KeyParts
  <2>3. incidents' \in [Incidents -> IncidentType]
    <3>1. CASE j[3] = "opening"
      <4>1. incidents' = [incidents EXCEPT ![j[1]] = [incidents[j[1]] EXCEPT !.notified = TRUE]]
        BY <1>7, <2>2, <3>1 DEF Succeed, TypeOK
      <4>2. [incidents[j[1]] EXCEPT !.notified = TRUE] \in IncidentType
        BY <2>2, RecordTypes DEF TypeOK
      <4> QED BY <2>2, <4>1, <4>2 DEF TypeOK
    <3>2. CASE j[3] # "opening"
      BY <1>7, <3>2 DEF Succeed, TypeOK
    <3> QED BY <3>1, <3>2
  <2>4. cooling' \subseteq Events \X Points
    BY <1>7, <2>2 DEF Succeed, TypeOK
  <2> QED BY <1>7, <1>a, <2>1, <2>3, <2>4 DEF Succeed, Settle, TypeOK, policy, bounds
<1> QED BY <1>1, <1>2, <1>3, <1>4, <1>5, <1>6, <1>7 DEF Work

(* Retention, the clock and restarts keep the types.                       *)
LEMMA EnvironmentType == TypeOK /\ Environment => TypeOK'
<1> SUFFICES ASSUME TypeOK, Environment PROVE TypeOK'
  OBVIOUS
<1>1. ASSUME NEW old \in SUBSET Ended, Prune(old) PROVE TypeOK'
  <2>1. incidents' \in [Incidents -> IncidentType] /\ jobs' \in [Jobs -> JobType]
    BY <1>1, RecordTypes DEF Prune, TypeOK
  <2> QED BY <1>1, <2>1 DEF Prune, TypeOK, policy, bounds
<1>2. ASSUME NEW c \in cooling, CooldownEnds(c) PROVE TypeOK'
  BY <1>2 DEF CooldownEnds, TypeOK, policy, bounds
<1>3. CASE Mute
  BY <1>3, SMT DEF Mute, TypeOK
<1>4. CASE Unmute
  BY <1>4 DEF Unmute, TypeOK, bounds
<1>5. CASE Crash
  <2>1. worker' \in [pc : {"idle", "leased", "cancelling", "deferring", "sending"},
                     job : SUBSET Jobs]
    BY <1>5, SMT DEF Crash
  <2>2. crashes' \in Nat
    BY <1>5, SMT DEF Crash, TypeOK
  <2> QED BY <1>5, <2>1, <2>2 DEF Crash, TypeOK
<1> QED BY <1>1, <1>2, <1>3, <1>4, <1>5 DEF Environment

(* Every step keeps the types.                                             *)
LEMMA StepType == TypeOK /\ [Next]_vars => TypeOK'
<1> SUFFICES ASSUME TypeOK, [Next]_vars PROVE TypeOK'
  OBVIOUS
<1>1. CASE UNCHANGED vars
  BY <1>1 DEF vars, TypeOK
<1>2. CASE Next
  BY <1>2, ObservationsType, EvaluationType, AdministrationType, WorkType,
     EnvironmentType DEF Next
<1> QED BY <1>1, <1>2

(* Type correctness of every behaviour.                                    *)
THEOREM TypeCorrect == Spec => []TypeOK
BY InitType, StepType, PTL DEF Spec

-----------------------------------------------------------------------------
(* Incidents and pending transitions *)

(* A step after which nothing is pending or open that was not before.      *)
Ebbs ==
  /\ opened' = opened
  /\ \A k \in Incidents :
       /\ incidents'[k].state = "none" <=> incidents[k].state = "none"
       /\ incidents'[k].state = "open" => incidents[k].state = "open"
  /\ \A e \in Events : pending'[e] = pending[e] \/ pending'[e] = 0

(* Such a step keeps every invariant about incidents but UnmonitoredEnds.  *)
LEMMA EbbStep ==
  ASSUME TypeOK, TypeOK', IncidentInv, Ebbs
  PROVE  Numbered' /\ OneIncidentPerEvent' /\ OutageInhibits'
<1> USE KeyParts, HostEvent
<1>1. Numbered'
  BY DEF IncidentInv, Numbered, Ebbs
<1>2. OneIncidentPerEvent'
  BY DEF IncidentInv, OneIncidentPerEvent, Ebbs
<1>3. HostUnavailable' => HostUnavailable
  <2>1. IsOpen(Host)' => IsOpen(Host)
    BY DEF IsOpen, Ebbs
  <2>2. pending'[Host] > 0 => pending[Host] > 0
    BY SMT DEF Ebbs
  <2> QED BY <2>1, <2>2 DEF HostUnavailable
<1>4. OutageInhibits'
  BY <1>3 DEF IncidentInv, OutageInhibits, Ebbs, Events
<1> QED BY <1>1, <1>2, <1>4

(* If it leaves the policy alone as well it keeps UnmonitoredEnds too.     *)
LEMMA EbbStepKeepsPolicy ==
  ASSUME TypeOK, TypeOK', IncidentInv, Ebbs,
         admin' = "none" /\ crashes' = 0 =>
           admin = "none" /\ crashes = 0 /\ Monitored' = Monitored
  PROVE  IncidentInv'
<1>1. Numbered' /\ OneIncidentPerEvent' /\ OutageInhibits'
  BY EbbStep
<1>2. \A e \in Events : IsOpen(e)' => IsOpen(e)
  BY DEF IsOpen, Ebbs
<1>3. \A e \in Events : pending[e] = 0 => pending'[e] = 0
  BY DEF Ebbs
<1>4. UnmonitoredEnds'
  BY <1>2, <1>3 DEF IncidentInv, UnmonitoredEnds
<1> QED BY <1>1, <1>4 DEF IncidentInv

(* Opening incidents of events that have none: the number that is used is  *)
(* new, and the event's transition is no longer pending.                   *)
LEMMA OpenStep ==
  ASSUME TypeOK, TypeOK', IncidentInv, NEW events \in SUBSET Events,
         NEW js, Open(events, js),
         \A e \in events : ~IsOpen(e) /\ pending'[e] = 0,
         \A e \in Events : pending'[e] = pending[e] \/ pending'[e] = 0
  PROVE  /\ Numbered' /\ OneIncidentPerEvent'
         /\ \A e \in Events : IsOpen(e)' => IsOpen(e) \/ e \in events
         /\ \A k \in Incidents : k \in Fresh(events) => incidents[k].state = "none"
<1> USE KeyParts
<1>0. \A k \in Incidents : opened[k[1]] \in Nat /\ k[2] \in Nat
  BY SMT DEF TypeOK
<1>1. \A k \in Incidents : k \in Fresh(events) => incidents[k].state = "none"
  BY <1>0, SMT DEF IncidentInv, Numbered, Fresh
<1>2. \A k \in Incidents : incidents'[k] =
        IF k \in Fresh(events) THEN NewIncident ELSE incidents[k]
  BY DEF Open
<1>3. Numbered'
  <2> SUFFICES ASSUME NEW k \in Incidents
               PROVE  incidents'[k].state = "none" <=> k[2] > opened'[k[1]]
    BY DEF Numbered
  <2>1. incidents[k].state = "none" <=> k[2] > opened[k[1]]
    BY DEF IncidentInv, Numbered
  <2>2. opened'[k[1]] = IF k[1] \in events THEN opened[k[1]] + 1 ELSE opened[k[1]]
    BY DEF Open
  <2>3. CASE k \in Fresh(events)
    BY <1>0, <1>2, <2>2, <2>3, SMT DEF Fresh, NewIncident
  <2>4. CASE k \notin Fresh(events)
    BY <1>0, <1>2, <2>1, <2>2, <2>4, SMT DEF Fresh
  <2> QED BY <2>3, <2>4
<1>4. \A k \in Incidents : incidents'[k].state = "open" =>
        k \in Fresh(events) \/ incidents[k].state = "open"
  BY <1>2
<1>5. OneIncidentPerEvent'
  <2> SUFFICES ASSUME NEW k \in Incidents, incidents'[k].state = "open"
               PROVE  /\ pending'[k[1]] = 0
                      /\ \A l \in Incidents :
                           l[1] = k[1] /\ incidents'[l].state = "open" => l = k
    BY DEF OneIncidentPerEvent
  <2>1. CASE k[1] \in events
    <3>1. \A l \in Incidents : l[1] = k[1] => incidents[l].state # "open"
      BY <2>1 DEF IsOpen
    <3>2. \A l \in Incidents : l[1] = k[1] /\ incidents'[l].state = "open" => l \in Fresh(events)
      BY <1>4, <3>1
    <3>3. k \in Fresh(events)
      BY <3>2
    <3> QED BY <2>1, <3>2, <3>3 DEF Fresh
  <2>2. CASE k[1] \notin events
    <3>1. \A l \in Incidents : l[1] = k[1] /\ incidents'[l].state = "open" =>
            incidents[l].state = "open"
      BY <1>4, <2>2 DEF Fresh
    <3> QED BY <3>1 DEF IncidentInv, OneIncidentPerEvent
  <2> QED BY <2>1, <2>2
<1>6. \A e \in Events : IsOpen(e)' => IsOpen(e) \/ e \in events
  BY <1>4 DEF IsOpen, Fresh
<1> QED BY <1>1, <1>3, <1>5, <1>6

(* Observations keep the invariants about incidents.                       *)
LEMMA ObservationsIncidents ==
  ASSUME TypeOK, TypeOK', IncidentInv, Observations
  PROVE  IncidentInv'
<1> USE HostEvent
<1>1. ASSUME NEW e \in Events, NEW x \in {"healthy", "unknown"}, ObserveWell(e, x)
      PROVE  IncidentInv'
  <2>1. \A k \in Incidents :
          \/ incidents'[k] = incidents[k]
          \/ incidents[k].state = "open" /\ incidents'[k].state = "resolved"
    BY <1>1, RecordTypes, SMT DEF ObserveWell, TypeOK, IncidentType
  <2>2. Ebbs
    BY <1>1, <2>1 DEF ObserveWell, Ebbs, TypeOK
  <2> QED BY <1>1, <2>2, EbbStepKeepsPolicy DEF ObserveWell, policy, bounds, Monitored
<1>2. ASSUME NEW e \in Children, NEW due \in BOOLEAN, ObserveChildProblem(e, due)
      PROVE  IncidentInv'
  <2>0. e \in Events /\ e # Host /\ e \in Monitored /\ Monitored' = Monitored
    BY <1>2 DEF ObserveChildProblem, Events, Monitored, policy
  <2>1. CASE pending' = [pending EXCEPT ![e] = 0] /\ UNCHANGED <<opened, incidents>>
    <3>1. Ebbs
      BY <2>1 DEF Ebbs, TypeOK
    <3> QED BY <1>2, <3>1, EbbStepKeepsPolicy DEF ObserveChildProblem, policy, bounds, Monitored
  <2>2. ASSUME ~HostUnavailable, ~IsOpen(e), pending' = [pending EXCEPT ![e] = 0],
               Open({e}, jobs)
        PROVE  IncidentInv'
    <3>1. /\ Numbered' /\ OneIncidentPerEvent'
          /\ \A f \in Events : IsOpen(f)' => IsOpen(f) \/ f = e
      <4>1. \A f \in Events : pending'[f] = pending[f] \/ pending'[f] = 0
        BY <2>0, <2>2 DEF TypeOK
      <4>2. PICK new \in SUBSET Events : new = {e}
        BY <2>0
      <4>3. Open(new, jobs) /\ \A f \in new : ~IsOpen(f) /\ pending'[f] = 0
        BY <2>0, <2>2, <4>2 DEF TypeOK
      <4>4. /\ Numbered' /\ OneIncidentPerEvent'
            /\ \A f \in Events : IsOpen(f)' => IsOpen(f) \/ f \in new
        BY <4>1, <4>3, OpenStep
      <4> QED BY <4>2, <4>4
    <3>2. ~HostUnavailable'
      BY <2>0, <2>2, <3>1 DEF HostUnavailable, TypeOK
    <3>3. UnmonitoredEnds'
      BY <1>2, <2>0, <2>2, <3>1
      DEF ObserveChildProblem, policy, bounds, IncidentInv, UnmonitoredEnds, TypeOK
    <3> QED BY <3>1, <3>2, <3>3 DEF IncidentInv, OutageInhibits
  <2>3. ASSUME ~HostUnavailable, ~IsOpen(e), NEW n, pending' = [pending EXCEPT ![e] = n],
               UNCHANGED <<opened, incidents>>
        PROVE  IncidentInv'
    <3>1. Numbered'
      BY <2>3 DEF IncidentInv, Numbered
    <3>2. OneIncidentPerEvent'
      BY <2>0, <2>3, KeyParts DEF IncidentInv, OneIncidentPerEvent, IsOpen, TypeOK
    <3>3. \A f \in Events : IsOpen(f)' <=> IsOpen(f)
      BY <2>3 DEF IsOpen
    <3>4. ~HostUnavailable'
      BY <2>0, <2>3, <3>3 DEF HostUnavailable, TypeOK
    <3>5. UnmonitoredEnds'
      BY <1>2, <2>0, <2>3, <3>3
      DEF ObserveChildProblem, policy, bounds, IncidentInv, UnmonitoredEnds, TypeOK
    <3> QED BY <3>1, <3>2, <3>4, <3>5 DEF IncidentInv, OutageInhibits
  <2> QED BY <1>2, <2>1, <2>2, <2>3 DEF ObserveChildProblem
<1>3. ASSUME NEW due \in BOOLEAN, ObserveHostProblem(due)
      PROVE  IncidentInv'
  <2>0. /\ Host \in Monitored /\ ~HostUnavailable
        /\ UNCHANGED <<config, admin, crashes>> /\ Monitored' = Monitored
        /\ \A e \in Events : e # Host => pending'[e] = 0
    BY <1>3 DEF ObserveHostProblem, Monitored, policy, bounds
  <2>1. OutageInhibits'
    BY <2>0 DEF OutageInhibits, Events
  <2>2. CASE due
    <3>1. /\ \A e \in Events : pending'[e] = 0
          /\ Open({Host}, CancelJobs(jobs, ChildJobs))
      BY <1>3, <2>2 DEF ObserveHostProblem
    <3>2. PICK new \in SUBSET Events : new = {Host}
      OBVIOUS
    <3>3. /\ Numbered' /\ OneIncidentPerEvent'
          /\ \A f \in Events : IsOpen(f)' => IsOpen(f) \/ f = Host
      <4>1. /\ Open(new, CancelJobs(jobs, ChildJobs))
            /\ \A f \in new : ~IsOpen(f) /\ pending'[f] = 0
        BY <2>0, <3>1, <3>2 DEF HostUnavailable
      <4>2. \A f \in Events : pending'[f] = pending[f] \/ pending'[f] = 0
        BY <3>1
      <4>3. /\ Numbered' /\ OneIncidentPerEvent'
            /\ \A f \in Events : IsOpen(f)' => IsOpen(f) \/ f \in new
        BY <4>1, <4>2, OpenStep
      <4> QED BY <3>2, <4>3
    <3>4. UnmonitoredEnds'
      BY <2>0, <3>1, <3>3 DEF IncidentInv, UnmonitoredEnds
    <3> QED BY <2>1, <3>3, <3>4 DEF IncidentInv
  <2>3. CASE ~due
    <3>1. UNCHANGED <<opened, incidents>>
      BY <1>3, <2>3 DEF ObserveHostProblem
    <3>2. Numbered'
      BY <3>1 DEF IncidentInv, Numbered
    <3>3. \A f \in Events : IsOpen(f)' <=> IsOpen(f)
      BY <3>1 DEF IsOpen
    <3>4. OneIncidentPerEvent'
      BY <2>0, <3>1, KeyParts DEF IncidentInv, OneIncidentPerEvent, IsOpen, HostUnavailable
    <3>5. UnmonitoredEnds'
      BY <2>0, <3>3 DEF IncidentInv, UnmonitoredEnds
    <3> QED BY <2>1, <3>2, <3>4, <3>5 DEF IncidentInv
  <2> QED BY <2>2, <2>3
<1> QED BY <1>1, <1>2, <1>3 DEF Observations

(* The evaluation keeps the invariants about incidents.                    *)
LEMMA EvaluationIncidents ==
  ASSUME TypeOK, TypeOK', IncidentInv, Evaluation
  PROVE  IncidentInv'
<1> USE HostEvent
<1>1. ASSUME NEW due \in SUBSET Events, EvaluatePending(due)
      PROVE  IncidentInv'
  <2> DEFINE open == {e \in due : e \in config.rules /\ ~Inhibited(e)}
  <2>0. /\ Open(open, jobs)
        /\ UNCHANGED <<config, admin, crashes>>
        /\ \A e \in Events : pending'[e] =
             IF e \in due \/ (Host \in open /\ e # Host) THEN 0 ELSE pending[e]
    BY <1>1 DEF EvaluatePending, policy, bounds
  <2>1. \A e \in due : pending[e] # 0
    BY <1>1, SMT DEF EvaluatePending, MinObservations, TypeOK
  <2>2. \A e \in open : ~IsOpen(e) /\ pending'[e] = 0
    BY <2>0, <2>1, KeyParts DEF IncidentInv, OneIncidentPerEvent, IsOpen
  <2>3. open \subseteq Events /\ \A e \in open : pending[e] # 0
    BY <2>1
  <2> HIDE DEF open
  <2>4. \A e \in Events : pending'[e] = pending[e] \/ pending'[e] = 0
    BY <2>0
  <2>5. /\ Numbered' /\ OneIncidentPerEvent'
        /\ \A e \in Events : IsOpen(e)' => IsOpen(e) \/ e \in open
    BY <2>0, <2>2, <2>3, <2>4, OpenStep
  <2>6. UnmonitoredEnds'
    <3>1. Monitored' = Monitored
      BY <2>0 DEF Monitored
    <3> QED BY <2>0, <2>3, <2>4, <2>5, <3>1 DEF IncidentInv, UnmonitoredEnds
  <2>7. OutageInhibits'
    <3>1. CASE Host \in open
      BY <2>0, <3>1 DEF OutageInhibits, Events
    <3>2. CASE Host \notin open
      <4>1. HostUnavailable' => HostUnavailable
        <5>1. IsOpen(Host)' => IsOpen(Host)
          BY <2>5, <3>2
        <5>2. pending'[Host] > 0 => pending[Host] > 0
          BY <2>4, SMT
        <5> QED BY <5>1, <5>2 DEF HostUnavailable
      <4> QED BY <2>4, <4>1 DEF OutageInhibits, IncidentInv, Events
    <3> QED BY <3>1, <3>2
  <2> QED BY <2>5, <2>6, <2>7 DEF IncidentInv
<1>2. ASSUME UNCHANGED <<pending, opened, incidents, config, admin, crashes>>
      PROVE  IncidentInv'
  <2>1. Ebbs
    BY <1>2 DEF Ebbs
  <2> QED BY <1>2, <2>1, EbbStepKeepsPolicy DEF Monitored
<1> QED BY <1>1, <1>2
    DEF Evaluation, EvaluateSuppressedOpenings, EvaluateRecoveries, EvaluateReminders,
        policy, bounds

(* Requests keep the invariants about incidents.                           *)
LEMMA AdministrationIncidents ==
  ASSUME TypeOK, TypeOK', IncidentInv, Administration
  PROVE  IncidentInv'
<1>1. ASSUME NEW k \in Incidents, Acknowledge(k) PROVE IncidentInv'
  <2>1. \A l \in Incidents : incidents'[l].state = incidents[l].state
    BY <1>1, SMT DEF Acknowledge, TypeOK, IncidentType
  <2>2. Ebbs
    BY <1>1, <2>1 DEF Acknowledge, Ebbs
  <2> QED BY <1>1, <2>2, EbbStepKeepsPolicy DEF Acknowledge, policy, Monitored
<1>2. ASSUME NEW j \in Jobs, Retry(j) PROVE IncidentInv'
  <2>1. Ebbs
    BY <1>2 DEF Retry, Ebbs
  <2> QED BY <1>2, <2>1, EbbStepKeepsPolicy DEF Retry, policy, Monitored
<1>3. ASSUME NEW rules \in SUBSET Events, NEW resources \in SUBSET Children,
             UpdatePolicy(rules, resources)
      PROVE  IncidentInv'
  <2>1. Ebbs
    BY <1>3 DEF UpdatePolicy, Ebbs
  <2> QED BY <1>3, <2>1, EbbStepKeepsPolicy DEF UpdatePolicy, Monitored
<1>4. ASSUME NEW points \in SUBSET Points, UpdateContactPoint(points) PROVE IncidentInv'
  <2>1. Ebbs
    BY <1>4 DEF UpdateContactPoint, Ebbs
  <2>2. Monitored' = Monitored
    BY <1>4, SMT DEF UpdateContactPoint, TypeOK, Monitored
  <2> QED BY <1>4, <2>1, <2>2, EbbStepKeepsPolicy DEF UpdateContactPoint, Monitored
<1>5. CASE UnlinkAgent
  <2>1. Ebbs
    BY <1>5 DEF UnlinkAgent, Ebbs
  <2> QED BY <1>5, <2>1, EbbStepKeepsPolicy DEF UnlinkAgent, Monitored
<1>6. CASE CancelHost
  <2>1. \A k \in Incidents : IF incidents[k].state = "open"
                               THEN incidents'[k].state = "cancelled"
                               ELSE incidents'[k] = incidents[k]
    BY <1>6, SMT DEF CancelHost, TypeOK, IncidentType
  <2>2. Ebbs
    BY <1>6, <2>1 DEF CancelHost, Ebbs
  <2>3. UnmonitoredEnds'
    BY <1>6, <2>1 DEF CancelHost, UnmonitoredEnds, IsOpen
  <2> QED BY <2>2, <2>3, EbbStep DEF IncidentInv
<1>7. CASE ReconcilePolicies
  <2>1. \A k \in Incidents : IF incidents[k].state = "open" /\ k[1] \notin Monitored
                               THEN incidents'[k].state = "cancelled"
                               ELSE incidents'[k] = incidents[k]
    BY <1>7, SMT DEF ReconcilePolicies, TypeOK, IncidentType
  <2>2. Ebbs
    BY <1>7, <2>1 DEF ReconcilePolicies, Ebbs
  <2>3. UnmonitoredEnds'
    <3>1. Monitored' = Monitored
      BY <1>7 DEF ReconcilePolicies, Monitored
    <3>2. \A e \in Events \ Monitored : pending'[e] = 0
      BY <1>7 DEF ReconcilePolicies
    <3>3. \A e \in Events \ Monitored : ~IsOpen(e)'
      BY <2>1 DEF IsOpen
    <3> QED BY <3>1, <3>2, <3>3 DEF UnmonitoredEnds
  <2> QED BY <2>2, <2>3, EbbStep DEF IncidentInv
<1> QED BY <1>1, <1>2, <1>3, <1>4, <1>5, <1>6, <1>7 DEF Administration

(* Deliveries, retention, the clock and restarts keep them.                *)
LEMMA OtherIncidents ==
  ASSUME TypeOK, TypeOK', IncidentInv, Work \/ Environment \/ \E j \in Jobs : Lease(j)
  PROVE  IncidentInv'
<1>1. ASSUME UNCHANGED <<pending, opened, incidents, config, admin, crashes>>
      PROVE  IncidentInv'
  <2>1. Ebbs
    BY <1>1 DEF Ebbs
  <2> QED BY <1>1, <2>1, EbbStepKeepsPolicy DEF Monitored
<1>2. ASSUME NEW j \in worker.job, Succeed(j) PROVE IncidentInv'
  <2>1. \A k \in Incidents : incidents'[k].state = incidents[k].state
    BY <1>2, SMT DEF Succeed, TypeOK, IncidentType
  <2>2. Ebbs
    BY <1>2, <2>1 DEF Succeed, Ebbs
  <2> QED BY <1>2, <2>2, EbbStepKeepsPolicy DEF Succeed, policy, bounds, Monitored
<1>3. ASSUME NEW old \in SUBSET Ended, Prune(old) PROVE IncidentInv'
  <2>1. \A k \in Incidents :
          \/ incidents'[k] = incidents[k]
          \/ incidents[k].state \in {"resolved", "cancelled"} /\ incidents'[k].state = "removed"
    BY <1>3, SMT DEF Prune, RemovedIncident
  <2>2. Ebbs
    BY <1>3, <2>1 DEF Prune, Ebbs
  <2> QED BY <1>3, <2>2, EbbStepKeepsPolicy DEF Prune, policy, bounds, Monitored
<1>4. CASE Crash
  <2>1. Ebbs
    BY <1>4 DEF Crash, Ebbs
  <2>2. crashes' # 0
    BY <1>4, SMT DEF Crash, TypeOK
  <2> QED BY <2>1, <2>2, EbbStepKeepsPolicy DEF Monitored
<1>5. CASE Work
  BY <1>1, <1>2, <1>5
  DEF Work, ProcessNext, SettleRemoved, Cancel, Defer, Fail, policy, bounds
<1>6. CASE Environment
  BY <1>1, <1>3, <1>4, <1>6 DEF Environment, CooldownEnds, Mute, Unmute, policy, bounds
<1>7. CASE \E j \in Jobs : Lease(j)
  BY <1>1, <1>7 DEF Lease, LeaseNext, policy, bounds
<1> QED BY <1>5, <1>6, <1>7

-----------------------------------------------------------------------------
(* Delivery jobs *)

(* What a step outside the worker may do to a job: nothing; queue a new    *)
(* one, a recovery only where the opening was delivered; or move one that  *)
(* is neither leased nor delivered.                                        *)
JobMoves(j) ==
  \/ jobs'[j] = jobs[j]
  \/ /\ jobs[j].state = "none"
     /\ incidents[j[1]].state # "removed"
     /\ j[3] = "recovery" => jobs[<<j[1], j[2], "opening">>].state = "delivered"
  \/ jobs[j].state \in {"queued", "retrying", "exhausted", "cancelled"}

(* Steps outside the worker keep what the worker and recoveries rely on.   *)
LEMMA MoveStep ==
  ASSUME TypeOK, JobInv, \A j \in Jobs : JobMoves(j), worker'.job = worker.job,
         \A k \in Incidents : incidents[k].state = "removed" => incidents'[k].state = "removed"
  PROVE  /\ JobInv'
         /\ \A j \in Jobs : jobs[j].state = "delivered" => jobs'[j].state = "delivered"
<1> USE KeyParts
<1>0. worker.job \subseteq Jobs
  BY SMT DEF TypeOK
<1>1. \A j \in Jobs : jobs[j].state \in {"delivered", "leased"} => jobs'[j] = jobs[j]
  BY DEF JobMoves
<1>2. WorkerHolds'
  <2> SUFFICES ASSUME NEW j \in worker.job
               PROVE  \/ jobs'[j].state = "leased"
                      \/ jobs'[j].state = "none" /\ incidents'[j[1]].state = "removed"
    BY DEF WorkerHolds
  <2>1. j \in Jobs /\ j[1] \in Incidents
    BY <1>0
  <2>2. \/ jobs[j].state = "leased"
        \/ jobs[j].state = "none" /\ incidents[j[1]].state = "removed"
    BY DEF JobInv, WorkerHolds
  <2>3. jobs'[j] = jobs[j]
    BY <2>1, <2>2 DEF JobMoves
  <2> QED BY <2>1, <2>2, <2>3
<1>3. RecoveryNeedsOpening'
  <2> SUFFICES ASSUME NEW j \in Jobs, j[3] = "recovery", jobs'[j].state # "none"
               PROVE  jobs'[<<j[1], j[2], "opening">>].state = "delivered"
    BY DEF RecoveryNeedsOpening
  <2>1. jobs[<<j[1], j[2], "opening">>].state = "delivered"
    BY DEF JobMoves, JobInv, RecoveryNeedsOpening
  <2> QED BY <1>1, <2>1
<1> QED BY <1>1, <1>2, <1>3 DEF JobInv

(* Queueing jobs that may be queued, and cancelling, are such moves.       *)
LEMMA QueueMoves ==
  ASSUME TypeOK, NEW keys, jobs' = QueueJobs(jobs, keys),
         \A j \in Jobs : j \in keys =>
           /\ incidents[j[1]].state # "removed"
           /\ j[3] = "recovery" => jobs[<<j[1], j[2], "opening">>].state = "delivered"
  PROVE  \A j \in Jobs : JobMoves(j)
<1>1. jobs \in [Jobs -> JobType]
  BY DEF TypeOK
<1> SUFFICES ASSUME NEW j \in Jobs PROVE JobMoves(j)
  OBVIOUS
<1>2. jobs'[j] = jobs[j] \/ (jobs[j].state = "none" /\ j \in keys)
  BY <1>1, QueueJobsFacts
<1> QED BY <1>2 DEF JobMoves

(* The same for a cancelling mutator.                                      *)
LEMMA CancelMoves ==
  ASSUME TypeOK, NEW keys, jobs' = CancelJobs(jobs, keys)
  PROVE  \A j \in Jobs : JobMoves(j)
<1>1. jobs \in [Jobs -> JobType]
  BY DEF TypeOK
<1> SUFFICES ASSUME NEW j \in Jobs PROVE JobMoves(j)
  OBVIOUS
<1>2. jobs'[j] = jobs[j] \/ jobs[j].state \in Waiting
  BY <1>1, CancelJobsFacts
<1> QED BY <1>2 DEF JobMoves, Waiting

(* Opening incidents queues only jobs of new incidents.                    *)
LEMMA OpenMoves ==
  ASSUME TypeOK, Numbered, NEW events \in SUBSET Events, NEW js \in [Jobs -> JobType],
         Open(events, js),
         \A j \in Jobs : js[j] = jobs[j] \/ jobs[j].state \in Waiting
  PROVE  /\ \A j \in Jobs : JobMoves(j)
         /\ \A k \in Incidents : incidents[k].state = "removed" =>
                                   incidents'[k].state = "removed"
<1> USE KeyParts
<1>1. \A k \in Incidents : k \in Fresh(events) => incidents[k].state = "none"
  BY SMT DEF Numbered, Fresh, TypeOK
<1>2. \A j \in Jobs : \/ jobs'[j] = js[j]
                      \/ js[j].state = "none" /\ j \in OpeningJobs(Fresh(events))
  BY QueueJobsFacts DEF Open
<1>3. \A j \in Jobs : JobMoves(j)
  <2> SUFFICES ASSUME NEW j \in Jobs PROVE JobMoves(j)
    OBVIOUS
  <2>1. CASE jobs[j].state \in Waiting
    BY <2>1 DEF JobMoves, Waiting
  <2>2. CASE js[j] = jobs[j] /\ jobs'[j] = js[j]
    BY <2>2 DEF JobMoves
  <2>3. CASE js[j] = jobs[j] /\ js[j].state = "none" /\ j \in OpeningJobs(Fresh(events))
    <3>1. j[3] = "opening" /\ j[1] \in Fresh(events)
      BY <2>3 DEF OpeningJobs
    <3>2. incidents[j[1]].state = "none"
      BY <1>1, <3>1
    <3> QED BY <2>3, <3>1, <3>2 DEF JobMoves
  <2> QED BY <1>2, <2>1, <2>2, <2>3
<1>4. \A k \in Incidents : incidents[k].state = "removed" => incidents'[k].state = "removed"
  BY <1>1 DEF Open
<1> QED BY <1>3, <1>4

(* A delivered job stays so unless its incident is removed.                *)
DeliveredKept ==
  \A j \in Jobs : jobs[j].state = "delivered" /\ jobs'[j].state # "delivered" =>
    incidents'[j[1]].state = "removed"

(* Observations keep the invariants about jobs.                            *)
LEMMA ObservationsJobs ==
  ASSUME TypeOK, Numbered, JobInv, Observations
  PROVE  JobInv' /\ DeliveredKept
<1> USE HostEvent, KeyParts
<1>0. ASSUME \A j \in Jobs : JobMoves(j), worker' = worker,
             \A k \in Incidents : incidents[k].state = "removed" =>
                                    incidents'[k].state = "removed"
      PROVE  JobInv' /\ DeliveredKept
  BY <1>0, MoveStep DEF DeliveredKept
<1>1. ASSUME NEW e \in Events, NEW x \in {"healthy", "unknown"}, ObserveWell(e, x)
      PROVE  JobInv' /\ DeliveredKept
  <2> DEFINE resolved == {k \in Incidents : k[1] = e /\ x = "healthy"
                                              /\ incidents[k].state = "open"}
  <2>1. jobs' = QueueJobs(jobs, RecoveryJobs(resolved))
    BY <1>1 DEF ObserveWell
  <2>2. \A k \in Incidents : incidents[k].state = "removed" => incidents'[k].state = "removed"
    BY <1>1 DEF ObserveWell
  <2>3. \A k \in resolved : incidents[k].state = "open"
    OBVIOUS
  <2> HIDE DEF resolved
  <2>4. \A j \in Jobs : JobMoves(j)
    <3>1. \A j \in Jobs : j \in RecoveryJobs(resolved) =>
            /\ incidents[j[1]].state # "removed"
            /\ jobs[<<j[1], j[2], "opening">>].state = "delivered"
      BY <2>3 DEF RecoveryJobs
    <3> QED BY <2>1, <3>1, QueueMoves
  <2> QED BY <1>0, <1>1, <2>2, <2>4 DEF ObserveWell
<1>2. ASSUME NEW e \in Children, NEW due \in BOOLEAN, ObserveChildProblem(e, due)
      PROVE  JobInv' /\ DeliveredKept
  <2>1. CASE UNCHANGED <<opened, incidents, jobs>>
    BY <1>0, <1>2, <2>1 DEF ObserveChildProblem, JobMoves
  <2>2. CASE Open({e}, jobs)
    <3>1. PICK new \in SUBSET Events : new = {e}
      BY DEF Events
    <3>2. Open(new, jobs) /\ jobs \in [Jobs -> JobType]
      BY <2>2, <3>1 DEF TypeOK
    <3>3. /\ \A j \in Jobs : JobMoves(j)
          /\ \A k \in Incidents : incidents[k].state = "removed" =>
                                    incidents'[k].state = "removed"
      BY <3>2, OpenMoves
    <3> QED BY <1>0, <1>2, <3>3 DEF ObserveChildProblem
  <2> QED BY <1>2, <2>1, <2>2 DEF ObserveChildProblem
<1>3. ASSUME NEW due \in BOOLEAN, ObserveHostProblem(due)
      PROVE  JobInv' /\ DeliveredKept
  <2>0. PICK js : js = CancelJobs(jobs, ChildJobs)
    OBVIOUS
  <2>1. /\ js \in [Jobs -> JobType]
        /\ \A j \in Jobs : js[j] = jobs[j] \/ jobs[j].state \in Waiting
    BY <2>0, CancelJobsFacts DEF TypeOK
  <2>2. CASE jobs' = js /\ UNCHANGED <<opened, incidents>>
    <3>1. \A j \in Jobs : JobMoves(j)
      BY <2>1, <2>2 DEF JobMoves, Waiting
    <3> QED BY <1>0, <1>3, <2>2, <3>1 DEF ObserveHostProblem
  <2>3. CASE Open({Host}, js)
    <3>1. PICK new \in SUBSET Events : new = {Host}
      OBVIOUS
    <3>2. Open(new, js)
      BY <2>3, <3>1
    <3>3. /\ \A j \in Jobs : JobMoves(j)
          /\ \A k \in Incidents : incidents[k].state = "removed" =>
                                    incidents'[k].state = "removed"
      BY <2>1, <3>2, OpenMoves
    <3> QED BY <1>0, <1>3, <3>3 DEF ObserveHostProblem
  <2> QED BY <1>3, <2>0, <2>2, <2>3 DEF ObserveHostProblem
<1> QED BY <1>1, <1>2, <1>3 DEF Observations

(* The evaluation keeps them.                                              *)
LEMMA EvaluationJobs ==
  ASSUME TypeOK, Numbered, JobInv, Evaluation
  PROVE  JobInv' /\ DeliveredKept
<1> USE KeyParts
<1>0. ASSUME \A j \in Jobs : JobMoves(j), worker' = worker,
             \A k \in Incidents : incidents[k].state = "removed" =>
                                    incidents'[k].state = "removed"
      PROVE  JobInv' /\ DeliveredKept
  BY <1>0, MoveStep DEF DeliveredKept
<1>1. ASSUME NEW due \in SUBSET Events, EvaluatePending(due)
      PROVE  JobInv' /\ DeliveredKept
  <2>1. PICK new \in SUBSET Events : Open(new, jobs)
    BY <1>1 DEF EvaluatePending
  <2>2. jobs \in [Jobs -> JobType]
    BY DEF TypeOK
  <2>3. /\ \A j \in Jobs : JobMoves(j)
        /\ \A k \in Incidents : incidents[k].state = "removed" =>
                                  incidents'[k].state = "removed"
    BY <2>1, <2>2, OpenMoves
  <2> QED BY <1>0, <1>1, <2>3 DEF EvaluatePending
<1>2. CASE EvaluateSuppressedOpenings
  <2>1. ASSUME NEW j \in Jobs PROVE JobMoves(j)
    <3> DEFINE due == {k \in Incidents : /\ incidents[k].state = "open"
                                         /\ k[1] \in config.rules
                                         /\ ~Inhibited(k[1])}
    <3>1. \/ jobs'[j] = jobs[j]
          \/ j \in OpeningJobs(due) /\ jobs[j].state \in {"none", "cancelled"}
      BY <1>2 DEF EvaluateSuppressedOpenings
    <3>2. \A k \in due : incidents[k].state = "open"
      OBVIOUS
    <3> HIDE DEF due
    <3> QED BY <3>1, <3>2 DEF JobMoves, OpeningJobs
  <2> QED BY <1>0, <1>2, <2>1 DEF EvaluateSuppressedOpenings
<1>3. CASE EvaluateRecoveries
  <2> DEFINE due == {k \in Incidents : incidents[k].state = "resolved" /\ k[1] \in config.rules}
  <2>1. jobs' = QueueJobs(jobs, RecoveryJobs(due))
    BY <1>3 DEF EvaluateRecoveries
  <2>2. \A k \in due : incidents[k].state = "resolved"
    OBVIOUS
  <2> HIDE DEF due
  <2>3. \A j \in Jobs : JobMoves(j)
    <3>1. \A j \in Jobs : j \in RecoveryJobs(due) =>
            /\ incidents[j[1]].state # "removed"
            /\ jobs[<<j[1], j[2], "opening">>].state = "delivered"
      BY <2>2 DEF RecoveryJobs
    <3> QED BY <2>1, <3>1, QueueMoves
  <2> QED BY <1>0, <1>3, <2>3 DEF EvaluateRecoveries
<1>4. ASSUME NEW due \in SUBSET Remindable, EvaluateReminders(due)
      PROVE  JobInv' /\ DeliveredKept
  <2> DEFINE new == {j \in Jobs : j[1] \in due /\ j[2] \in config.points /\ j[3] = "reminder"}
  <2>1. jobs' = QueueJobs(jobs, new)
    BY <1>4 DEF EvaluateReminders
  <2>2. \A j \in new : j[3] = "reminder" /\ incidents[j[1]].state = "open"
    BY <1>4 DEF EvaluateReminders
  <2> HIDE DEF new
  <2>3. \A j \in Jobs : JobMoves(j)
    <3>1. \A j \in Jobs : j \in new =>
            /\ incidents[j[1]].state # "removed"
            /\ j[3] = "recovery" => jobs[<<j[1], j[2], "opening">>].state = "delivered"
      BY <2>2
    <3> QED BY <2>1, <3>1, QueueMoves
  <2> QED BY <1>0, <1>4, <2>3 DEF EvaluateReminders
<1> QED BY <1>1, <1>2, <1>3, <1>4 DEF Evaluation

(* Requests keep them.                                                     *)
LEMMA AdministrationJobs ==
  ASSUME TypeOK, JobInv, Administration
  PROVE  JobInv' /\ DeliveredKept
<1> USE KeyParts
<1>0. ASSUME \A j \in Jobs : JobMoves(j), worker' = worker,
             \A k \in Incidents : incidents[k].state = "removed" =>
                                    incidents'[k].state = "removed"
      PROVE  JobInv' /\ DeliveredKept
  BY <1>0, MoveStep DEF DeliveredKept
<1>1. ASSUME NEW k \in Incidents, Acknowledge(k) PROVE JobInv' /\ DeliveredKept
  <2>1. \A l \in Incidents : incidents'[l].state = incidents[l].state
    BY <1>1, SMT DEF Acknowledge, TypeOK, IncidentType
  <2>2. \A j \in Jobs : JobMoves(j)
    BY <1>1 DEF Acknowledge, JobMoves
  <2> QED BY <1>0, <1>1, <2>1, <2>2 DEF Acknowledge
<1>2. ASSUME NEW j \in Jobs, Retry(j) PROVE JobInv' /\ DeliveredKept
  <2>1. \A i \in Jobs : JobMoves(i)
    BY <1>2 DEF Retry, JobMoves, TypeOK
  <2> QED BY <1>0, <1>2, <2>1 DEF Retry
<1>3. ASSUME UNCHANGED <<incidents, jobs, worker>> PROVE JobInv' /\ DeliveredKept
  BY <1>0, <1>3 DEF JobMoves
<1>4. ASSUME NEW keys, jobs' = CancelJobs(jobs, keys), worker' = worker,
             \A k \in Incidents : incidents[k].state = "removed" =>
                                    incidents'[k].state = "removed"
      PROVE  JobInv' /\ DeliveredKept
  <2>1. \A j \in Jobs : JobMoves(j)
    BY <1>4, CancelMoves
  <2> QED BY <1>0, <1>4, <2>1
<1>5. CASE CancelHost
  <2>1. \A k \in Incidents : incidents[k].state = "removed" => incidents'[k].state = "removed"
    BY <1>5 DEF CancelHost
  <2> QED BY <1>4, <1>5, <2>1 DEF CancelHost
<1>6. CASE ReconcilePolicies
  <2>1. \A k \in Incidents : incidents[k].state = "removed" => incidents'[k].state = "removed"
    BY <1>6 DEF ReconcilePolicies
  <2> QED BY <1>4, <1>6, <2>1 DEF ReconcilePolicies
<1> QED BY <1>1, <1>2, <1>3, <1>5, <1>6
    DEF Administration, UpdatePolicy, UpdateContactPoint, UnlinkAgent

(* What the worker writes keeps them: the job it settles is leased.        *)
LEMMA WorkJobs ==
  ASSUME TypeOK, TypeOK', JobInv, Work \/ \E j \in Jobs : Lease(j)
  PROVE  JobInv' /\ DeliveredKept
<1> USE KeyParts
<1>0. worker.job \subseteq Jobs
  BY SMT DEF TypeOK
<1>1. ASSUME NEW j \in worker.job, NEW job, job.state # "none", jobs[j].state # "none",
             worker' = [pc |-> "idle", job |-> {}], jobs' = [jobs EXCEPT ![j] = job]
      PROVE  JobInv' /\ DeliveredKept
  <2>1. jobs[j].state = "leased" /\ j \in Jobs
    BY <1>0, <1>1 DEF JobInv, WorkerHolds
  <2>2. WorkerHolds'
    BY <1>1 DEF WorkerHolds
  <2>3. \A i \in Jobs : IF i = j THEN jobs'[i].state # "none" ELSE jobs'[i] = jobs[i]
    BY <1>1, <2>1 DEF TypeOK
  <2>4. RecoveryNeedsOpening' /\ DeliveredKept
    <3>1. \A i \in Jobs : jobs[i].state = "delivered" => jobs'[i] = jobs[i]
      BY <2>1, <2>3
    <3>2. \A i \in Jobs : jobs'[i].state # "none" => jobs[i].state # "none"
      BY <2>1, <2>3
    <3> QED BY <3>1, <3>2 DEF JobInv, RecoveryNeedsOpening, DeliveredKept
  <2> QED BY <2>2, <2>4 DEF JobInv
<1>2. ASSUME NEW j \in worker.job, ProcessNext(j) \/ SettleRemoved(j)
      PROVE  JobInv' /\ DeliveredKept
  <2>1. UNCHANGED <<jobs, incidents>> /\ worker'.job \subseteq worker.job
    BY <1>2, SMT DEF ProcessNext, SettleRemoved, TypeOK
  <2> QED BY <2>1 DEF JobInv, WorkerHolds, RecoveryNeedsOpening, DeliveredKept
<1>3. ASSUME NEW j \in worker.job, Cancel(j) \/ Defer(j) \/ Succeed(j)
      PROVE  JobInv' /\ DeliveredKept
  <2>1. jobs[j] \in JobType
    BY <1>0 DEF TypeOK
  <2>2. PICK x \in {"cancelled", "retrying", "delivered"} : Settle(j, [jobs[j] EXCEPT !.state = x])
    BY <1>3 DEF Cancel, Defer, Succeed
  <2>3. [jobs[j] EXCEPT !.state = x].state # "none"
    BY <2>1, RecordTypes
  <2>4. jobs[j].state # "none"
    BY <1>3 DEF Cancel, Defer, Succeed
  <2> QED BY <1>1, <2>2, <2>3, <2>4 DEF Settle
<1>4. ASSUME NEW j \in worker.job, Fail(j) PROVE JobInv' /\ DeliveredKept
  <2>1. PICK job : job.state # "none" /\ Settle(j, job)
    BY <1>4, SMT DEF Fail
  <2>2. jobs[j].state # "none"
    BY <1>4 DEF Fail
  <2> QED BY <1>1, <2>1, <2>2 DEF Settle
<1>5. ASSUME NEW j \in Jobs, Lease(j) PROVE JobInv' /\ DeliveredKept
  <2>1. PICK expired \in SUBSET Leased : LeaseNext(expired, j)
    BY <1>5 DEF Lease
  <2>2. \A i \in Jobs : \/ jobs'[i] = jobs[i] /\ i # j
                        \/ /\ jobs[i].state \in {"queued", "retrying", "leased"}
                           /\ jobs'[i].state # "none"
    <3> SUFFICES ASSUME NEW i \in Jobs
                 PROVE  \/ jobs'[i] = jobs[i] /\ i # j
                        \/ /\ jobs[i].state \in {"queued", "retrying", "leased"}
                           /\ jobs'[i].state # "none"
      OBVIOUS
    <3>1. /\ [jobs[i] EXCEPT !.state = "leased"].state = "leased"
          /\ [jobs[i] EXCEPT !.state = "retrying"].state = "retrying"
      BY RecordTypes DEF TypeOK
    <3>2. CASE i = j
      <4>1. jobs'[i] = [jobs[i] EXCEPT !.state = "leased"]
        BY <2>1, <3>2 DEF LeaseNext
      <4>2. jobs[i].state \in {"queued", "retrying", "leased"}
        BY <2>1, <3>2 DEF LeaseNext, Waiting
      <4> QED BY <3>1, <4>1, <4>2
    <3>3. CASE i # j /\ i \in expired
      <4>1. jobs'[i] = [jobs[i] EXCEPT !.state = "retrying"] /\ jobs[i].state = "leased"
        BY <2>1, <3>3 DEF LeaseNext
      <4> QED BY <3>1, <4>1
    <3>4. CASE i # j /\ i \notin expired
      BY <2>1, <3>4 DEF LeaseNext
    <3> QED BY <3>2, <3>3, <3>4
  <2>3. jobs'[j].state = "leased"
    BY <2>1, RecordTypes DEF LeaseNext, TypeOK
  <2>4. WorkerHolds'
    BY <2>1, <2>3 DEF LeaseNext, WorkerHolds
  <2>5. RecoveryNeedsOpening' /\ DeliveredKept
    <3>1. \A i \in Jobs : jobs[i].state = "delivered" => jobs'[i] = jobs[i]
      BY <2>2
    <3>2. \A i \in Jobs : jobs'[i].state # "none" => jobs[i].state # "none"
      BY <2>2
    <3> QED BY <3>1, <3>2 DEF JobInv, RecoveryNeedsOpening, DeliveredKept
  <2> QED BY <2>4, <2>5 DEF JobInv
<1> QED BY <1>2, <1>3, <1>4, <1>5 DEF Work

(* Retention, the clock and restarts keep them.                            *)
LEMMA EnvironmentJobs ==
  ASSUME TypeOK, JobInv, Environment
  PROVE  JobInv' /\ DeliveredKept
<1> USE KeyParts
<1>0. worker.job \subseteq Jobs
  BY SMT DEF TypeOK
<1>1. ASSUME NEW old \in SUBSET Ended, Prune(old) PROVE JobInv' /\ DeliveredKept
  <2>1. \A j \in Jobs : IF j[1] \in old
                          THEN jobs'[j].state = "none" /\ incidents'[j[1]].state = "removed"
                          ELSE jobs'[j] = jobs[j] /\ incidents'[j[1]] = incidents[j[1]]
    <3>1. NoJob.state = "none" /\ RemovedIncident.state = "removed"
      BY SMT DEF NoJob, RemovedIncident
    <3> SUFFICES ASSUME NEW j \in Jobs
                 PROVE  IF j[1] \in old
                          THEN jobs'[j].state = "none" /\ incidents'[j[1]].state = "removed"
                          ELSE jobs'[j] = jobs[j] /\ incidents'[j[1]] = incidents[j[1]]
      OBVIOUS
    <3>2. j[1] \in Incidents
      OBVIOUS
    <3>3. /\ jobs'[j] = IF j[1] \in old THEN NoJob ELSE jobs[j]
          /\ incidents'[j[1]] = IF j[1] \in old THEN RemovedIncident ELSE incidents[j[1]]
      BY <1>1, <3>2 DEF Prune
    <3> QED BY <3>1, <3>3
  <2>2. WorkerHolds'
    BY <1>0, <1>1, <2>1 DEF Prune, JobInv, WorkerHolds
  <2>3. RecoveryNeedsOpening' /\ DeliveredKept
    BY <2>1 DEF JobInv, RecoveryNeedsOpening, DeliveredKept
  <2> QED BY <2>2, <2>3 DEF JobInv
<1>2. ASSUME UNCHANGED <<jobs, incidents>>, worker'.job \subseteq worker.job
      PROVE  JobInv' /\ DeliveredKept
  BY <1>2 DEF JobInv, WorkerHolds, RecoveryNeedsOpening, DeliveredKept
<1> QED BY <1>1, <1>2 DEF Environment, CooldownEnds, Mute, Unmute, Crash

-----------------------------------------------------------------------------
(* Invariance, and the theorems *)

(* The inductive invariant. *)
IInv == TypeOK /\ IncidentInv /\ JobInv

(* It holds initially.                                                     *)
LEMMA InitInv == Init => IInv
<1> SUFFICES ASSUME Init PROVE IInv
  OBVIOUS
<1> USE KeyParts, HostEvent
<1>1. TypeOK
  BY InitType
<1>2. \A k \in Incidents : incidents[k].state = "none"
  BY SMT DEF Init, NoIncident
<1>3. Numbered
  BY <1>2, SMT DEF Init, Numbered
<1>4. OneIncidentPerEvent /\ UnmonitoredEnds /\ OutageInhibits
  BY <1>2 DEF Init, OneIncidentPerEvent, UnmonitoredEnds, IsOpen, OutageInhibits, Events
<1>5. WorkerHolds
  BY SMT DEF Init, WorkerHolds
<1>6. \A j \in Jobs : jobs[j].state = "none"
  BY SMT DEF Init, NoJob
<1> QED BY <1>1, <1>3, <1>4, <1>5, <1>6 DEF IInv, IncidentInv, JobInv, RecoveryNeedsOpening

(* Every step keeps it, and no step takes a delivery back.                 *)
LEMMA StepInv == IInv /\ [Next]_vars => IInv' /\ DeliveredKept
<1> SUFFICES ASSUME IInv, [Next]_vars PROVE IInv' /\ DeliveredKept
  OBVIOUS
<1>1. TypeOK'
  BY StepType DEF IInv
<1>2. CASE UNCHANGED vars
  <2>1. IncidentInv'
    BY <1>2 DEF vars, IInv, IncidentInv, Numbered, OneIncidentPerEvent, OutageInhibits,
                UnmonitoredEnds, Monitored, HostUnavailable, IsOpen
  <2>2. JobInv' /\ DeliveredKept
    BY <1>2 DEF vars, IInv, JobInv, WorkerHolds, RecoveryNeedsOpening, DeliveredKept
  <2> QED BY <1>1, <2>1, <2>2 DEF IInv
<1>3. CASE Next
  <2>1. IncidentInv'
    BY <1>1, <1>3, ObservationsIncidents, EvaluationIncidents, AdministrationIncidents,
       OtherIncidents DEF Next, IInv
  <2>2. JobInv' /\ DeliveredKept
    BY <1>1, <1>3, ObservationsJobs, EvaluationJobs, AdministrationJobs, WorkJobs,
       EnvironmentJobs DEF Next, IInv, IncidentInv
  <2> QED BY <1>1, <2>1, <2>2 DEF IInv
<1> QED BY <1>2, <1>3

(* It holds in every state of every behaviour.                             *)
LEMMA Invariance == Spec => []IInv
BY InitInv, StepInv, PTL DEF Spec

(* No event ever has two open incidents, or one open and one pending.      *)
THEOREM OneIncident == Spec => []OneIncidentPerEvent
<1>1. IInv => OneIncidentPerEvent
  BY DEF IInv, IncidentInv
<1> QED BY <1>1, Invariance, PTL

(* No resource has a pending transition while its host is down, so         *)
(* evaluatePending never splices at indexOf = -1.                          *)
THEOREM OutageInhibitsChildren == Spec => []OutageInhibits
<1>1. IInv => OutageInhibits
  BY DEF IInv, IncidentInv
<1> QED BY <1>1, Invariance, PTL

(* Only a destination that received the opening is sent the recovery.      *)
THEOREM RecoveryAfterOpening == Spec => []RecoveryNeedsOpening
<1>1. IInv => RecoveryNeedsOpening
  BY DEF IInv, JobInv
<1> QED BY <1>1, Invariance, PTL

(* A completed policy change leaves nothing open that is not monitored.    *)
THEOREM NothingUnmonitored == Spec => []UnmonitoredEnds
<1>1. IInv => UnmonitoredEnds
  BY DEF IInv, IncidentInv
<1> QED BY <1>1, Invariance, PTL

(* A recorded delivery is never taken back.                                *)
THEOREM DeliveryIsFinal == Spec => DeliveredIsFinal
<1>1. IInv /\ [Next]_vars => [\A j \in Jobs :
        jobs[j].state = "delivered" /\ jobs'[j].state # "delivered"
          => incidents'[j[1]].state = "removed"]_vars
  BY StepInv DEF DeliveredKept
<1> QED BY <1>1, Invariance, PTL DEF Spec, DeliveredIsFinal
=============================================================================
