---------------------------- MODULE Notifications ----------------------------
(***************************************************************************)
(* The notification runtime for ONE monitored host: the IncidentManager    *)
(* that turns observations into incidents, the delivery queue, the         *)
(* NotificationDeliveryCoordinator's worker, retention, and the policy     *)
(* changes that reconcile them.                                            *)
(*                                                                         *)
(* Every mutateState call is one step: the store runs mutators one after   *)
(* the other and commits each in one SQLite transaction.  An awaited       *)
(* adapter request, and two commits of one handler, are separate steps.    *)
(* Clock readings (debounce, spacing, backoff, lease and cooldown ends,    *)
(* quiet hours) are abstracted: whatever depends on one may or may not be  *)
(* due.  An observation that a sequence number rejects changes nothing, so *)
(* it is no step.  Incidents are named by their event and their number.    *)
(***************************************************************************)
EXTENDS Integers, FiniteSets

CONSTANTS Host,          \* the event key of host.offline
          Children,      \* event keys of the host's monitored resources
          Repeated,      \* children that need two observations (service, container)
          Points,        \* contact points the rules name
          Reminders,     \* reminderIntervalSeconds of the rules is set
          Cooldowns,     \* cooldownSeconds of the rules is positive
          MaxAttempts,   \* RETRY_DELAYS_MS.length
          MaxIncidents,  \* bound: incidents of one event in a behaviour
          MaxRequests,   \* bound: requests (policy, contact point, unlink, acknowledge, retry)
          MaxMutes,      \* bound: times delivery becomes muted or quiet
          MaxCrashes     \* bound: process restarts

ASSUME EventAssumption == Host \notin Children /\ Repeated \subseteq Children
ASSUME BoundAssumption ==
  /\ Reminders \in BOOLEAN
  /\ Cooldowns \in BOOLEAN
  /\ MaxAttempts \in Nat \ {0}
  /\ MaxIncidents \in Nat
  /\ MaxRequests \in Nat
  /\ MaxMutes \in Nat
  /\ MaxCrashes \in Nat

VARIABLES config,    \* enabled rules, resources the host monitors, enabled contact points
          muted,     \* policy.muted or policy.quiet
          admin,     \* what a handler still has to do after it committed config
          pending,   \* observations of a pending transition, 0 if there is none
          opened,    \* incidents opened so far
          incidents, \* table incidents
          jobs,      \* table notification_deliveries
          cooling,   \* active cooldowns
          worker,    \* what processNext awaits
          requests, mutes, crashes

vars == <<config, muted, admin, pending, opened, incidents, jobs, cooling,
          worker, requests, mutes, crashes>>

policy == <<config, muted, admin>>
bounds == <<requests, mutes, crashes>>

Events == Children \cup {Host}
Kinds == {"opening", "reminder", "recovery"}
Incidents == Events \X (1..MaxIncidents)
Jobs == Incidents \X Points \X Kinds
Waiting == {"queued", "retrying"}

NoIncident == [state |-> "none", notified |-> FALSE, acked |-> FALSE]
NewIncident == [state |-> "open", notified |-> FALSE, acked |-> FALSE]
RemovedIncident == [state |-> "removed", notified |-> FALSE, acked |-> FALSE]
NoJob == [state |-> "none", attempts |-> 0]
NewJob == [state |-> "queued", attempts |-> 0]

Init ==
  /\ config = [rules |-> Events, resources |-> Children, points |-> Points]
  /\ muted = FALSE
  /\ admin = "none"
  /\ pending = [e \in Events |-> 0]
  /\ opened = [e \in Events |-> 0]
  /\ incidents = [k \in Incidents |-> NoIncident]
  /\ jobs = [j \in Jobs |-> NoJob]
  /\ cooling = {}
  /\ worker = [pc |-> "idle", job |-> {}]
  /\ requests = 0
  /\ mutes = 0
  /\ crashes = 0

-----------------------------------------------------------------------------
(* What the manager and the coordinator read of the state *)

IsOpen(e) == \E k \in Incidents : k[1] = e /\ incidents[k].state = "open"

(* hostIncidentUnavailable, and the coordinator's hostUnavailable. *)
HostUnavailable == pending[Host] > 0 \/ IsOpen(Host)

(* What is observed, and what reconcilePolicies lets live: an event whose  *)
(* rule is enabled and, for a resource, that the policy lists.  Evaluation *)
(* and delivery look at the rule only.                                     *)
Monitored == {e \in config.rules : e = Host \/ e \in config.resources}

Inhibited(e) == e # Host /\ HostUnavailable

MinObservations(e) == IF e \in Repeated THEN 2 ELSE 1

(* queueJobs: the idempotency key makes an existing job stay as it is. *)
QueueJobs(js, keys) ==
  [j \in Jobs |-> IF j \in keys /\ js[j].state = "none" THEN NewJob ELSE js[j]]

(* Jobs a mutator cancels: those waiting, never one the worker has leased. *)
CancelJobsAny(js, keys) ==
  [j \in Jobs |-> IF j \in keys /\ js[j].state # "none"
                    THEN [js[j] EXCEPT !.state = "cancelled"] ELSE js[j]]

CancelJobs(js, keys) ==
  [j \in Jobs |-> IF j \in keys /\ js[j].state \in Waiting
                    THEN [js[j] EXCEPT !.state = "cancelled"] ELSE js[j]]

ChildJobsAll == Jobs

ChildJobs == {j \in Jobs : j[1][1] # Host}

(* contactPointsFor, less the points in cooldown for the event.            *)
OpeningJobs(keys) ==
  {j \in Jobs : /\ j[1] \in keys
                /\ j[2] \in config.points
                /\ j[3] = "opening"
                /\ <<j[1][1], j[2]>> \notin cooling}

(* The recoveries of incidents: only for points that were told of them.    *)
RecoveryJobsUnasked(keys) ==
  {j \in Jobs : j[1] \in keys /\ j[2] \in config.points /\ j[3] = "recovery"}

RecoveryJobs(keys) ==
  {j \in Jobs : /\ j[1] \in keys
                /\ j[2] \in config.points
                /\ j[3] = "recovery"
                /\ jobs[<<j[1], j[2], "opening">>].state = "delivered"}

Fresh(events) == {k \in Incidents : k[1] \in events /\ k[2] = opened[k[1]] + 1}

(* #openFromPending for a set of events: incidents, and unless delivery is *)
(* muted their opening jobs.                                               *)
Open(events, js) ==
  /\ \A e \in events : opened[e] < MaxIncidents
  /\ opened' = [e \in Events |-> IF e \in events THEN opened[e] + 1 ELSE opened[e]]
  /\ incidents' = [k \in Incidents |->
       IF k \in Fresh(events) THEN NewIncident ELSE incidents[k]]
  /\ jobs' = IF muted THEN js ELSE QueueJobs(js, OpeningJobs(Fresh(events)))

-----------------------------------------------------------------------------
(* Observations *)

(* observe(healthy) and observe(unknown): a pending transition ends, and a *)
(* healthy observation resolves the open incident and queues its recovery. *)
ObserveWell(e, state) ==
  LET resolved == {k \in Incidents : k[1] = e /\ state = "healthy"
                                       /\ incidents[k].state = "open"} IN
  /\ e \in Monitored
  /\ pending[e] > 0 \/ resolved # {}
  /\ pending' = [pending EXCEPT ![e] = 0]
  /\ incidents' = [k \in Incidents |->
       IF k \in resolved THEN [incidents[k] EXCEPT !.state = "resolved"] ELSE incidents[k]]
  /\ jobs' = QueueJobs(jobs, RecoveryJobs(resolved))
  /\ UNCHANGED <<policy, opened, cooling, worker, bounds>>

(* observe(problem) of a resource: inhibited by a host outage, nothing new *)
(* for an open incident, otherwise debounced; it opens when it is due.     *)
ObserveChildProblemUninhibited(e, due) ==
  LET n == IF pending[e] < 2 THEN pending[e] + 1 ELSE 2 IN
  /\ e \in Monitored
  /\ ~IsOpen(e)
  /\ IF due /\ n >= MinObservations(e)
       THEN /\ pending' = [pending EXCEPT ![e] = 0]
            /\ Open({e}, jobs)
       ELSE /\ pending' = [pending EXCEPT ![e] = n]
            /\ UNCHANGED <<opened, incidents, jobs>>
  /\ UNCHANGED <<policy, cooling, worker, bounds>>

ObserveChildProblem(e, due) ==
  LET n == IF pending[e] < 2 THEN pending[e] + 1 ELSE 2 IN
  /\ e \in Monitored
  /\ \/ /\ HostUnavailable
        /\ pending' = [pending EXCEPT ![e] = 0]
        /\ UNCHANGED <<opened, incidents, jobs>>
     \/ /\ ~HostUnavailable
        /\ ~IsOpen(e)
        /\ IF due /\ n >= MinObservations(e)
             THEN /\ pending' = [pending EXCEPT ![e] = 0]
                  /\ Open({e}, jobs)
             ELSE /\ pending' = [pending EXCEPT ![e] = n]
                  /\ UNCHANGED <<opened, incidents, jobs>>
  /\ UNCHANGED <<policy, cooling, worker, bounds>>

(* observe(problem) of the host.  A repeated one returns before it reaches *)
(* the mutator, so only the first does anything: it removes the pending    *)
(* transitions of the resources and cancels their waiting deliveries.      *)
ObserveHostProblemAgain(due) ==
  /\ Host \in config.rules
  /\ pending[Host] = 0
  /\ pending' = [e \in Events |-> IF e = Host /\ ~due THEN 1 ELSE 0]
  /\ IF due
       THEN Open({Host}, CancelJobs(jobs, ChildJobs))
       ELSE /\ jobs' = CancelJobs(jobs, ChildJobs)
            /\ UNCHANGED <<opened, incidents>>
  /\ UNCHANGED <<policy, cooling, worker, bounds>>

ObserveHostProblem(due) ==
  /\ Host \in config.rules
  /\ ~HostUnavailable
  /\ pending' = [e \in Events |-> IF e = Host /\ ~due THEN 1 ELSE 0]
  /\ IF due
       THEN Open({Host}, CancelJobs(jobs, ChildJobs))
       ELSE /\ jobs' = CancelJobs(jobs, ChildJobs)
            /\ UNCHANGED <<opened, incidents>>
  /\ UNCHANGED <<policy, cooling, worker, bounds>>

-----------------------------------------------------------------------------
(* The 15 second evaluation *)

(* evaluatePending over the transitions that are due: dropped where the    *)
(* rule is disabled or the host is down, opened otherwise.                 *)
EvaluatePending(due) ==
  LET open == {e \in due : e \in config.rules /\ ~Inhibited(e)} IN
  /\ due # {}
  /\ \A e \in due : pending[e] >= MinObservations(e)
  /\ pending' = [e \in Events |->
       IF e \in due \/ (Host \in open /\ e # Host) THEN 0 ELSE pending[e]]
  /\ Open(open, jobs)
  /\ UNCHANGED <<policy, cooling, worker, bounds>>

(* evaluateSuppressedOpenings: openings that a mute, a cooldown or an      *)
(* outage kept back are queued, or restored with their attempt count.      *)
EvaluateSuppressedOpenings ==
  LET due == {k \in Incidents : /\ incidents[k].state = "open"
                                /\ k[1] \in config.rules
                                /\ ~Inhibited(k[1])}
      back == {j \in OpeningJobs(due) : jobs[j].state \in {"none", "cancelled"}}
  IN
  /\ ~muted
  /\ back # {}
  /\ jobs' = [j \in Jobs |-> IF j \in back THEN [jobs[j] EXCEPT !.state = "queued"]
                                           ELSE jobs[j]]
  /\ UNCHANGED <<policy, pending, opened, incidents, cooling, worker, bounds>>

(* evaluateRecoveries: openings that were delivered after the incident was *)
(* resolved get their recovery; any existing recovery job counts as one.   *)
EvaluateRecoveries ==
  LET due == {k \in Incidents : incidents[k].state = "resolved" /\ k[1] \in config.rules}
  IN
  /\ jobs' = QueueJobs(jobs, RecoveryJobs(due))
  /\ jobs' # jobs
  /\ UNCHANGED <<policy, pending, opened, incidents, cooling, worker, bounds>>

(* evaluateReminders for the incidents whose interval is over.  At most    *)
(* one reminder of an incident is followed.                                *)
EvaluateReminders(due) ==
  /\ Reminders /\ ~muted
  /\ \A k \in due : /\ incidents[k].state = "open"
                    /\ incidents[k].notified /\ ~incidents[k].acked
                    /\ k[1] \in config.rules /\ ~Inhibited(k[1])
  /\ jobs' = QueueJobs(jobs, {j \in Jobs : /\ j[1] \in due
                                           /\ j[2] \in config.points
                                           /\ j[3] = "reminder"})
  /\ jobs' # jobs
  /\ UNCHANGED <<policy, pending, opened, incidents, cooling, worker, bounds>>

-----------------------------------------------------------------------------
(* Requests: acknowledgement, manual retry, policy, agent unlink *)

Acknowledge(k) ==
  /\ incidents[k].state \notin {"none", "removed"}
  /\ ~incidents[k].acked
  /\ requests < MaxRequests
  /\ requests' = requests + 1
  /\ incidents' = [incidents EXCEPT ![k].acked = TRUE]
  /\ UNCHANGED <<policy, pending, opened, jobs, cooling, worker, mutes, crashes>>

Retry(j) ==
  /\ jobs[j].state \in {"exhausted", "cancelled"}
  /\ requests < MaxRequests
  /\ requests' = requests + 1
  /\ jobs' = [jobs EXCEPT ![j].state = "queued"]
  /\ UNCHANGED <<policy, pending, opened, incidents, cooling, worker, mutes, crashes>>

(* PATCH settings, PUT rule, PUT host: config is committed first.          *)
UpdatePolicy(rules, resources) ==
  /\ admin = "none" /\ requests < MaxRequests
  /\ config' = [rules |-> rules, resources |-> resources, points |-> config.points]
  /\ config' # config
  /\ admin' = "reconcile"
  /\ requests' = requests + 1
  /\ UNCHANGED <<muted, pending, opened, incidents, jobs, cooling, worker, mutes, crashes>>

(* reconcilePolicies, the second commit of the same handlers.              *)
ReconcileWithoutPending ==
  LET gone == {k \in Incidents : incidents[k].state = "open" /\ k[1] \notin Monitored}
  IN
  /\ admin = "reconcile"
  /\ admin' = "none"
  /\ incidents' = [k \in Incidents |->
       IF k \in gone THEN [incidents[k] EXCEPT !.state = "cancelled"] ELSE incidents[k]]
  /\ cooling' = {c \in cooling : c[1] \in Monitored}
  /\ jobs' = CancelJobs(jobs, {j \in Jobs : j[1] \in gone})
  /\ UNCHANGED <<config, muted, pending, opened, worker, bounds>>

ReconcilePolicies ==
  LET gone == {k \in Incidents : incidents[k].state = "open" /\ k[1] \notin Monitored}
  IN
  /\ admin = "reconcile"
  /\ admin' = "none"
  /\ pending' = [e \in Events |-> IF e \in Monitored THEN pending[e] ELSE 0]
  /\ incidents' = [k \in Incidents |->
       IF k \in gone THEN [incidents[k] EXCEPT !.state = "cancelled"] ELSE incidents[k]]
  /\ cooling' = {c \in cooling : c[1] \in Monitored}
  /\ jobs' = CancelJobs(jobs, {j \in Jobs : j[1] \in gone})
  /\ UNCHANGED <<config, muted, opened, worker, bounds>>

(* PUT contact point: nothing is reconciled.                               *)
UpdateContactPoint(points) ==
  /\ admin = "none" /\ requests < MaxRequests
  /\ points # config.points
  /\ config' = [config EXCEPT !.points = points]
  /\ requests' = requests + 1
  /\ UNCHANGED <<muted, admin, pending, opened, incidents, jobs, cooling, worker,
                 mutes, crashes>>

(* cancelHost: config loses the host's overrides, so that the global rules *)
(* apply, and its resources ...                                            *)
UnlinkAgent ==
  /\ admin = "none" /\ requests < MaxRequests
  /\ \E rules \in SUBSET Events :
       config' = [rules |-> rules, resources |-> {}, points |-> config.points]
  /\ admin' = "cancelHost"
  /\ requests' = requests + 1
  /\ UNCHANGED <<muted, pending, opened, incidents, jobs, cooling, worker, mutes, crashes>>

(* ... and in a second commit everything of the host ends.                 *)
CancelHost ==
  /\ admin = "cancelHost"
  /\ admin' = "none"
  /\ pending' = [e \in Events |-> 0]
  /\ cooling' = {}
  /\ incidents' = [k \in Incidents |->
       IF incidents[k].state = "open" THEN [incidents[k] EXCEPT !.state = "cancelled"]
                                      ELSE incidents[k]]
  /\ jobs' = CancelJobs(jobs, Jobs)
  /\ UNCHANGED <<config, muted, opened, worker, bounds>>

-----------------------------------------------------------------------------
(* The delivery worker: one job at a time *)

(* #leaseNext: jobs whose lease has run out are released, one available    *)
(* job is leased.  A lease outlives its worker only through a restart: the *)
(* running worker leases nothing until it has settled the job it holds.    *)
LeaseNextWaitingOnly(expired, j) ==
  /\ worker.pc = "idle"
  /\ \A x \in expired : jobs[x].state = "leased"
  /\ jobs[j].state \in Waiting
  /\ jobs' = [x \in Jobs |->
       IF x = j THEN [jobs[x] EXCEPT !.state = "leased"] ELSE jobs[x]]
  /\ worker' = [pc |-> "leased", job |-> {j}]
  /\ UNCHANGED <<policy, pending, opened, incidents, cooling, bounds>>

LeaseNext(expired, j) ==
  /\ worker.pc = "idle"
  /\ \A x \in expired : jobs[x].state = "leased"
  /\ jobs[j].state \in Waiting \/ j \in expired
  /\ jobs' = [x \in Jobs |->
       IF x = j THEN [jobs[x] EXCEPT !.state = "leased"]
       ELSE IF x \in expired THEN [jobs[x] EXCEPT !.state = "retrying"]
       ELSE jobs[x]]
  /\ worker' = [pc |-> "leased", job |-> {j}]
  /\ UNCHANGED <<policy, pending, opened, incidents, cooling, bounds>>

Undeliverable(j) ==
  \/ j[2] \notin config.points
  \/ incidents[j[1]].state = "removed"
  \/ j[3] = "opening" /\ incidents[j[1]].state # "open"
  \/ j[1][1] \notin config.rules

(* processNext after the lease: cancel, put off or send.                   *)
ProcessNext(j) ==
  /\ worker.pc = "leased"
  /\ worker' = [worker EXCEPT !.pc =
       IF Undeliverable(j) THEN "cancelling"
       ELSE IF muted \/ Inhibited(j[1][1]) THEN "deferring" ELSE "sending"]
  /\ UNCHANGED <<policy, pending, opened, incidents, jobs, cooling, bounds>>

(* The job as the worker's own mutators find it: retention may have        *)
(* removed it, and then they return.                                       *)
Settle(j, job) ==
  /\ worker' = [pc |-> "idle", job |-> {}]
  /\ jobs' = [jobs EXCEPT ![j] = job]

SettleRemoved(j) ==
  /\ worker.pc \in {"cancelling", "deferring", "sending"}
  /\ jobs[j].state = "none"
  /\ worker' = [pc |-> "idle", job |-> {}]
  /\ UNCHANGED <<policy, pending, opened, incidents, jobs, cooling, bounds>>

(* #cancel does not look at the lease; #defer and #fail do.                *)
Cancel(j) ==
  /\ worker.pc = "cancelling"
  /\ jobs[j].state # "none"
  /\ Settle(j, [jobs[j] EXCEPT !.state = "cancelled"])
  /\ UNCHANGED <<policy, pending, opened, incidents, cooling, bounds>>

Defer(j) ==
  /\ worker.pc = "deferring"
  /\ jobs[j].state = "leased"
  /\ Settle(j, [jobs[j] EXCEPT !.state = "retrying"])
  /\ UNCHANGED <<policy, pending, opened, incidents, cooling, bounds>>

(* The attempt count is saturated where it no longer makes a difference.   *)
FailRecordsAttempt(j) ==
  LET n == IF jobs[j].attempts < MaxAttempts THEN jobs[j].attempts + 1 ELSE MaxAttempts IN
  /\ worker.pc = "sending"
  /\ jobs[j].state = "leased"
  /\ Settle(j, [state |-> "failed", attempts |-> n])
  /\ UNCHANGED <<policy, pending, opened, incidents, cooling, bounds>>

Fail(j) ==
  LET n == IF jobs[j].attempts < MaxAttempts THEN jobs[j].attempts + 1 ELSE MaxAttempts IN
  /\ worker.pc = "sending"
  /\ jobs[j].state = "leased"
  /\ Settle(j, [state |-> IF n >= MaxAttempts THEN "exhausted" ELSE "retrying",
                attempts |-> n])
  /\ UNCHANGED <<policy, pending, opened, incidents, cooling, bounds>>

(* #succeed: the incident of an opening is marked notified and its event   *)
(* gets its cooldown, whatever became of the incident during the send.    *)
Succeed(j) ==
  /\ worker.pc = "sending"
  /\ jobs[j].state = "leased"
  /\ Settle(j, [jobs[j] EXCEPT !.state = "delivered"])
  /\ IF j[3] = "opening"
       THEN /\ incidents' = [incidents EXCEPT ![j[1]].notified = TRUE]
            /\ cooling' = IF Cooldowns THEN cooling \cup {<<j[1][1], j[2]>>} ELSE cooling
       ELSE UNCHANGED <<incidents, cooling>>
  /\ UNCHANGED <<policy, pending, opened, bounds>>

-----------------------------------------------------------------------------
(* Time and faults *)

(* pruneNotificationHistory: ended incidents that are old enough go with   *)
(* all their jobs, one the worker is sending included.                     *)
Prune(old) ==
  /\ old # {}
  /\ \A k \in old : incidents[k].state \in {"resolved", "cancelled"}
  /\ incidents' = [k \in Incidents |->
       IF k \in old THEN RemovedIncident ELSE incidents[k]]
  /\ jobs' = [j \in Jobs |-> IF j[1] \in old THEN NoJob ELSE jobs[j]]
  /\ UNCHANGED <<policy, pending, opened, cooling, worker, bounds>>

CooldownEnds(c) ==
  /\ cooling' = cooling \ {c}
  /\ UNCHANGED <<policy, pending, opened, incidents, jobs, worker, bounds>>

(* A mute or quiet hours begin and end.                                    *)
Mute ==
  /\ ~muted /\ mutes < MaxMutes
  /\ muted' = TRUE
  /\ mutes' = mutes + 1
  /\ UNCHANGED <<config, admin, pending, opened, incidents, jobs, cooling, worker,
                 requests, crashes>>

Unmute ==
  /\ muted
  /\ muted' = FALSE
  /\ UNCHANGED <<config, admin, pending, opened, incidents, jobs, cooling, worker, bounds>>

(* The process stops and starts again.  The tables stay: a leased job      *)
(* keeps a lease nobody owns, and a handler's second commit never comes.   *)
Crash ==
  /\ crashes < MaxCrashes
  /\ crashes' = crashes + 1
  /\ worker' = [pc |-> "idle", job |-> {}]
  /\ admin' = "none"
  /\ UNCHANGED <<config, muted, pending, opened, incidents, jobs, cooling, requests, mutes>>

-----------------------------------------------------------------------------
Leased == {j \in Jobs : jobs[j].state = "leased"}
Ended == {k \in Incidents : incidents[k].state \in {"resolved", "cancelled"}}
Remindable == {k \in Incidents : incidents[k].state = "open" /\ incidents[k].notified}

Observations ==
  \/ \E e \in Events, state \in {"healthy", "unknown"} : ObserveWell(e, state)
  \/ \E e \in Children, due \in BOOLEAN : ObserveChildProblem(e, due)
  \/ \E due \in BOOLEAN : ObserveHostProblem(due)

Evaluation ==
  \/ \E due \in SUBSET Events : EvaluatePending(due)
  \/ EvaluateSuppressedOpenings
  \/ EvaluateRecoveries
  \/ \E due \in SUBSET Remindable : EvaluateReminders(due)

Administration ==
  \/ \E k \in Incidents : Acknowledge(k)
  \/ \E j \in Jobs : Retry(j)
  \/ \E rules \in SUBSET Events, resources \in SUBSET Children :
       UpdatePolicy(rules, resources)
  \/ \E points \in SUBSET Points : UpdateContactPoint(points)
  \/ UnlinkAgent
  \/ CancelHost
  \/ ReconcilePolicies

Work ==
  \E j \in worker.job :
     ProcessNext(j) \/ SettleRemoved(j) \/ Cancel(j) \/ Defer(j) \/ Fail(j) \/ Succeed(j)

Lease(j) == \E expired \in SUBSET Leased : LeaseNext(expired, j)

Environment ==
  \/ \E old \in SUBSET Ended : Prune(old)
  \/ \E c \in cooling : CooldownEnds(c)
  \/ Mute \/ Unmute \/ Crash

Next == Observations \/ Evaluation \/ Administration \/ Work \/ Environment
          \/ \E j \in Jobs : Lease(j)

Spec == Init /\ [][Next]_vars

(* The 15 second timer evaluates recoveries for ever, a mute or quiet      *)
(* hours end, the worker's adapter requests end (they have a timeout), and *)
(* a waiting or orphaned job is leased again and again: one that was put   *)
(* off or failed is put behind the others by its availableAt.              *)
Fairness ==
  /\ WF_vars(EvaluateRecoveries)
  /\ WF_vars(Unmute)
  /\ WF_vars(Work)
  /\ \A j \in Jobs : SF_vars(Lease(j))

FairSpec == Spec /\ Fairness

-----------------------------------------------------------------------------
(* Properties *)

IncidentType == [state : {"none", "open", "resolved", "cancelled", "removed"},
                 notified : BOOLEAN, acked : BOOLEAN]
JobType == [state : {"none", "queued", "retrying", "leased", "delivered", "exhausted",
                     "cancelled"},
            attempts : Nat]

(* Type correctness: the policy, the tables and the worker have the shape  *)
(* assertNotificationState and the coordinator give them.                  *)
TypeOK ==
  /\ config \in [rules : SUBSET Events, resources : SUBSET Children,
                 points : SUBSET Points]
  /\ muted \in BOOLEAN
  /\ admin \in {"none", "reconcile", "cancelHost"}
  /\ pending \in [Events -> 0..2]
  /\ opened \in [Events -> 0..MaxIncidents]
  /\ incidents \in [Incidents -> IncidentType]
  /\ jobs \in [Jobs -> JobType]
  /\ cooling \subseteq Events \X Points
  /\ worker \in [pc : {"idle", "leased", "cancelling", "deferring", "sending"},
                 job : SUBSET Jobs]
  /\ requests \in Nat /\ mutes \in Nat /\ crashes \in Nat

(* An event has at most one open incident, and none while a transition of  *)
(* it is pending, although observe, evaluatePending and policy changes all *)
(* move it: two would both be announced and only one be resolved.          *)
OneIncidentPerEvent ==
  \A k \in Incidents : incidents[k].state = "open" =>
    /\ pending[k[1]] = 0
    /\ \A l \in Incidents : l[1] = k[1] /\ incidents[l].state = "open" => l = k

(* While host.offline is pending or open no resource of the host has a     *)
(* pending transition.  It is what makes evaluatePending's                 *)
(* splice(indexOf(pending), 1) safe: opening a host outage filters the     *)
(* list it iterates over a copy of, and indexOf would then return -1.      *)
OutageInhibits == HostUnavailable => \A e \in Children : pending[e] = 0

(* README: "recovery is delivered only to destinations that received the   *)
(* opening alert", over restored openings, retries by hand, retention and  *)
(* an opening whose request is still under way when its incident ends.     *)
RecoveryNeedsOpening ==
  \A j \in Jobs : j[3] = "recovery" /\ jobs[j].state # "none" =>
    jobs[<<j[1], j[2], "opening">>].state = "delivered"

(* Once a handler that changed the policy is through, nothing is pending   *)
(* or open for an event that is no longer monitored.  Only a process that  *)
(* stops between the two commits of the handler leaves something behind.   *)
UnmonitoredEnds ==
  admin = "none" /\ crashes = 0 =>
    \A e \in Events \ Monitored : pending[e] = 0 /\ ~IsOpen(e)

(* A delivered job stays delivered until retention removes it with its     *)
(* incident: no cancellation, restoration, manual retry, lease expiry or   *)
(* late answer sends it a second time.                                     *)
DeliveredIsFinal ==
  [][\A j \in Jobs : jobs[j].state = "delivered" /\ jobs'[j].state # "delivered"
       => incidents'[j[1]].state = "removed"]_vars

InQueue(j) == jobs[j].state \in Waiting \cup {"leased"}

(* Every queued delivery is settled (delivered, exhausted or cancelled) or *)
(* is held back by a mute or a host outage: in particular a restart while  *)
(* a job is leased does not leave it leased for ever.                      *)
DeliveriesSettle ==
  \A j \in Jobs : InQueue(j) ~> ~InQueue(j) \/ muted \/ Inhibited(j[1][1])

(* The recovery of incident k for contact point c is due, and is settled.  *)
RecoveryDue(k, c) ==
  /\ incidents[k].state = "resolved" /\ k[1] \in config.rules
  /\ jobs[<<k, c, "opening">>].state = "delivered"
  /\ c \in config.points /\ ~Inhibited(k[1])
RecoverySettled(k, c) ==
  jobs[<<k, c, "recovery">>].state \in {"delivered", "exhausted"}

(* A request cancelled that recovery: an unlink cancels what is waiting,   *)
(* the worker what it has leased while the contact point is disabled.      *)
(* evaluateRecoveries counts the cancelled job as existing, and nothing    *)
(* but a retry by hand queues it again.                                    *)
RecoveryGivenUp(k, c) == requests > 0 /\ jobs[<<k, c, "recovery">>].state = "cancelled"

(* A contact point that was told of a host outage is told of its end, or   *)
(* the attempts to do so are exhausted, even if the opening was still on   *)
(* its way when the host came back: only a request by hand ends it         *)
(* otherwise, never another outage, a restart or a lost lease.             *)
HostRecoverySettles ==
  \A k \in Incidents, c \in Points : k[1] = Host =>
    (RecoveryDue(k, c) ~>
       RecoverySettled(k, c) \/ ~RecoveryDue(k, c) \/ RecoveryGivenUp(k, c))
=============================================================================
