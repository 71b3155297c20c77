----------------------------- MODULE Federation -----------------------------
(***************************************************************************)
(* Capacity across clusters and failures: the federation, the recovery of  *)
(* failures and reservations of capacity. They share nothing; each has its *)
(* own initial states, next-state relation and properties.                 *)
(***************************************************************************)
EXTENDS Integers, FiniteSets, FiniteSetsExt

(***************************************************************************)
(* src/lib/federation/MultiClusterFederation.ts: clusters that register,   *)
(* report and fall silent, tasks that are sent to them and moved by        *)
(* failover, and shares of resources.                                      *)
(*                                                                         *)
(* Time is counted in intervals of the monitor.  A task that was moved     *)
(* ends with the execution it had begun: nobody starts it again.           *)
(***************************************************************************)

CONSTANTS Cluster, Work, Share

VARIABLES
    clusters,   \* clusters[c]: "none" or status, intervals since the last heartbeat
    tasks,      \* tasks[t]: status and target
    shares      \* shares[s]: status and consumer

federationVars == <<clusters, tasks, shares>>

Gone == [status |-> "none", silent |-> 0]
NoTask == [status |-> "none", target |-> "none"]

FederationInit ==
    /\ clusters = [c \in Cluster |-> Gone]
    /\ tasks = [t \in Work |-> NoTask]
    /\ shares = [s \in Share |-> [status |-> "none", consumer |-> "none"]]

Registered == {c \in Cluster : clusters[c].status # "none"}

registerCluster(c) ==
    /\ \E status \in {"active", "degraded"} :
          clusters' = [clusters EXCEPT ![c] = [status |-> status, silent |-> 0]]
    /\ UNCHANGED <<tasks, shares>>

\* Shares that it consumes are cancelled; its tasks are left alone.
unregisterCluster(c) ==
    /\ c \in Registered
    /\ clusters' = [clusters EXCEPT ![c] = Gone]
    /\ shares' = [s \in Share |-> IF shares[s].consumer = c THEN [shares[s] EXCEPT !.status = "cancelled"]
                                  ELSE shares[s]]
    /\ UNCHANGED <<tasks>>

updateHeartbeat(c) ==
    /\ c \in Registered
    /\ clusters' = [clusters EXCEPT ![c].silent = 0, ![c].status = IF @ = "offline" THEN "active" ELSE @]
    /\ UNCHANGED <<tasks, shares>>

\* Trust and policies may deny it.  The task runs at once.
dispatchTask(t) ==
    /\ tasks[t] = NoTask
    /\ \E c \in Cluster :
          /\ clusters[c].status = "active"
          /\ tasks' = [tasks EXCEPT ![t] = [status |-> "running", target |-> c]]
    /\ UNCHANGED <<clusters, shares>>

\* Wherever the task was moved meanwhile.
executeTask(t) ==
    /\ tasks[t].status \in {"running", "dispatched"}
    /\ \E result \in {"completed", "failed"} : tasks' = [tasks EXCEPT ![t].status = result]
    /\ UNCHANGED <<clusters, shares>>

shareResources(s) ==
    /\ shares[s].status = "none"
    /\ \E c \in Registered : shares' = [shares EXCEPT ![s] = [status |-> "active", consumer |-> c]]
    /\ UNCHANGED <<clusters, tasks>>

\* Capacity, trust and load only choose among these.
findBestCluster(among) == {c \in Cluster : among[c].status = "active"}

Moved(t, c) == tasks[t].target = c /\ tasks[t].status = "running"

\* Policies are not asked again, and what was moved is not moved a second time.
handleClusterFailure(c) ==
    /\ clusters' = [clusters EXCEPT ![c].status = "offline"]
    /\ \/ /\ findBestCluster(clusters') = {}
          /\ UNCHANGED tasks
       \/ \E target \in findBestCluster(clusters') :
             tasks' = [t \in Work |-> IF Moved(t, c) THEN [status |-> "dispatched", target |-> target]
                                      ELSE tasks[t]]

\* What a round of the monitor does with one cluster.
startMonitoring(c) ==
    /\ clusters[c].status = "active" /\ clusters[c].silent > 2
    /\ handleClusterFailure(c)
    /\ UNCHANGED shares

\* An interval passes.
federationTick ==
    /\ clusters' = [c \in Cluster |-> IF c \in Registered /\ clusters[c].silent < 3
                                      THEN [clusters[c] EXCEPT !.silent = @ + 1] ELSE clusters[c]]
    /\ UNCHANGED <<tasks, shares>>

FederationNext ==
    \/ \E c \in Cluster : registerCluster(c) \/ unregisterCluster(c) \/ updateHeartbeat(c)
    \/ \E t \in Work : dispatchTask(t) \/ executeTask(t)
    \/ \E s \in Share : shareResources(s)
    \/ \E c \in Cluster : startMonitoring(c)
    \/ federationTick

FederationSpec == FederationInit /\ [][FederationNext]_federationVars

FederationTypeOK ==
    /\ \A c \in Cluster : clusters[c].status \in {"none", "active", "degraded", "offline"} /\ clusters[c].silent \in 0..3
    /\ \A t \in Work : tasks[t].status \in {"none", "running", "dispatched", "completed", "failed"}
    /\ \A s \in Share : shares[s].status \in {"none", "active", "cancelled"}

\* A share is active only as long as its consumer is registered, whether or not that cluster left
\* and came back meanwhile.
SharesAreWithMembers == \A s \in Share : shares[s].status = "active" => shares[s].consumer \in Registered

\* A cluster that goes offline while another is active keeps no task that it was running.
FailoverLeavesNothing ==
    [][\A c \in Cluster :
          /\ clusters[c].status = "active" /\ clusters'[c].status = "offline"
          /\ \E d \in Cluster : clusters'[d].status = "active"
          => \A t \in Work : tasks'[t] # [status |-> "running", target |-> c]]_federationVars

-----------------------------------------------------------------------------
(***************************************************************************)
(* src/lib/recovery/FailureRecoveryManager.ts: one failure of a task that  *)
(* is migrated, the plans made for it and the nodes that come and go       *)
(* between the steps of a plan.                                            *)
(*                                                                         *)
(* Plan number p is the attempt number p.  A step awaits its effect: the   *)
(* taskRecoverer of a migration may take any time up to stepTime.          *)
(***************************************************************************)

CONSTANTS
    EdgeNode,
    maxRecoveryAttempts, recoveryCooldown,
    stepTime,      \* a step takes so long at most
    Horizon        \* bound on time

VARIABLES
    failureNow,
    failure,       \* recovered, number of attempts, time of the last one
    plans,         \* plans[p]: status, its step, and since when it runs
    online         \* nodes that nodeProvider() shows online

failureVars == <<failureNow, failure, plans, online>>

Plan == 1..maxRecoveryAttempts
Never == Horizon + recoveryCooldown + 1

FailureInit ==
    /\ failureNow = 0
    /\ failure = [recovered |-> FALSE, attempts |-> 0, last |-> Never]
    /\ plans = [p \in Plan |-> [status |-> "none", step |-> "none", since |-> 0]]
    /\ online = EdgeNode

Cool == failure.last = Never \/ failureNow - failure.last >= recoveryCooldown

\* By reportFailure(), or by a caller who has the failure, even one that was recovered.
initiateRecovery ==
    /\ Cool /\ failure.attempts < maxRecoveryAttempts
    /\ LET p == failure.attempts + 1
       IN  /\ plans' = [plans EXCEPT ![p] = [status |-> "executing", step |-> "find-node", since |-> failureNow]]
           /\ failure' = [failure EXCEPT !.attempts = p, !.last = failureNow]
    /\ UNCHANGED <<failureNow, online>>

Executing == {p \in Plan : plans[p].status = "executing"}

Fail(p) == plans' = [plans EXCEPT ![p].status = "failed"] /\ UNCHANGED <<failureNow, failure, online>>

\* Only whether a node is there is kept, not which.
findAvailableNode(p) ==
    /\ p \in Executing /\ plans[p].step = "find-node"
    /\ IF online # {} THEN /\ plans' = [plans EXCEPT ![p].step = "migrate", ![p].since = failureNow]
                           /\ UNCHANGED <<failureNow, failure, online>>
       ELSE Fail(p)

\* The taskRecoverer moves the task, refuses or throws.
migrateTask(p) ==
    /\ p \in Executing /\ plans[p].step = "migrate"
    /\ \/ /\ plans' = [plans EXCEPT ![p].status = "completed"]
          /\ failure' = [failure EXCEPT !.recovered = TRUE]
          /\ UNCHANGED <<failureNow, online>>
       \/ Fail(p)

nodesChange == \E nodes \in SUBSET EdgeNode : nodes # online /\ online' = nodes /\ UNCHANGED <<failureNow, failure, plans>>

failureTick ==
    /\ failureNow < Horizon /\ failureNow' = failureNow + 1
    /\ \A p \in Executing : failureNow - plans[p].since < stepTime
    /\ UNCHANGED <<failure, plans, online>>

FailureNext ==
    \/ initiateRecovery \/ nodesChange \/ failureTick
    \/ \E p \in Plan : findAvailableNode(p) \/ migrateTask(p)

FailureSpec == FailureInit /\ [][FailureNext]_failureVars

FailureTypeOK ==
    /\ failureNow \in 0..Horizon /\ online \subseteq EdgeNode
    /\ failure \in [recovered : BOOLEAN, attempts : 0..maxRecoveryAttempts, last : 0..Never]
    /\ plans \in [Plan -> [status : {"none", "executing", "completed", "failed"},
                           step : {"none", "find-node", "migrate"}, since : 0..Horizon]]

\* If its steps together take less than the cool-down, a task is never migrated by two plans at
\* once, although nothing but the date of the last attempt keeps them apart.
OnePlanExecutes == 2 * stepTime < recoveryCooldown => Cardinality(Executing) <= 1

\* A failure is recovered exactly if one of its plans completed, whatever later ones came to.
RecoveredByPlan == failure.recovered <=> \E p \in Plan : plans[p].status = "completed"

-----------------------------------------------------------------------------
(***************************************************************************)
(* src/lib/reservation/ResourceReservationManager.ts: reservations of the  *)
(* cores of nodes over time, requested, cancelled, preempted, and cleaned  *)
(* up by a timer.  The other resources are counted in the same way.        *)
(***************************************************************************)

CONSTANTS
    Machine, totalCpuCores,
    Reservation, Task, cpuCores,   \* cores that a request may ask for
    duration,
    Now                            \* bound on time

\* config.overcommitRatio is 6 / 5.

VARIABLES
    capacityNow,
    reservations,       \* reservations[r]; its status is "none" before the request
    taskReservations,   \* the reservation of a task, 0 if there is none
    reservedCpuCores

capacityVars == <<capacityNow, reservations, taskReservations, reservedCpuCores>>

CapacityInit ==
    /\ capacityNow = 0
    /\ reservations = [r \in Reservation |-> [status |-> "none"]]
    /\ taskReservations = [t \in Task |-> 0]
    /\ reservedCpuCores = [n \in Machine |-> 0]

Live == {r \in Reservation : reservations[r].status \in {"pending", "active"}}
On(n) == {r \in Reservation : reservations[r].status # "none" /\ reservations[r].node = n}
Held(R) == MapThenSumSet(LAMBDA r : reservations[r].cores, R)

available(n) == ((totalCpuCores - reservedCpuCores[n]) * 6) \div 5

\* The node with most cores left, unless a request prefers another or rules it out.
findSuitableNode(cores) == {n \in Machine : available(n) >= cores}

requestReservation ==
    /\ \E r \in Reservation, t \in Task, cores \in cpuCores, wait \in 0..1, guaranteed \in BOOLEAN :
          /\ reservations[r].status = "none" /\ \A q \in Reservation : q < r => reservations[q].status # "none"
          /\ \E n \in findSuitableNode(cores) :
                /\ reservations' = [reservations EXCEPT ![r] =
                      [status |-> "pending", task |-> t, node |-> n, cores |-> cores, guaranteed |-> guaranteed,
                       startTime |-> capacityNow + wait, endTime |-> capacityNow + wait + duration]]
                /\ taskReservations' = [taskReservations EXCEPT ![t] = r]
                /\ reservedCpuCores' = [reservedCpuCores EXCEPT ![n] = @ + cores]
    /\ UNCHANGED capacityNow

Less(a, b) == IF a > b THEN a - b ELSE 0

\* What is given back twice never makes the count negative.
releaseCapacity(R) ==
    reservedCpuCores' = [n \in Machine |-> Less(reservedCpuCores[n], Held(R \cap On(n)))]

\* The status is not looked at: a reservation may be cancelled twice, or after its end.
cancelReservation(r) ==
    /\ reservations[r].status # "none"
    /\ reservations' = [reservations EXCEPT ![r].status = "cancelled"]
    /\ releaseCapacity({r})
    /\ taskReservations' = [taskReservations EXCEPT ![reservations[r].task] = 0]
    /\ UNCHANGED capacityNow

\* taskReservations keeps the reservation.
preemptReservation(r) ==
    /\ reservations[r].status # "none" /\ ~reservations[r].guaranteed
    /\ reservations' = [reservations EXCEPT ![r].status = "cancelled"]
    /\ releaseCapacity({r})
    /\ UNCHANGED <<capacityNow, taskReservations>>

Over == {r \in Live : reservations[r].endTime <= capacityNow}

\* The timer: cleanup() and activateReservations().
cleanup ==
    /\ reservations' = [r \in Reservation |->
          IF r \in Over THEN [reservations[r] EXCEPT !.status = IF @ = "active" THEN "completed" ELSE "expired"]
          ELSE IF r \in Live /\ reservations[r].startTime <= capacityNow THEN [reservations[r] EXCEPT !.status = "active"]
          ELSE reservations[r]]
    /\ releaseCapacity(Over)
    /\ taskReservations' = [t \in Task |->
          IF \E r \in Over : reservations[r].task = t THEN 0 ELSE taskReservations[t]]
    /\ UNCHANGED capacityNow

capacityTick == capacityNow < Now /\ capacityNow' = capacityNow + 1 /\ UNCHANGED <<reservations, taskReservations, reservedCpuCores>>

CapacityNext ==
    \/ requestReservation \/ cleanup \/ capacityTick
    \/ \E r \in Reservation : cancelReservation(r) \/ preemptReservation(r)

CapacitySpec == CapacityInit /\ [][CapacityNext]_capacityVars

CapacityTypeOK ==
    /\ capacityNow \in 0..Now /\ reservedCpuCores \in [Machine -> Nat]
    /\ taskReservations \in [Task -> Reservation \cup {0}]
    /\ \A r \in Reservation :
          reservations[r].status \in {"none", "pending", "active", "completed", "cancelled", "expired"}

\* Every request may overcommit what is left, and yet all of them together never count more on
\* a node than its cores overcommitted once.
OvercommitIsBounded == \A n \in Machine : 5 * reservedCpuCores[n] <= 6 * totalCpuCores

\* Whatever ends a reservation, and however often, no capacity stays reserved that no live
\* reservation holds.
CapacityComesBack == \A n \in Machine : reservedCpuCores[n] <= Held(Live \cap On(n))

=============================================================================
