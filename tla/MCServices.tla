----------------------------- MODULE MCServices -----------------------------
(***************************************************************************)
(* Diverged logs of Raft nodes, and the services and routes around the     *)
(* scheduler. They share nothing, so one of them moves in each behaviour,  *)
(* the one that `active` names, and their state spaces add up.             *)
(***************************************************************************)
EXTENDS MCRaftNode

CONSTANTS
    Task, Node, Scheduler, Request, Authorised, MaxChanges, Email, Register, Refresh,
    KeyUse, MaxTokens, Create, Retry, Cancel, maxRetries, Call, AgentRetries, maxFailures,
    Nothing, Caller, maxAttempts, maxRetriesPerWindow, initialDelay, maxDelay, Steps,
    Reservation, ReservedNode, Running, Priority, Amount, MaxStarts

VARIABLES
    active, users, registers, sessions, issued, replaced, refreshes, key, keyUses, statusOf,
    nodeId, calls, events, heard, leader, work, decisions, healthy, changes, status,
    executions, queue, adding, original, cancels, taken, out, sagaOf, taskStatus, execution,
    tasksRunning, late, created, connection, poolState, retries, poolAttempt, used,
    reservations, nodeReservations, timers, runningTasks, starts, required, toPreempt,
    retryCalls, retryCount, windowOver, breaker, progress, checkpoint, automatic, failedAt

authVars == <<users, registers, sessions, issued, replaced, refreshes, key, keyUses>>
servicesVars == <<
    statusOf, nodeId, calls, events, heard, leader, work, decisions, healthy, changes>>
routesVars == <<status, executions, queue, adding, original, cancels, taken, out>>
sagaVars == <<sagaOf, taskStatus, execution, tasksRunning, late>>
poolVars == <<created, connection, poolState, retries, poolAttempt, used>>
reservationVars == <<reservations, nodeReservations, timers>>
preemptionVars == <<runningTasks, starts, required, toPreempt>>
retryVars == <<
    retryCalls, retryCount, windowOver, breaker, progress, checkpoint, automatic, failedAt>>

Services == INSTANCE Services
TaskLifecycle == INSTANCE TaskLifecycle
    WITH SagaTask <- {1, 2, 3},
         Node <- {1},
         maxTasks <- 2,
         reservable <- 3,
         NoNode <- 0
NodeCalls == INSTANCE NodeCalls
    WITH state <- poolState,
         calls <- retryCalls

ServicesInit ==
    /\ active \in
         {"raft", "auth", "routes", "saga", "services", "pool", "reservation", "preemption",
          "retry"}
    /\ DivergedInit
    /\ Services!AuthInit
    /\ TaskLifecycle!RoutesInit
    /\ TaskLifecycle!SagaInit
    /\ Services!ServicesInit
    /\ NodeCalls!PoolInit
    /\ NodeCalls!ReservationInit
    /\ NodeCalls!PreemptionInit
    /\ NodeCalls!RetryInit

ServicesNext ==
    /\ UNCHANGED active
    /\ IF active = "raft" THEN Next ELSE UNCHANGED vars
    /\ IF active = "auth" THEN Services!AuthNext ELSE UNCHANGED authVars
    /\ IF active = "routes" THEN TaskLifecycle!RoutesNext ELSE UNCHANGED routesVars
    /\ IF active = "saga" THEN TaskLifecycle!SagaNext ELSE UNCHANGED sagaVars
    /\ IF active = "services" THEN Services!ServicesNext ELSE UNCHANGED servicesVars
    /\ IF active = "pool" THEN NodeCalls!PoolNext ELSE UNCHANGED poolVars
    /\ IF active = "reservation" THEN NodeCalls!ReservationNext ELSE UNCHANGED reservationVars
    /\ IF active = "preemption" THEN NodeCalls!PreemptionNext ELSE UNCHANGED preemptionVars
    /\ IF active = "retry" THEN NodeCalls!RetryNext ELSE UNCHANGED retryVars

ServicesSpec ==
    /\ ServicesInit /\ [][ServicesNext]_<<active,
          vars, authVars, servicesVars, routesVars, sagaVars, poolVars, reservationVars,
          preemptionVars, retryVars>>

-----------------------------------------------------------------------------

\* Every component keeps its types.
TypesOK ==
    /\ TypeOK
    /\ Services!AuthTypeOK
    /\ TaskLifecycle!RoutesTypeOK
    /\ TaskLifecycle!SagaTypeOK
    /\ Services!ServicesTypeOK
    /\ NodeCalls!PoolTypeOK
    /\ NodeCalls!ReservationTypeOK
    /\ NodeCalls!PreemptionTypeOK
    /\ NodeCalls!RetryTypeOK

\* No two accounts share an address, a token that was replaced and a key that was deleted
\* let nobody in; a task that was answered is queued and one that was cancelled is not;
\* reservations of the saga are counted where they are held; only what the log decided is
\* scheduled; a healthy agent is not given up and a retry asks another client; what a node
\* has reserved is what is reserved on it; no more is preempted than was needed. A saved
\* state is where its call failed, budgets and delays stay bounded. And by steps: results
\* stay, and of the running tasks the lowest go first.
ServicesSafe ==
    /\ [](/\ TypesOK
          /\ Services!OneAccountPerEmail
          /\ Services!ReplacedTokenIsRefused
          /\ Services!DeletedKeyLetsNobodyIn
          /\ TaskLifecycle!AnsweredIsQueued
          /\ TaskLifecycle!CancelledLeavesQueue
          /\ TaskLifecycle!ReservationsAreCounted
          /\ Services!OnlyDecidedIsScheduled
          /\ NodeCalls!HealthyIsUntroubled
          /\ NodeCalls!TriesAnother
          /\ NodeCalls!ReservedIsCounted
          /\ NodeCalls!NoneTooMany
          /\ NodeCalls!ResumesWhereItFailed
          /\ NodeCalls!BudgetOvershootIsBounded
          /\ NodeCalls!DelaysAreCapped)
    /\ TaskLifecycle!ResultsStay
    /\ NodeCalls!LowestFirst
=============================================================================
