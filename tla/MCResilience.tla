---------------------------- MODULE MCResilience ----------------------------
(***************************************************************************)
(* The circuit breaker and the components that keep the load and the       *)
(* failures of the backend within limits. They share nothing, so one of    *)
(* them moves in each behaviour, the one that `active` names, and their    *)
(* state spaces add up.                                                    *)
(***************************************************************************)
EXTENDS CircuitBreaker

CONSTANTS
    c1, c2, c3, c4, Task, Taker, Batch, Given, MaxBoost, Scheduler, perMinuteLimit,
    maxPendingTasks, Minutes, MaxScheduled, Request, Load, throttleThreshold,
    loadShedThreshold, mlThreshold, cacheThreshold, featureThreshold, historyLimit,
    Recovery, Type, Entities, maxConcurrentRecoveries, RecoveredTask, ActionType, Target,
    healerCooldown, hour, minute, maxConcurrentActions, bulkhead, perMinute, perHour,
    Horizon, Round, Varying, ColdNode, Recorder, coldPhaseThreshold, warmPhaseThreshold,
    MaxResults, Channel, Socket, Timer, maxReconnectAttempts, MaxOutages, MaxChanges,
    MaxRequests, Step, stepRetries, Traversal, MaxFailures

VARIABLES
    active, queue, stored, takers, promoting, handed, cancelled, limiterMinute, inWindow,
    pending, passed, scheduledTasks, completedTasks, requests, loadLevel, loadHistory,
    level, features, checking, recoveryCalls, recoveryActive, recoveryLock,
    recoveryCooldown, isolated, tasks, listed, now, history, lastGlobal, activeActions,
    rescheduled, begunAt, known, recorders, succeeded, ended, condition, rounds, running,
    lastHealthStatus, ws, readyState, knows, eventSource, subscriptions, isConnecting,
    isIntentionallyClosed, reconnectAttempts, clientTimers, reconnectTimeout, gaveUp, up,
    started, outages, rows, changes, events, nodes, pageRequests, status, completedNodes,
    failedNodes, traversals, workflowFailures, runs, paused

priorityVars == <<queue, stored, takers, promoting, handed, cancelled>>
limiterVars == <<limiterMinute, inWindow, pending, passed, scheduledTasks, completedTasks>>
loadVars == <<requests, loadLevel, loadHistory, level, features, checking>>
recoveryVars == <<
    recoveryCalls, recoveryActive, recoveryLock, recoveryCooldown, isolated, tasks, listed>>
healerVars == <<now, history, lastGlobal, activeActions, rescheduled, begunAt>>
coldStartVars == <<known, recorders, succeeded, ended>>
healthVars == <<condition, rounds, running, lastHealthStatus>>
clientVars == <<
    ws, readyState, knows, eventSource, subscriptions, isConnecting, isIntentionallyClosed,
    reconnectAttempts, clientTimers, reconnectTimeout, gaveUp, up, started, outages>>
pageVars == <<rows, changes, events, nodes, pageRequests>>
workflowVars == <<
    status, completedNodes, failedNodes, traversals, workflowFailures, runs, paused>>

LoadLimits == INSTANCE LoadLimits
    WITH minute <- limiterMinute
Healing == INSTANCE Healing
    WITH calls <- recoveryCalls,
         active <- recoveryActive
ClientSide == INSTANCE ClientSide
    WITH Node <- {1, 2},
         Edge <- {<<1, 2>>, <<1, 3>>, <<2, 4>>, <<3, 4>>},
         timers <- clientTimers,
         requests <- pageRequests,
         failures <- workflowFailures

ResilienceInit ==
    /\ active \in
         {"breaker", "priority", "recovery", "healer", "coldStart", "limiter", "load",
          "health", "client", "page", "workflow"}
    /\ Init
    /\ LoadLimits!PriorityInit
    /\ Healing!RecoveryInit
    /\ Healing!HealerInit
    /\ Healing!ColdStartInit
    /\ LoadLimits!LimiterInit
    /\ LoadLimits!LoadInit
    /\ Healing!HealthInit
    /\ ClientSide!ClientInit
    /\ ClientSide!PageInit
    /\ ClientSide!WorkflowInit

ResilienceNext ==
    /\ UNCHANGED active
    /\ IF active = "breaker" THEN Next ELSE UNCHANGED vars
    /\ IF active = "priority" THEN LoadLimits!PriorityNext ELSE UNCHANGED priorityVars
    /\ IF active = "recovery" THEN Healing!RecoveryNext ELSE UNCHANGED recoveryVars
    /\ IF active = "healer" THEN Healing!HealerNext ELSE UNCHANGED healerVars
    /\ IF active = "coldStart" THEN Healing!ColdStartNext ELSE UNCHANGED coldStartVars
    /\ IF active = "limiter" THEN LoadLimits!LimiterNext ELSE UNCHANGED limiterVars
    /\ IF active = "load" THEN LoadLimits!LoadNext ELSE UNCHANGED loadVars
    /\ IF active = "health" THEN Healing!HealthNext ELSE UNCHANGED healthVars
    /\ IF active = "client" THEN ClientSide!ClientNext ELSE UNCHANGED clientVars
    /\ IF active = "page" THEN ClientSide!PageNext ELSE UNCHANGED pageVars
    /\ IF active = "workflow" THEN ClientSide!WorkflowNext ELSE UNCHANGED workflowVars

ResilienceSpec ==
    /\ ResilienceInit /\ [][ResilienceNext]_<<active,
          vars, priorityVars, limiterVars, loadVars, recoveryVars, healerVars,
          coldStartVars, healthVars, clientVars, pageVars, workflowVars>>
    /\ WF_vars(active = "breaker" /\ halfOpenCircuit)
    /\ \A c \in Calls : WF_vars(active = "breaker" /\ (onSuccess(c) \/ onFailure(c)))
    /\ \A r \in Round :
           /\ WF_healthVars(active = "health" /\ Healing!performChecks(r))
           /\ WF_healthVars(active = "health" /\ Healing!check(r))
           /\ WF_healthVars(active = "health" /\ Healing!publish(r))
    /\ \A s \in Socket :
           /\ WF_clientVars(active = "client" /\ ClientSide!onopen(s))
           /\ WF_clientVars(active = "client" /\ ClientSide!onerror(s))
           /\ WF_clientVars(active = "client" /\ ClientSide!onclose(s))
    /\ \A t \in Timer : WF_clientVars(active = "client" /\ ClientSide!reconnect(t))
    /\ WF_clientVars(active = "client" /\ ClientSide!sseOpens)
    /\ WF_pageVars(active = "page" /\ ClientSide!fetchData)
    /\ WF_pageVars(active = "page" /\ ClientSide!told)
    /\ SF_pageVars(active = "page" /\ ClientSide!answeredFirst)
    /\ \A t \in Traversal :
           /\ WF_workflowVars(active = "workflow" /\ ClientSide!Walk(t))
           /\ WF_workflowVars(active = "workflow" /\ (ClientSide!complete(t) \/ ClientSide!fail(t)))

-----------------------------------------------------------------------------

\* Every component keeps its types.
TypesOK ==
    /\ TypeOK
    /\ LoadLimits!PriorityTypeOK
    /\ Healing!RecoveryTypeOK
    /\ Healing!HealerTypeOK
    /\ Healing!ColdStartTypeOK
    /\ LoadLimits!LimiterTypeOK
    /\ LoadLimits!LoadTypeOK
    /\ Healing!HealthTypeOK
    /\ ClientSide!ClientTypeOK
    /\ ClientSide!PageTypeOK
    /\ ClientSide!WorkflowTypeOK

\* No task of the priority queues is lost; recoveries of an entity exclude each other and
\* take back only what ran on an isolated node; actions of the healer keep their distance;
\* the phase of a node is earned by its results, and critical tasks avoid cold ones;
\* schedulers exceed the rate limits by no more than their number, and the count of pending
\* tasks is exact; only low requests are turned away, and features follow the level;
\* subscriptions survive a lost connection; a node of a workflow runs behind its
\* predecessors. And by steps: a workflow that ended stays so, and what was done is not
\* repeated.
ResilienceSafe ==
    /\ [](/\ TypesOK
          /\ LoadLimits!NoTaskIsLost
          /\ Healing!RecoveriesAreExclusive
          /\ Healing!TakenBackIsIsolated
          /\ Healing!ActionsAreSpaced
          /\ Healing!PhaseIsEarned
          /\ Healing!CriticalAvoidsCold
          /\ LoadLimits!OvershootIsBounded
          /\ LoadLimits!PendingIsExact
          /\ LoadLimits!OnlyLowIsTurnedAway
          /\ LoadLimits!FeaturesFollowLevel
          /\ ClientSide!SubscriptionsSurvive
          /\ ClientSide!PredecessorsFirst)
    /\ ClientSide!EndedStays
    /\ ClientSide!DoneIsNotRepeated

\* An outage that lasts is reported; a client that wants a connection gets one or gives up;
\* a page shows in the end what the server has; a workflow that nobody pauses ends.
ResilienceProgress ==
    /\ Healing!OutageIsReported
    /\ ClientSide!ConnectsOrGivesUp
    /\ ClientSide!PageCatchesUp
    /\ ClientSide!WorkflowEnds
=============================================================================
