----------------------------- MODULE MCCluster ------------------------------
(***************************************************************************)
(* The task scheduler with claims that may take any time, and the          *)
(* schedulers, queues, executors and connections of the libraries. They    *)
(* share nothing, so one of them moves in each behaviour, the one that     *)
(* `active` names, and their state spaces add up.                          *)
(***************************************************************************)
EXTENDS MCTaskScheduler

CONSTANTS
    Call, failureThreshold, successThreshold, halfOpenMaxCalls, maxAttempts, Id, Class,
    weight, maxBonus, maxConcurrent, queueRetries, QueueHorizon, MaxEnqueues, nodeTimeout,
    heartbeatInterval, Connection, Message, maxConnections, maxReconnectAttempts,
    pageReconnects, MaxCalls, Look, retries, MaxUndeployed, Group, windowSize,
    windowHorizon, Loop, MaxEvents, MaxStops, MaxRestarts, poolSize, MaxStatements

VARIABLES
    active, breakerState, failures, successes, halfOpenCalls, breakerElapsed,
    breakerRunning, trials, retriesState, failureCount, successCount, retriesElapsed,
    attempt, waiting, fatal, now, queueQueue, processing, queueRunning, delayed,
    queueEnqueues, isRunning, queued, node, taskDistribution, sinceCheck, placed, pool,
    state, sockets, failing, poolTimers, poolReconnectAttempts, subscribed,
    poolMessageQueue, delivered, poolSent, readyState, ws, isConnecting,
    pageReconnectAttempts, pageTimers, reconnectTimer, pageMessageQueue, subscriptions,
    served, overlapped, hung, calls, executorStatus, container, interval, timer, looks,
    executorAttempt, reported, runtime, pc, sandbox, owner, result, met, nodes, todo,
    marketWaiting, deployments, marketStatus, invocations, undeployed, since, withdrawn,
    streamNow, windows, publishing, added, published, chaosStatus, starts, timers,
    activeExperiments, stops, completing, injected, lost, up, at, called, initialized,
    containerOverlapped, disk, ca, writing, pairs, requests, certificates, crl, signer,
    restarts, inUse, databasePc, statements

breakerVars == <<
    breakerState, failures, successes, halfOpenCalls, breakerElapsed, breakerRunning, trials>>
retriesVars == <<
    retriesState, failureCount, successCount, retriesElapsed, attempt, waiting, fatal>>
queueVars == <<now, queueQueue, processing, queueRunning, delayed, queueEnqueues>>
clusterVars == <<isRunning, queued, node, taskDistribution, sinceCheck, placed>>
poolVars == <<
    pool, state, sockets, failing, poolTimers, poolReconnectAttempts, subscribed,
    poolMessageQueue, delivered, poolSent>>
pageVars == <<
    readyState, ws, isConnecting, pageReconnectAttempts, pageTimers, reconnectTimer,
    pageMessageQueue, subscriptions, served, overlapped, hung, calls>>
executorVars == <<
    executorStatus, container, interval, timer, looks, executorAttempt, reported>>
runtimeVars == <<runtime, pc, sandbox, owner, result, met>>
marketVars == <<
    nodes, todo, marketWaiting, deployments, marketStatus, invocations, undeployed, since,
    withdrawn>>
streamVars == <<streamNow, windows, publishing, added, published>>
chaosVars == <<
    chaosStatus, starts, timers, activeExperiments, stops, completing, injected, lost>>
containerVars == <<up, at, called, initialized, containerOverlapped>>
authorityVars == <<disk, ca, writing, pairs, requests, certificates, crl, signer, restarts>>
databaseVars == <<inUse, databasePc, statements>>

ClientCalls == INSTANCE ClientCalls
    WITH Node <- {"n1", "n2"},
         Task <- {1, 2},
         queue <- queueQueue,
         enqueues <- queueEnqueues
Connections == INSTANCE Connections
    WITH Socket <- {1, 2, 3},
         Channel <- {"nodes", "tasks"},
         sent <- poolSent
Execution == INSTANCE Execution
    WITH ExecutorTask <- {1, 2},
         Execution <- {1, 2, 3},
         TaskOf <- <<1, 1, 2>>,
         Node <- {1, 2},
         Deploy <- {1, 2},
         Invocation <- {1},
         attempt <- executorAttempt,
         waiting <- marketWaiting
Platform == INSTANCE Platform
    WITH Start <- {1, 2, 3},
         Starting <- {1, 2},
         Stopping <- {3},
         Request <- {1, 2},
         Transaction <- {1, 2, 3},
         Query <- {4},
         now <- streamNow,
         status <- chaosStatus,
         overlapped <- containerOverlapped,
         pc <- databasePc

ClusterInit ==
    /\ active \in
         {"scheduler", "breaker", "retries", "queue", "cluster", "pool", "executor",
          "stream", "chaos", "page", "runtime", "market", "container", "authority",
          "database"}
    /\ Init
    /\ ClientCalls!BreakerInit
    /\ ClientCalls!RetriesInit
    /\ ClientCalls!QueueInit
    /\ ClientCalls!ClusterInit
    /\ Connections!PoolInit
    /\ Execution!ExecutorInit
    /\ Platform!StreamInit
    /\ Platform!ChaosInit
    /\ Connections!PageInit
    /\ Execution!RuntimeInit
    /\ Execution!MarketInit
    /\ Platform!ContainerInit
    /\ Platform!AuthorityInit
    /\ Platform!DatabaseInit

ClusterNext ==
    /\ UNCHANGED active
    /\ IF active = "scheduler" THEN Next ELSE UNCHANGED vars
    /\ IF active = "breaker" THEN ClientCalls!BreakerNext ELSE UNCHANGED breakerVars
    /\ IF active = "retries" THEN ClientCalls!RetriesNext ELSE UNCHANGED retriesVars
    /\ IF active = "queue" THEN ClientCalls!QueueNext ELSE UNCHANGED queueVars
    /\ IF active = "cluster" THEN ClientCalls!ClusterNext ELSE UNCHANGED clusterVars
    /\ IF active = "pool" THEN Connections!PoolNext ELSE UNCHANGED poolVars
    /\ IF active = "executor" THEN Execution!ExecutorNext ELSE UNCHANGED executorVars
    /\ IF active = "stream" THEN Platform!StreamNext ELSE UNCHANGED streamVars
    /\ IF active = "chaos" THEN Platform!ChaosNext ELSE UNCHANGED chaosVars
    /\ IF active = "page" THEN Connections!PageNext ELSE UNCHANGED pageVars
    /\ IF active = "runtime" THEN Execution!RuntimeNext ELSE UNCHANGED runtimeVars
    /\ IF active = "market" THEN Execution!MarketNext ELSE UNCHANGED marketVars
    /\ IF active = "container" THEN Platform!ContainerNext ELSE UNCHANGED containerVars
    /\ IF active = "authority" THEN Platform!AuthorityNext ELSE UNCHANGED authorityVars
    /\ IF active = "database" THEN Platform!DatabaseNext ELSE UNCHANGED databaseVars

ClusterSpec ==
    /\ ClusterInit /\ [][ClusterNext]_<<active,
          vars, breakerVars, retriesVars, queueVars, clusterVars, poolVars, pageVars,
          executorVars, runtimeVars, marketVars, streamVars, chaosVars, containerVars,
          authorityVars, databaseVars>>

-----------------------------------------------------------------------------

\* Every component keeps its types.
TypesOK ==
    /\ ClientCalls!BreakerTypeOK
    /\ ClientCalls!RetriesTypeOK
    /\ ClientCalls!QueueTypeOK
    /\ ClientCalls!ClusterTypeOK
    /\ Connections!PoolTypeOK
    /\ Execution!ExecutorTypeOK
    /\ Platform!StreamTypeOK
    /\ Platform!ChaosTypeOK
    /\ Connections!PageTypeOK
    /\ Execution!RuntimeTypeOK
    /\ Execution!MarketTypeOK
    /\ Platform!ContainerTypeOK
    /\ Platform!AuthorityTypeOK
    /\ Platform!DatabaseTypeOK

\* A breaker that is half open waits for its trials, one that is closed has fewer failures
\* than its threshold, and attempts end; an urgent task starts first; a task goes to a node
\* that was alive; a pool has one socket for each address, and messages keep their order;
\* an aggregate that is published is whole; faults end with their experiment; a page is
\* served what it subscribed to, over one socket; a result that is good is that of a
\* process that ended, and nothing of a sandbox is left; what was deployed last is active;
\* a container that is initialized is up, and a processor has its bus; certificates that
\* were issued are trusted; transactions are stuck only in a full pool. And by steps: a
\* task that completed does not fail later, and a withdrawn function is not invoked.
ClusterSafe ==
    /\ [](/\ TypesOK
          /\ ClientCalls!HalfOpenIsWaiting
          /\ ClientCalls!ClosedIsBelow
          /\ ClientCalls!AttemptsEnd
          /\ ClientCalls!UrgentStartsFirst
          /\ ClientCalls!AssignedWasAlive
          /\ Connections!OneSocket
          /\ Connections!MessagesKeepOrder
          /\ Platform!PublishedIsWhole
          /\ Platform!FaultsEnd
          /\ Connections!ServedIsSubscribed
          /\ Connections!OneAtATime
          /\ Execution!OkIsEnded
          /\ Execution!NothingIsLeft
          /\ Execution!DeployedIsActive
          /\ Platform!InitializedIsUp
          /\ Platform!ProcessorHasItsBus
          /\ Platform!IssuedIsTrusted
          /\ Platform!StuckOnlyIfFull)
    /\ Execution!CompletedIsNotFailed
    /\ Execution!WithdrawnIsNotInvoked
=============================================================================
