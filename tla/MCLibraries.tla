---------------------------- MODULE MCLibraries -----------------------------
(***************************************************************************)
(* Elections of Raft nodes with restarts and late answers, and libraries   *)
(* of the dashboard. They share nothing, so one of them moves in each      *)
(* behaviour, the one that `active` names, and their state spaces add up.  *)
(***************************************************************************)
EXTENDS MCRaftNode

CONSTANTS
    Training, totalRounds, roundsPerEvaluation, Accuracy, Region, localRegion, RegionTask,
    Cloud, Nothing, Nonce, AgentToken, maxDrift, cleanupInterval, maxRevoked, keptRevoked,
    AuthHorizon, MaxRevocations, Worker, concurrency, Task, Critical, maxRetries, MaxStops,
    Sandbox, timeout, removal, maxTasks, Delivery, retryCount, MaxRetried, Key, Request,
    ttl, requestCleanup, maxInFlight

VARIABLES
    active, learningStatus, round, at, history, bestAccuracy, bestRound, rounds, regions,
    regionStatus, regionTasks, stranded, nodes, known, simulatorTasks, policy, isSimulating,
    starting, taskTimeouts, now, sinceCleanup, nonceCache, accepted, replayed,
    revokedTokens, everRevoked, workerStatus, taskQueue, runningTasks, timers,
    workerRetryCount, settled, dispatched, dropped, stops, sandboxStatus, stored,
    sandboxStarting, age, removals, status, attemptCount, waiting, loops, sending,
    webhookTimers, enabled, retried, requestRequests, inFlight, completed,
    requestSinceCleanup, displaced, served

learningVars == <<learningStatus, round, at, history, bestAccuracy, bestRound, rounds>>
regionVars == <<regions, regionStatus, regionTasks, stranded>>
simulatorVars == <<
    nodes, known, simulatorTasks, policy, isSimulating, starting, taskTimeouts>>
authVars == <<now, sinceCleanup, nonceCache, accepted, replayed, revokedTokens, everRevoked>>
workerVars == <<
    workerStatus, taskQueue, runningTasks, timers, workerRetryCount, settled, dispatched,
    dropped, stops>>
sandboxVars == <<sandboxStatus, stored, sandboxStarting, age, removals>>
webhookVars == <<
    status, attemptCount, waiting, loops, sending, webhookTimers, enabled, retried>>
requestVars == <<
    requestRequests, inFlight, completed, requestSinceCleanup, displaced, served>>

Regions == INSTANCE Regions
    WITH Node <- {"n1", "n2"},
         Initial <- {"n1"},
         SimulatorTask <- {"t1", "t2"},
         maxRetries <- 1,
         maxTasks <- 1
AgentWork == INSTANCE AgentWork
    WITH retryCount <- workerRetryCount,
         starting <- sandboxStarting
Requests == INSTANCE Requests
    WITH timers <- webhookTimers,
         requests <- requestRequests,
         sinceCleanup <- requestSinceCleanup

LibrariesInit ==
    /\ active \in
         {"raft", "learning", "auth", "worker", "sandbox", "region", "webhook", "simulator",
          "request"}
    /\ Init
    /\ Regions!LearningInit
    /\ AgentWork!AuthInit
    /\ AgentWork!WorkerInit
    /\ AgentWork!SandboxInit
    /\ Regions!RegionInit
    /\ Requests!WebhookInit
    /\ Regions!SimulatorInit
    /\ Requests!RequestInit

LibrariesNext ==
    /\ UNCHANGED active
    /\ IF active = "raft" THEN Next ELSE UNCHANGED vars
    /\ IF active = "learning" THEN Regions!LearningNext ELSE UNCHANGED learningVars
    /\ IF active = "auth" THEN AgentWork!AuthNext ELSE UNCHANGED authVars
    /\ IF active = "worker" THEN AgentWork!WorkerNext ELSE UNCHANGED workerVars
    /\ IF active = "sandbox" THEN AgentWork!SandboxNext ELSE UNCHANGED sandboxVars
    /\ IF active = "region" THEN Regions!RegionNext ELSE UNCHANGED regionVars
    /\ IF active = "webhook" THEN Requests!WebhookNext ELSE UNCHANGED webhookVars
    /\ IF active = "simulator" THEN Regions!SimulatorNext ELSE UNCHANGED simulatorVars
    /\ IF active = "request" THEN Requests!RequestNext ELSE UNCHANGED requestVars

LibrariesSpec ==
    /\ LibrariesInit /\ [][LibrariesNext]_<<active,
          vars, learningVars, regionVars, simulatorVars, authVars, workerVars, sandboxVars,
          webhookVars, requestVars>>

-----------------------------------------------------------------------------

\* Every component keeps its types.
TypesOK ==
    /\ Regions!LearningTypeOK
    /\ AgentWork!AuthTypeOK
    /\ AgentWork!WorkerTypeOK
    /\ AgentWork!SandboxTypeOK
    /\ Regions!RegionTypeOK
    /\ Requests!WebhookTypeOK
    /\ Regions!SimulatorTypeOK
    /\ Requests!RequestTypeOK

\* The best model is the best of its rounds; a signed request counts once, and the latest
\* revoked tokens are refused; a task of a worker is in one place, and its retries are
\* bounded; a sandbox that runs is younger than its limit; a region that is offline keeps
\* no task; attempts of a delivery are bounded; the load of a simulated node is what runs
\* on it; one request per key is under way, and what is served from the cache is fresh. And
\* by steps: a completed training stays so, one loop delivers, and a node that goes is
\* idle.
LibrariesSafe ==
    /\ [](/\ TypesOK
          /\ Regions!BestIsBest
          /\ AgentWork!RequestCountsOnce
          /\ AgentWork!LatestRevokedAreRefused
          /\ AgentWork!TaskIsInOnePlace
          /\ AgentWork!RetriesAreBounded
          /\ AgentWork!RunningIsYoung
          /\ Regions!OfflineKeepsNothing
          /\ Requests!AttemptsAreBounded
          /\ Regions!LoadIsRunning
          /\ Requests!OneRequestPerKey
          /\ Requests!ServedIsFresh)
    /\ Regions!CompletedIsOver
    /\ Requests!DeliveredByOneLoop
    /\ Regions!RemovedIsIdle
=============================================================================
