---------------------------- MODULE MCDashboard -----------------------------
(***************************************************************************)
(* Diverged logs of Raft nodes, and the libraries of the dashboard. They   *)
(* share nothing, so one of them moves in each behaviour, the one that     *)
(* `active` names, and their state spaces add up.                          *)
(***************************************************************************)
EXTENDS MCRaftNode

CONSTANTS
    Item, Critical, Listener, Loop, MaxStarts, Event, Aggregate, Subscriber,
    maxEventsInMemory, Deployment, rolloutPercentage, Peer, TermLimit, MaxLog, Candidate,
    ttl, refreshInterval, MaxDelay, Slot, Cluster, Work, Share, EdgeNode,
    maxRecoveryAttempts, recoveryCooldown, stepTime, Horizon, Machine, totalCpuCores,
    Reservation, Task, cpuCores, duration, Now, Decision, Dispatch, decisionTimeout,
    expiryInterval, maxPendingDecisions, Placed, Load, totalShards, Member,
    heartbeatTimeout, cleanupInterval, maxNodes

VARIABLES
    active, queues, retryCount, processing, stats, handlers, isConsuming, loops, queueHeard,
    starts, produced, events, eventIndex, aggregateVersions, subscriptions, stage, of, due,
    eventHeard, deployments, at, activeDeployment, trafficSplit, disturbed, consensusState,
    consensusCurrentTerm, consensusVotedFor, votesReceived, consensusLog,
    consensusCommitIndex, lastApplied, consensusNextIndex, consensusMatchIndex,
    heartbeatTimer, replies, consensusApplied, owner, left, isLeader, refreshIn, isRunning,
    stopped, calls, capacityNow, reservations, taskReservations, reservedCpuCores, clusters,
    tasks, shares, failureNow, failure, plans, online, registryStatus, registryAge, silent,
    registrySinceCleanup, nodes, shardTasks, load, nodeToShard, queued, controlStatus,
    pending, controlAge, controlSinceCleanup, dispatches, cancelling, told, sentAt,
    cancelled

queueVars == <<
    queues, retryCount, processing, stats, handlers, isConsuming, loops, queueHeard, starts,
    produced>>
eventVars == <<
    events, eventIndex, aggregateVersions, subscriptions, stage, of, due, eventHeard>>
releaseVars == <<deployments, at, activeDeployment, trafficSplit, disturbed>>
consensusVars == <<
    consensusState, consensusCurrentTerm, consensusVotedFor, votesReceived, consensusLog,
    consensusCommitIndex, lastApplied, consensusNextIndex, consensusMatchIndex,
    heartbeatTimer, replies, consensusApplied>>
electionVars == <<owner, left, isLeader, refreshIn, isRunning, stopped, calls>>
capacityVars == <<capacityNow, reservations, taskReservations, reservedCpuCores>>
federationVars == <<clusters, tasks, shares>>
failureVars == <<failureNow, failure, plans, online>>
registryVars == <<registryStatus, registryAge, silent, registrySinceCleanup>>
shardVars == <<nodes, shardTasks, load, nodeToShard, queued>>
controlVars == <<
    controlStatus, pending, controlAge, controlSinceCleanup, dispatches, cancelling, told,
    sentAt, cancelled>>

Releases == INSTANCE Releases
Consensus == INSTANCE Consensus
    WITH state <- consensusState,
         currentTerm <- consensusCurrentTerm,
         votedFor <- consensusVotedFor,
         log <- consensusLog,
         commitIndex <- consensusCommitIndex,
         nextIndex <- consensusNextIndex,
         matchIndex <- consensusMatchIndex,
         applied <- consensusApplied
Federation == INSTANCE Federation
ControlPlanes == INSTANCE ControlPlanes
    WITH tasks <- shardTasks

DashboardInit ==
    /\ active \in
         {"raft", "queue", "consensus", "election", "capacity", "federation", "failure",
          "event", "release", "registry", "shard", "control"}
    /\ DivergedInit
    /\ Releases!QueueInit
    /\ Consensus!ConsensusInit
    /\ Consensus!ElectionInit
    /\ Federation!CapacityInit
    /\ Federation!FederationInit
    /\ Federation!FailureInit
    /\ Releases!EventInit
    /\ Releases!ReleaseInit
    /\ ControlPlanes!RegistryInit
    /\ ControlPlanes!ShardInit
    /\ ControlPlanes!ControlInit

DashboardNext ==
    /\ UNCHANGED active
    /\ IF active = "raft" THEN Next ELSE UNCHANGED vars
    /\ IF active = "queue" THEN Releases!QueueNext ELSE UNCHANGED queueVars
    /\ IF active = "consensus" THEN Consensus!ConsensusNext ELSE UNCHANGED consensusVars
    /\ IF active = "election" THEN Consensus!ElectionNext ELSE UNCHANGED electionVars
    /\ IF active = "capacity" THEN Federation!CapacityNext ELSE UNCHANGED capacityVars
    /\ IF active = "federation" THEN Federation!FederationNext ELSE UNCHANGED federationVars
    /\ IF active = "failure" THEN Federation!FailureNext ELSE UNCHANGED failureVars
    /\ IF active = "event" THEN Releases!EventNext ELSE UNCHANGED eventVars
    /\ IF active = "release" THEN Releases!ReleaseNext ELSE UNCHANGED releaseVars
    /\ IF active = "registry" THEN ControlPlanes!RegistryNext ELSE UNCHANGED registryVars
    /\ IF active = "shard" THEN ControlPlanes!ShardNext ELSE UNCHANGED shardVars
    /\ IF active = "control" THEN ControlPlanes!ControlNext ELSE UNCHANGED controlVars

DashboardSpec ==
    /\ DashboardInit /\ [][DashboardNext]_<<active,
          vars, queueVars, eventVars, releaseVars, consensusVars, electionVars,
          capacityVars, federationVars, failureVars, registryVars, shardVars, controlVars>>

-----------------------------------------------------------------------------

\* Every component keeps its types.
TypesOK ==
    /\ Releases!QueueTypeOK
    /\ Consensus!ConsensusTypeOK
    /\ Consensus!ElectionTypeOK
    /\ Federation!CapacityTypeOK
    /\ Federation!FederationTypeOK
    /\ Federation!FailureTypeOK
    /\ Releases!EventTypeOK
    /\ Releases!ReleaseTypeOK
    /\ ControlPlanes!RegistryTypeOK
    /\ ControlPlanes!ShardTypeOK
    /\ ControlPlanes!ControlTypeOK

\* Each message of the queue is in one place; a Raft leader asks for entries its log has,
\* and entries are applied once; one node holds the office that the lock stands for;
\* overcommitment is bounded and capacity comes back; shares are between members; a failure
\* is recovered by one plan, and by all its steps; what the event store kept is the latest,
\* and its subscribers heard it; traffic goes where the deployment says; a node that counts
\* as online was heard of lately; the map of the shards is right; a cancelled decision is
\* told to its nodes, and dispatched in time. And by steps: a failover leaves no task
\* behind, removed nodes were silent, and rebalancing loses none.
DashboardSafe ==
    /\ [](/\ TypesOK
          /\ StateMachineSafety
          /\ Releases!EveryMessageIsOnce
          /\ Consensus!NextIndexInLog
          /\ Consensus!AppliedOnce
          /\ Consensus!OneElected
          /\ Federation!OvercommitIsBounded
          /\ Federation!CapacityComesBack
          /\ Federation!SharesAreWithMembers
          /\ Federation!OnePlanExecutes
          /\ Federation!RecoveredByPlan
          /\ Releases!StoredIsLatest
          /\ Releases!SubscribersHear
          /\ Releases!TrafficIsAsReported
          /\ ControlPlanes!OnlineIsRecent
          /\ ControlPlanes!MapIsRight
          /\ ControlPlanes!CancelledIsTold
          /\ ControlPlanes!DispatchIsTimely)
    /\ Federation!FailoverLeavesNothing
    /\ ControlPlanes!RemovedWereSilent
    /\ ControlPlanes!RebalanceKeepsNodes
=============================================================================
