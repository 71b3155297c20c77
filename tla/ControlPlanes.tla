--------------------------- MODULE ControlPlanes ----------------------------
(***************************************************************************)
(* Who is where and does what: the control plane, the shards of the        *)
(* scheduler and the registry of nodes. They share nothing; each has its   *)
(* own initial states, next-state relation and properties.                 *)
(***************************************************************************)
EXTENDS Integers, SequencesExt

(***************************************************************************)
(* src/lib/control-plane/ControlPlaneManager.ts: scheduling decisions that *)
(* are dispatched, acknowledged, cancelled, and expire.                    *)
(*                                                                         *)
(* The execution layer answers late: while a command is out, others        *)
(* dispatch, cancel or expire the same decision.                           *)
(***************************************************************************)

CONSTANTS
    Decision, Dispatch,            \* decisions, and calls of dispatchDecision()
    decisionTimeout, expiryInterval,
    maxPendingDecisions

VARIABLES
    controlStatus,  \* of the decisions, whether the map still has them or not
    pending,        \* pendingDecisions
    controlAge,     \* since creation
    controlSinceCleanup,
    dispatches,     \* dispatches[c]: the decision whose execution was asked for, 0 before
    cancelling,     \* decisions whose cancellation awaits the execution layer
    told,           \* history: decisions the execution layer was told to cancel
    sentAt,         \* history: age at which a decision was last dispatched
    cancelled       \* history: decisions whose cancellation was answered with true

controlVars == <<controlStatus, pending, controlAge, controlSinceCleanup, dispatches, cancelling, told, sentAt, cancelled>>

ControlHorizon == decisionTimeout + expiryInterval + 2

ControlInit ==
    /\ controlStatus = [d \in Decision |-> "none"]
    /\ pending = {}
    /\ controlAge = [d \in Decision |-> 0]
    /\ controlSinceCleanup = 0
    /\ dispatches = [c \in Dispatch |-> 0]
    /\ cancelling = {}
    /\ told = {}
    /\ sentAt = [d \in Decision |-> 0]
    /\ cancelled = {}

\* Constraints and the scheduler choose the node.
createDecision(d) ==
    /\ controlStatus[d] = "none"
    /\ Cardinality(pending) < maxPendingDecisions
    /\ controlStatus' = [controlStatus EXCEPT ![d] = "pending"]
    /\ pending' = pending \cup {d}
    /\ UNCHANGED <<controlAge, controlSinceCleanup, dispatches, cancelling, told, sentAt, cancelled>>

\* Neither the status nor expiresAt is asked.
dispatchDecision(c, d) ==
    /\ dispatches[c] = 0
    /\ d \in pending
    /\ controlStatus' = [controlStatus EXCEPT ![d] = "dispatched"]
    /\ dispatches' = [dispatches EXCEPT ![c] = d]
    /\ sentAt' = [sentAt EXCEPT ![d] = controlAge[d]]
    /\ UNCHANGED <<pending, controlAge, controlSinceCleanup, cancelling, told, cancelled>>

\* Rejections and errors leave the decision as it is.
accepted(c) ==
    /\ dispatches[c] # 0
    /\ controlStatus' = [controlStatus EXCEPT ![dispatches[c]] = "acknowledged"]
    /\ pending' = pending \ {dispatches[c]}
    /\ UNCHANGED <<controlAge, controlSinceCleanup, dispatches, cancelling, told, sentAt, cancelled>>

HasCommand(d) == controlStatus[d] = "dispatched"

cancelDecision(d) ==
    /\ d \in pending \ cancelling
    /\ IF HasCommand(d)
       THEN /\ cancelling' = cancelling \cup {d}
            /\ told' = told \cup {d}
            /\ UNCHANGED <<pending, cancelled>>
       ELSE /\ pending' = pending \ {d}
            /\ cancelled' = cancelled \cup {d}
            /\ UNCHANGED <<cancelling, told>>
    /\ UNCHANGED <<controlStatus, controlAge, controlSinceCleanup, dispatches, sentAt>>

\* The execution layer answers, or throws, which leaves the decision.
cancelAnswered(d) ==
    /\ d \in cancelling
    /\ cancelling' = cancelling \ {d}
    /\ \/ pending' = pending \ {d} /\ cancelled' = cancelled \cup {d}
       \/ UNCHANGED <<pending, cancelled>>
    /\ UNCHANGED <<controlStatus, controlAge, controlSinceCleanup, dispatches, told, sentAt>>

Expired == {d \in pending : controlAge[d] > decisionTimeout}

startCleanupTimer ==
    /\ controlSinceCleanup = expiryInterval
    /\ controlStatus' = [d \in Decision |-> IF d \in Expired THEN "expired" ELSE controlStatus[d]]
    /\ pending' = pending \ Expired
    /\ controlSinceCleanup' = 0
    /\ UNCHANGED <<controlAge, dispatches, cancelling, told, sentAt, cancelled>>

\* The timer is not late.
controlTick ==
    /\ controlSinceCleanup < expiryInterval
    /\ controlSinceCleanup' = controlSinceCleanup + 1
    /\ controlAge' = [d \in Decision |-> IF d \in pending /\ controlAge[d] < ControlHorizon THEN controlAge[d] + 1 ELSE controlAge[d]]
    /\ UNCHANGED <<controlStatus, pending, dispatches, cancelling, told, sentAt, cancelled>>

ControlNext ==
    \/ \E d \in Decision : createDecision(d) \/ cancelDecision(d) \/ cancelAnswered(d)
    \/ \E c \in Dispatch : accepted(c) \/ \E d \in Decision : dispatchDecision(c, d)
    \/ startCleanupTimer \/ controlTick

ControlSpec == ControlInit /\ [][ControlNext]_controlVars

ControlTypeOK ==
    /\ controlStatus \in [Decision -> {"none", "pending", "dispatched", "acknowledged", "expired"}]
    /\ Cardinality(pending) <= maxPendingDecisions
    /\ cancelling \subseteq Decision

\* A cancellation that answered true for a decision whose execution was asked for has told the
\* execution layer, whatever the order of the dispatches, their answers and the clean-up.
CancelledIsTold == \A c \in Dispatch : dispatches[c] \in cancelled => dispatches[c] \in told

\* No decision is dispatched, for the first time or after a rejection, later than its timeout and
\* one round of the clean-up after it was made.
DispatchIsTimely == \A d \in Decision : sentAt[d] <= decisionTimeout + expiryInterval

-----------------------------------------------------------------------------
(***************************************************************************)
(* src/lib/control-plane/DistributedScheduler.ts: nodes and tasks that are *)
(* spread over shards, and the rebalancing of the nodes.                   *)
(*                                                                         *)
(* A hash is any shard.  Loads are kept as multiples of 1 / Scale, which   *)
(* every number of nodes in the model divides.                             *)
(***************************************************************************)

CONSTANTS Placed, Load, totalShards

VARIABLES
    nodes,         \* nodes[s]: in the order in which they were added
    tasks,         \* tasks[s]
    load,          \* as of the last task that came or went
    nodeToShard,   \* -1 where there is no entry
    queued         \* tasks that wait for nodes of a shard; nobody takes them out

shardVars == <<nodes, tasks, load, nodeToShard, queued>>

Shard == 0..totalShards - 1
Scale == 6

ShardInit ==
    /\ nodes = [s \in Shard |-> <<>>]
    /\ tasks = [s \in Shard |-> {}]
    /\ load = [s \in Shard |-> 0]
    /\ nodeToShard = [n \in Placed |-> -1]
    /\ queued = {}

Added(q, n) == IF Contains(q, n) THEN q ELSE Append(q, n)
Without(q, n) == SelectSeq(q, LAMBDA m : m # n)
Members(s) == ToSet(nodes[s])

\* The shard follows from the region and the id: a node that was moved, or whose
\* region changed, is added to another shard and stays in the first.
registerNode(n) ==
    /\ \E s \in Shard : /\ nodes' = [nodes EXCEPT ![s] = Added(@, n)]
                        /\ nodeToShard' = [nodeToShard EXCEPT ![n] = s]
    /\ UNCHANGED <<tasks, load, queued>>

unregisterNode(n) ==
    /\ nodeToShard[n] # -1
    /\ nodes' = [nodes EXCEPT ![nodeToShard[n]] = Without(@, n)]
    /\ nodeToShard' = [nodeToShard EXCEPT ![n] = -1]
    /\ UNCHANGED <<tasks, load, queued>>

LoadOf(ts, ns) == (Scale * Cardinality(ts)) \div (IF ns = <<>> THEN 1 ELSE Len(ns))

findAvailableShard == {s \in Shard : nodes[s] # <<>> /\ \A r \in 0..s - 1 : nodes[r] = <<>>}

\* The provider may know none of the nodes of the shard.
scheduleOnShard(t, s) ==
    \/ /\ queued' = queued \cup {t}
       /\ UNCHANGED <<tasks, load>>
    \/ /\ tasks' = [tasks EXCEPT ![s] = @ \cup {t}]
       /\ load' = [load EXCEPT ![s] = LoadOf(tasks'[s], nodes[s])]
       /\ UNCHANGED queued

scheduleTask(t) ==
    /\ t \notin queued \cup UNION {tasks[s] : s \in Shard}
    /\ \E hash \in Shard :
          LET among == IF nodes[hash] = <<>> THEN findAvailableShard ELSE {hash}
          IN  \E s \in among : scheduleOnShard(t, s)
    /\ UNCHANGED <<nodes, nodeToShard>>

completeTask(t, s) ==
    /\ t \in tasks[s]
    /\ tasks' = [tasks EXCEPT ![s] = @ \ {t}]
    /\ load' = [load EXCEPT ![s] = LoadOf(tasks'[s], nodes[s])]
    /\ UNCHANGED <<nodes, nodeToShard, queued>>

\* Whether a load differs from the average by more than a fifth of it; without
\* any load the quotient is NaN, and nothing does.
Deviates(s) ==
    LET sum == FoldFunction(+, 0, load)
        gap == totalShards * load[s] - sum
    IN  sum > 0 /\ 5 * (IF gap < 0 THEN -gap ELSE gap) > sum

\* Shards in the order of their ids.
Deviating(above) ==
    SetToSortSeq({s \in Shard : Deviates(s) /\ (totalShards * load[s] > FoldFunction(+, 0, load)) = above}, <)

Movable(q) == Len(q) > 1

Moved(m, from, to) ==
    LET n == Head(m.nodes[from])
    IN  [nodes |-> [m.nodes EXCEPT ![from] = Tail(@), ![to] = Added(@, n)],
         map |-> [m.map EXCEPT ![n] = to]]

\* From every overloaded shard one node to each underloaded one, which makes the
\* load per node of the former no smaller.
rebalance ==
    LET step(m, p) == IF Movable(m.nodes[p[1]]) THEN Moved(m, p[1], p[2]) ELSE m
        pairs == FlattenSeq([i \in DOMAIN Deviating(TRUE) |->
                     [j \in DOMAIN Deviating(FALSE) |-> <<Deviating(TRUE)[i], Deviating(FALSE)[j]>>]])
        after == FoldLeft(step, [nodes |-> nodes, map |-> nodeToShard], pairs)
    IN  /\ pairs # <<>>
        /\ nodes' = after.nodes
        /\ nodeToShard' = after.map
        /\ UNCHANGED <<tasks, load, queued>>

ShardNext ==
    \/ \E n \in Placed : registerNode(n) \/ unregisterNode(n)
    \/ \E t \in Load : scheduleTask(t) \/ \E s \in Shard : completeTask(t, s)
    \/ rebalance

ShardSpec == ShardInit /\ [][ShardNext]_shardVars

ShardTypeOK ==
    /\ \A s \in Shard : Members(s) \subseteq Placed /\ tasks[s] \subseteq Load /\ load[s] \in Nat
    /\ nodeToShard \in [Placed -> Shard \cup {-1}]

\* The shard that the map names for a node has that node, also after the node was moved and
\* registered again: to unregister it takes it from there.
MapIsRight == \A n \in Placed : nodeToShard[n] # -1 => n \in Members(nodeToShard[n])

\* Rebalancing loses no node and takes no shard's last one, however many shards are short of load
\* and though the loads it goes by are older than the nodes.
RebalanceKeepsNodes ==
    [][(nodes # nodes' /\ rebalance) =>
                    /\ UNION {ToSet(nodes'[s]) : s \in Shard} = UNION {Members(s) : s \in Shard}
                    /\ \A s \in Shard : nodes[s] # <<>> => nodes'[s] # <<>>]_shardVars

-----------------------------------------------------------------------------
(***************************************************************************)
(* src/lib/discovery/nodeRegistry.ts: nodes that register, send heartbeats *)
(* and leave, and the clean-up of those that fell silent.                  *)
(*                                                                         *)
(* Time is counted in ticks.  A heartbeat carries the time at which it was *)
(* sent, so one that was overtaken makes lastHeartbeat older.              *)
(***************************************************************************)

CONSTANTS
    Member,
    heartbeatTimeout, cleanupInterval, maxNodes,
    MaxDelay        \* a heartbeat is so old at most when it arrives

VARIABLES
    registryStatus, \* status[n]: "none" where the map has no entry
    registryAge,    \* since lastHeartbeat
    silent,         \* since a registration or a heartbeat of the node arrived
    registrySinceCleanup

registryVars == <<registryStatus, registryAge, silent, registrySinceCleanup>>

RegistryHorizon == 2 * heartbeatTimeout + cleanupInterval + MaxDelay + 1

RegistryInit ==
    /\ registryStatus = [n \in Member |-> "none"]
    /\ registryAge = [n \in Member |-> 0]
    /\ silent = [n \in Member |-> 0]
    /\ registrySinceCleanup = 0

Registered == {n \in Member : registryStatus[n] # "none"}

Room == Cardinality(Registered) < maxNodes

\* A node that is known is updated, however full the registry is.
register(n) ==
    /\ n \notin Registered => Room
    /\ registryStatus' = [registryStatus EXCEPT ![n] = "online"]
    /\ registryAge' = [registryAge EXCEPT ![n] = 0]
    /\ silent' = [silent EXCEPT ![n] = 0]
    /\ UNCHANGED registrySinceCleanup

heartbeat(n) ==
    /\ n \in Registered
    /\ \E delay \in 0..MaxDelay : registryAge' = [registryAge EXCEPT ![n] = delay]
    /\ registryStatus' = [registryStatus EXCEPT ![n] = "online"]
    /\ silent' = [silent EXCEPT ![n] = 0]
    /\ UNCHANGED registrySinceCleanup

deregister(n) ==
    /\ n \in Registered
    /\ registryStatus' = [registryStatus EXCEPT ![n] = "none"]
    /\ registryAge' = [registryAge EXCEPT ![n] = 0]
    /\ silent' = [silent EXCEPT ![n] = 0]
    /\ UNCHANGED registrySinceCleanup

Removed == {n \in Registered : registryAge[n] > 2 * heartbeatTimeout}

Late == {n \in Registered : registryAge[n] > heartbeatTimeout}

cleanupOfflineNodes ==
    /\ registrySinceCleanup = cleanupInterval
    /\ registryStatus' = [n \in Member |-> CASE n \in Removed -> "none" [] n \in Late -> "offline" [] OTHER -> registryStatus[n]]
    /\ registryAge' = [n \in Member |-> IF n \in Removed THEN 0 ELSE registryAge[n]]
    /\ silent' = [n \in Member |-> IF n \in Removed THEN 0 ELSE silent[n]]
    /\ registrySinceCleanup' = 0

\* The timer of the clean-up is not late.
registryTick ==
    /\ registrySinceCleanup < cleanupInterval
    /\ registrySinceCleanup' = registrySinceCleanup + 1
    /\ registryAge' = [n \in Member |-> IF n \in Registered /\ registryAge[n] < RegistryHorizon THEN registryAge[n] + 1 ELSE registryAge[n]]
    /\ silent' = [n \in Member |-> IF n \in Registered /\ silent[n] < RegistryHorizon THEN silent[n] + 1 ELSE silent[n]]
    /\ UNCHANGED registryStatus

RegistryNext ==
    \/ \E n \in Member : register(n) \/ heartbeat(n) \/ deregister(n)
    \/ cleanupOfflineNodes \/ registryTick

RegistrySpec == RegistryInit /\ [][RegistryNext]_registryVars

isNodeOnline(n) == registryStatus[n] = "online" /\ registryAge[n] < heartbeatTimeout

RegistryTypeOK ==
    /\ \A n \in Member : registryStatus[n] \in {"none", "online", "offline"} /\ registryAge[n] \in 0..RegistryHorizon
    /\ Cardinality(Registered) <= maxNodes
    /\ registrySinceCleanup \in 0..cleanupInterval

\* getOnlineNodes(), which reads the status alone, never names a node that has been silent for
\* longer than the timeout and a round of the clean-up; isNodeOnline() is as quick as the timeout.
OnlineIsRecent ==
    \A n \in Member : /\ registryStatus[n] = "online" => silent[n] <= heartbeatTimeout + cleanupInterval
                      /\ isNodeOnline(n) => silent[n] < heartbeatTimeout

\* The clean-up removes a node only after a silence of twice the timeout, less what its last
\* heartbeat was late by, whatever overtook what and however often it registered.
RemovedWereSilent ==
    [][\A n \in Member : (cleanupOfflineNodes /\ registryStatus[n] # "none" /\ registryStatus'[n] = "none")
                         => silent[n] + MaxDelay > 2 * heartbeatTimeout]_registryVars

=============================================================================
