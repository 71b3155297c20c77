------------------------------ MODULE Regions -------------------------------
(***************************************************************************)
(* Work over many nodes: federated learning, regions, and the simulated    *)
(* orchestrator of the dashboard. They share nothing; each has its own     *)
(* initial states, next-state relation and properties.                     *)
(***************************************************************************)
EXTENDS Integers, SequencesExt

(***************************************************************************)
(* src/lib/federated/FederatedLearningCoordinator.ts: a training session   *)
(* of several rounds that is paused and resumed.                           *)
(*                                                                         *)
(* A round awaits its clients and is not interrupted.  A resumption begins *)
(* with round 1 again, beside the training that the pause did not reach.   *)
(* Accuracies are numbers of a small set; weights are left out.            *)
(***************************************************************************)

CONSTANTS
    Training,                \* calls of runTraining()
    totalRounds, roundsPerEvaluation,
    Accuracy

VARIABLES
    learningStatus,
    round,                   \* round[t]: the round a training executes, 0 before the first
    at,                      \* at[t]: "none", "next", "inRound", "over"
    history,                 \* convergenceHistory
    bestAccuracy, bestRound,
    rounds                   \* numbers of the rounds that were pushed, beside their accuracies

learningVars == <<learningStatus, round, at, history, bestAccuracy, bestRound, rounds>>

LearningInit ==
    /\ learningStatus = "none"
    /\ round = [t \in Training |-> 0]
    /\ at = [t \in Training |-> "none"]
    /\ history = <<>>
    /\ bestAccuracy = 0
    /\ bestRound = 0
    /\ rounds = <<>>

startTrainingSession(t) ==
    /\ learningStatus = "none"
    /\ learningStatus' = "running"
    /\ at' = [at EXCEPT ![t] = "next"]
    /\ UNCHANGED <<round, history, bestAccuracy, bestRound, rounds>>

pauseSession ==
    /\ learningStatus = "running"
    /\ learningStatus' = "paused"
    /\ UNCHANGED <<round, at, history, bestAccuracy, bestRound, rounds>>

resumeSession(t) ==
    /\ learningStatus = "paused"
    /\ at[t] = "none"
    /\ learningStatus' = "running"
    /\ at' = [at EXCEPT ![t] = "next"]
    /\ UNCHANGED <<round, history, bestAccuracy, bestRound, rounds>>

GoesOn(t) == round[t] < totalRounds /\ learningStatus = "running"

\* The next round begins, or the loop is left, which completes the session, also
\* one that was paused.
runTraining(t) ==
    /\ at[t] = "next"
    /\ IF GoesOn(t)
       THEN /\ round' = [round EXCEPT ![t] = @ + 1]
            /\ at' = [at EXCEPT ![t] = "inRound"]
            /\ UNCHANGED learningStatus
       ELSE /\ learningStatus' = "completed"
            /\ at' = [at EXCEPT ![t] = "over"]
            /\ UNCHANGED round
    /\ UNCHANGED <<history, bestAccuracy, bestRound, rounds>>

Better(a) == a > bestAccuracy

\* Whether the last rounds improved so little that the training has converged;
\* the span of the accuracies stands for max - min, and 0 for the threshold.
Converged(t, h) ==
    /\ round[t] > roundsPerEvaluation
    /\ LET recent == SubSeq(h, Len(h) - roundsPerEvaluation + 1, Len(h)) IN Cardinality(ToSet(recent)) = 1

\* The clients have answered: metrics follow.
executeRound(t) ==
    /\ at[t] = "inRound"
    /\ \E a \in Accuracy :
          /\ history' = Append(history, a)
          /\ rounds' = Append(rounds, round[t])
          /\ IF Better(a) THEN bestAccuracy' = a /\ bestRound' = round[t]
             ELSE UNCHANGED <<bestAccuracy, bestRound>>
    /\ IF Converged(t, history')
       THEN learningStatus' = "completed" /\ at' = [at EXCEPT ![t] = "over"]
       ELSE at' = [at EXCEPT ![t] = "next"] /\ UNCHANGED learningStatus
    /\ UNCHANGED round

LearningNext ==
    \/ pauseSession
    \/ \E t \in Training :
          startTrainingSession(t) \/ resumeSession(t) \/ runTraining(t) \/ executeRound(t)

LearningSpec == LearningInit /\ [][LearningNext]_learningVars

LearningTypeOK ==
    /\ learningStatus \in {"none", "running", "paused", "completed"}
    /\ \A t \in Training : round[t] \in 0..totalRounds /\ at[t] \in {"none", "next", "inRound", "over"}
    /\ Len(rounds) = Len(history)

\* The best accuracy is the best of all rounds, of every training that a resumption began, and the
\* best round is the number of one that had it.
BestIsBest ==
    history # <<>> =>
        /\ \A i \in DOMAIN history : history[i] <= bestAccuracy
        /\ \E i \in DOMAIN history : history[i] = bestAccuracy /\ rounds[i] = bestRound

\* A completed session stays so and begins no round, though another training of it may still be
\* in one when it completes.
CompletedIsOver ==
    [][(learningStatus = "completed") => learningStatus' = "completed" /\ round' = round]_learningVars

-----------------------------------------------------------------------------
(***************************************************************************)
(* src/lib/multi-region/MultiRegionCoordinator.ts: tasks that are sent to  *)
(* other regions, regions that fail, and the failover of their tasks.      *)
(*                                                                         *)
(* Distances, capacities and scores only choose among regions.             *)
(***************************************************************************)

CONSTANTS Region, localRegion, RegionTask

VARIABLES
    regions,      \* in the order of their first registration
    regionStatus, \* status[r]: "active" or "offline"
    regionTasks,  \* crossRegionTasks: target and status
    stranded      \* history: tasks of a region that failed when none could take them over

regionVars == <<regions, regionStatus, regionTasks, stranded>>

NoTask == [target |-> "none", status |-> "none"]

RegionInit ==
    /\ regions = <<>>
    /\ regionStatus = [r \in Region |-> "offline"]
    /\ regionTasks = [t \in RegionTask |-> NoTask]
    /\ stranded = {}

\* A region that comes back registers again and keeps its place.
registerRegion(r) ==
    /\ regions' = IF Contains(regions, r) THEN regions ELSE Append(regions, r)
    /\ regionStatus' = [regionStatus EXCEPT ![r] = "active"]
    /\ UNCHANGED <<regionTasks, stranded>>

dispatchToRegion(t, r) ==
    /\ regionTasks[t] = NoTask
    /\ Contains(regions, r) /\ regionStatus[r] = "active"
    /\ regionTasks' = [regionTasks EXCEPT ![t] = [target |-> r, status |-> "dispatched"]]
    /\ UNCHANGED <<regions, regionStatus, stranded>>

\* 100 ms after the dispatch, whoever has the task by then.
acknowledged(t) ==
    /\ regionTasks[t].status = "dispatched"
    /\ regionTasks' = [regionTasks EXCEPT ![t].status = "acknowledged"]
    /\ UNCHANGED <<regions, regionStatus, stranded>>

\* No task is ever "completed".
Affected(m, r) == {t \in RegionTask : m.tasks[t].target = r}

\* The regions that may take over, but for the local one, in the order of the map.
failoverTargets(m) == SelectSeq(regions, LAMBDA r : r # localRegion /\ m.status[r] = "active")

handleRegionFailure(m, r) ==
    LET down == [m EXCEPT !.status[r] = "offline"]
        targets == failoverTargets(down)
        moved == Affected(down, r)
    IN  IF targets = <<>> THEN [down EXCEPT !.stranded = @ \cup moved]
        ELSE [down EXCEPT !.tasks = [t \in RegionTask |-> IF t \in moved
                                        THEN [target |-> targets[1], status |-> "dispatched"] ELSE m.tasks[t]]]

\* One round over the regions, which finds any of the active ones unhealthy: what
\* is moved to a region may be moved on when that one fails in the same round.
checkRegionHealth ==
    \E unhealthy \in SUBSET {r \in ToSet(regions) : r # localRegion /\ regionStatus[r] = "active"} :
        /\ unhealthy # {}
        /\ LET failed == SelectSeq(regions, LAMBDA r : r \in unhealthy)
               after == FoldLeft(handleRegionFailure, [status |-> regionStatus, tasks |-> regionTasks, stranded |-> stranded], failed)
           IN  regionStatus' = after.status /\ regionTasks' = after.tasks /\ stranded' = after.stranded
        /\ UNCHANGED regions

RegionNext ==
    \/ \E r \in Region : registerRegion(r)
    \/ \E t \in RegionTask, r \in Region : dispatchToRegion(t, r)
    \/ \E t \in RegionTask : acknowledged(t)
    \/ checkRegionHealth

RegionSpec == RegionInit /\ [][RegionNext]_regionVars

RegionTypeOK ==
    /\ ToSet(regions) \subseteq Region
    /\ regionStatus \in [Region -> {"active", "offline"}]
    /\ \A t \in RegionTask : regionTasks[t].status \in {"none", "dispatched", "acknowledged"}

\* A task is with a region that is offline only if no other region was left when one failed under
\* it, however many fail in one round and in whatever order.
OfflineKeepsNothing ==
    \A t \in RegionTask : (regionTasks[t] # NoTask /\ regionStatus[regionTasks[t].target] = "offline") => t \in stranded

-----------------------------------------------------------------------------
(***************************************************************************)
(* src/hooks/useOrchestrator.ts and src/lib/simulation.ts: the orchestra-  *)
(* tor that runs in a page when there is no backend.                       *)
(*                                                                         *)
(* Tasks are run by timers, which hold the task as it was placed, while    *)
(* nodes come, go and change.  The predictive scheduler is never given a   *)
(* history, so that its guess is never trusted, and the policy decides.    *)
(* Logs, costs and the load of a node in numbers are left out.             *)
(***************************************************************************)

CONSTANTS
    Node, Initial,       \* the nodes there may be, and those of createInitialNodes()
    SimulatorTask,       \* bounds the tasks that are submitted or retried
    maxRetries, maxTasks,
    Cloud, Nothing

VARIABLES
    nodes,               \* nodes[n]: Nothing, or its status and what runs on it
    known,               \* the nodes there have been: ids are not used again
    simulatorTasks,
    policy, isSimulating,
    starting,            \* tasks whose timer before the start runs
    taskTimeouts         \* tasks whose timer of the execution runs

simulatorVars == <<nodes, known, simulatorTasks, policy, isSimulating, starting, taskTimeouts>>

Fresh == [status |-> "online", isMaintenanceMode |-> FALSE, tasksRunning |-> 0]

SimulatorInit ==
    /\ nodes = [n \in Node |-> IF n \in Initial THEN Fresh ELSE Nothing]
    /\ known = Initial
    /\ simulatorTasks = [t \in SimulatorTask |-> Nothing]
    /\ policy = "latency-aware" /\ isSimulating = TRUE
    /\ starting = {} /\ taskTimeouts = {}

Present == {n \in Node : nodes[n] # Nothing}
Online  == {n \in Present : nodes[n].status # "offline" /\ ~nodes[n].isMaintenanceMode}

LeastLoaded == {n \in Online : \A m \in Online : nodes[n].tasksRunning <= nodes[m].tasksRunning}

\* Where a task may be placed; all policies but "round-robin" go by numbers that are left out.
Targets ==
    IF policy # "round-robin" THEN Online \cup {Cloud}
    ELSE {n \in LeastLoaded : nodes[n].tasksRunning < maxTasks}
         \cup {Cloud : n \in {m \in LeastLoaded : nodes[m].tasksRunning >= maxTasks}}

\* The task is started even if it has failed because no node is online.
scheduleTask(t) ==
    /\ simulatorTasks[t] = Nothing
    /\ IF Online = {}
       THEN simulatorTasks' = [simulatorTasks EXCEPT ![t] = [status |-> "failed", node |-> Cloud, retryCount |-> 0]]
       ELSE \E n \in Targets : simulatorTasks' = [simulatorTasks EXCEPT ![t] = [status |-> "scheduled", node |-> n, retryCount |-> 0]]
    /\ starting' = starting \cup {t}

submitTask(t) == scheduleTask(t) /\ UNCHANGED <<nodes, known, policy, isSimulating, taskTimeouts>>

Count(n, change) ==
    nodes' = IF n \in Present THEN [nodes EXCEPT ![n].tasksRunning = Max({0, @ + change})] ELSE nodes

executeTask(t) ==
    /\ t \in starting /\ starting' = starting \ {t}
    /\ taskTimeouts' = taskTimeouts \cup {t}
    /\ simulatorTasks' = [simulatorTasks EXCEPT ![t].status = "running"]
    /\ Count(simulatorTasks[t].node, 1)
    /\ UNCHANGED <<known, policy, isSimulating>>

Freed(outcome) == -1

executed(t) ==
    /\ t \in taskTimeouts /\ taskTimeouts' = taskTimeouts \ {t}
    /\ \E outcome \in {"failed", "completed"} :
          /\ simulatorTasks' = [simulatorTasks EXCEPT ![t].status = outcome]
          /\ Count(simulatorTasks[t].node, Freed(outcome))
    /\ UNCHANGED <<known, policy, isSimulating, starting>>

\* A new task with the place of the old one, which is retried as often as it is asked for.
retryTask(t, again) ==
    /\ simulatorTasks[t] # Nothing /\ simulatorTasks[again] = Nothing
    /\ simulatorTasks[t].status = "failed" /\ simulatorTasks[t].retryCount < maxRetries
    /\ simulatorTasks' = [simulatorTasks EXCEPT ![again] = [simulatorTasks[t] EXCEPT !.status = "scheduled", !.retryCount = @ + 1]]
    /\ starting' = starting \cup {again}
    /\ UNCHANGED <<nodes, known, policy, isSimulating, taskTimeouts>>

addNode(n) ==
    /\ n \notin known /\ known' = known \cup {n}
    /\ nodes' = [nodes EXCEPT ![n] = Fresh]
    /\ UNCHANGED <<simulatorTasks, policy, isSimulating, starting, taskTimeouts>>

Removable(n) == nodes[n].tasksRunning = 0

removeNode(n) ==
    /\ n \in Present /\ Removable(n)
    /\ nodes' = [nodes EXCEPT ![n] = Nothing]
    /\ UNCHANGED <<known, simulatorTasks, policy, isSimulating, starting, taskTimeouts>>

updateNode(n) ==
    /\ n \in Present
    /\ nodes' = [nodes EXCEPT ![n].isMaintenanceMode = ~@]
    /\ UNCHANGED <<known, simulatorTasks, policy, isSimulating, starting, taskTimeouts>>

Later(status) == IF status = "offline" THEN {"offline", "online"} ELSE {status, "degraded", "offline", "online"}

simulateNodeFluctuation ==
    \E status \in [Present -> {"online", "degraded", "offline"}] :
        /\ \A n \in Present : status[n] \in Later(nodes[n].status)
        /\ nodes' = [n \in Node |-> IF n \in Present THEN [nodes[n] EXCEPT !.status = status[n]] ELSE Nothing]

\* What the nodes were when the timer was set decides where a task is placed.
runSimulation ==
    /\ isSimulating
    /\ simulateNodeFluctuation
    /\ \/ UNCHANGED <<simulatorTasks, starting>>
       \/ \E t \in SimulatorTask : scheduleTask(t)
    /\ UNCHANGED <<known, policy, isSimulating, taskTimeouts>>

setPolicy ==
    /\ policy' = IF policy = "round-robin" THEN "latency-aware" ELSE "round-robin"
    /\ UNCHANGED <<nodes, known, simulatorTasks, isSimulating, starting, taskTimeouts>>

setIsSimulating ==
    /\ isSimulating' = ~isSimulating
    /\ UNCHANGED <<nodes, known, simulatorTasks, policy, starting, taskTimeouts>>

SimulatorNext ==
    \/ runSimulation \/ setPolicy \/ setIsSimulating
    \/ \E t \in SimulatorTask : submitTask(t) \/ executeTask(t) \/ executed(t) \/ (\E again \in SimulatorTask : retryTask(t, again))
    \/ \E n \in Node : addNode(n) \/ removeNode(n) \/ updateNode(n)

SimulatorSpec == SimulatorInit /\ [][SimulatorNext]_simulatorVars

SimulatorTypeOK ==
    /\ \A n \in Present : nodes[n].status \in {"online", "degraded", "offline"} /\ nodes[n].tasksRunning \in 0..Cardinality(SimulatorTask)
    /\ Present \subseteq known
    /\ \A t \in SimulatorTask : simulatorTasks[t] # Nothing =>
          simulatorTasks[t].status \in {"scheduled", "running", "completed", "failed"} /\ simulatorTasks[t].retryCount \in 0..maxRetries
    /\ starting \cup taskTimeouts \subseteq {t \in SimulatorTask : simulatorTasks[t] # Nothing}

\* What a node is said to run is what runs on it: the timers of starts and ends, which know a task as
\* it was placed, find the node or find that it is gone, whatever happened to it between.
LoadIsRunning ==
    \A n \in Present :
        nodes[n].tasksRunning = Cardinality({t \in SimulatorTask : simulatorTasks[t] # Nothing /\ simulatorTasks[t].node = n /\ simulatorTasks[t].status = "running"})

\* No node is taken from under a task that runs on it.
RemovedIsIdle ==
    [][\A n \in Present \ Present' : \A t \in taskTimeouts : simulatorTasks[t].node # n]_simulatorVars

=============================================================================
