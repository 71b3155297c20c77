--------------------------- MODULE HeartbeatMonitor ---------------------------
(***************************************************************************)
(* services/heartbeat-monitor.ts beside the scheduler: every instance of   *)
(* the backend, leader or not, looks for nodes that went silent, fails     *)
(* what they were running and creates retries, and moves nodes between     *)
(* ONLINE and DEGRADED by their load.                                      *)
(*                                                                         *)
(* A round of checkNodes() works through lists it read at several points;  *)
(* between two awaits a node may come back, go silent or be taken into     *)
(* maintenance, and the scheduler and other instances go on.               *)
(***************************************************************************)
EXTENDS TaskScheduler

VARIABLES
    stale,    \* nodes whose lastHeartbeat is older than HEARTBEAT_TIMEOUT
    usage,     \* usage[n]: cpuUsage and memoryUsage, seen as the thresholds see them
    check     \* check[i]: the round of checkNodes() of instance i

monitorVars == <<stale, usage, check>>
allVars == <<vars, monitorVars>>

\* silent: the nodes without a heartbeat since the timeoutThreshold of the round.
NoCheck == [pc |-> "idle", silent |-> {}, nodes |-> {}, tasks |-> {}, node |-> Nil, task |-> Nil]

InitMonitor ==
    /\ stale = Node
    /\ usage = [n \in Node |-> "low"]
    /\ check = [i \in Instance |-> NoCheck]

\* Everything but the rows of nodes and tasks.
beyondRows == <<leaderVars, queue, runs, enqueues, cancels, executing, sent, crashes,
                stale, usage>>

Continue(i, c) == check' = [check EXCEPT ![i] = c]

-----------------------------------------------------------------------------
\* Nodes that went silent

\* Mutant: lastHeartbeat is compared the other way round.
mfindStale(i) ==
    /\ check[i].pc = "idle"
    /\ Continue(i, [NoCheck EXCEPT
          !.pc = "stale", !.silent = stale,
          !.nodes = {n \in Node \ stale : nodeStatus[n] = "ONLINE" /\ n \notin maintenance}])
    /\ UNCHANGED <<beyondRows, taskVars, nodeVars>>

\* The round starts.
findStale(i) ==
    /\ check[i].pc = "idle"
    /\ Continue(i, [NoCheck EXCEPT
          !.pc = "stale", !.silent = stale,
          !.nodes = {n \in stale : nodeStatus[n] = "ONLINE" /\ n \notin maintenance}])
    /\ UNCHANGED <<beyondRows, taskVars, nodeVars>>

markOffline(i) ==
    /\ check[i].pc = "stale"
    /\ \E n \in check[i].nodes :
          /\ nodeStatus' = [nodeStatus EXCEPT ![n] = "OFFLINE"]
          /\ Continue(i, [check[i] EXCEPT !.pc = "running", !.nodes = @ \ {n}, !.node = n])
    /\ UNCHANGED <<beyondRows, taskVars, maintenance, tasksRunning>>

\* Mutant: handleNodeFailure() takes the next task without looking for one.
mAfterTask(tasks) == "tasks"

\* Where handleNodeFailure() goes on with tasks left to fail.
AfterTask(tasks) == IF tasks = {} THEN "stale" ELSE "tasks"

findRunning(i) ==
    LET tasks == {t \in Task : assigned[t] = check[i].node /\ status[t] = "RUNNING"}
    IN  /\ check[i].pc = "running"
        /\ Continue(i, [check[i] EXCEPT !.pc = AfterTask(tasks), !.tasks = tasks])
        /\ UNCHANGED <<beyondRows, taskVars, nodeVars>>

\* Mutant: the retry takes the place of the task, which nobody marks.
mfailTask(i) ==
    /\ check[i].pc = "tasks"
    /\ \E t \in check[i].tasks :
          Continue(i, [check[i] EXCEPT !.pc = "retry", !.tasks = @ \ {t}, !.task = t])
    /\ UNCHANGED <<beyondRows, taskVars, nodeVars>>

failTask(i) ==
    /\ check[i].pc = "tasks"
    /\ \E t \in check[i].tasks :
          /\ status' = [status EXCEPT ![t] = "FAILED"]
          /\ Continue(i, [check[i] EXCEPT !.pc = "retry", !.tasks = @ \ {t}, !.task = t])
    /\ UNCHANGED <<beyondRows, assigned, retryOf, nodeVars>>

\* A row for the retry; no enqueue() follows.
retryAfterNodeFailure(i) ==
    /\ check[i].pc = "retry"
    /\ CreateRetry(check[i].task)
    /\ Continue(i, [check[i] EXCEPT !.pc = AfterTask(check[i].tasks), !.task = Nil])
    /\ UNCHANGED <<beyondRows, assigned, nodeVars>>

-----------------------------------------------------------------------------
\* Nodes under load

findDegraded(i) ==
    /\ check[i].pc = "stale" /\ check[i].nodes = {}
    /\ Continue(i, [check[i] EXCEPT
          !.pc = "degraded", !.node = Nil,
          !.nodes = {n \in Node : nodeStatus[n] = "ONLINE" /\ usage[n] = "high"}])
    /\ UNCHANGED <<beyondRows, taskVars, nodeVars>>

markDegraded(i) ==
    /\ check[i].pc = "degraded"
    /\ \E n \in check[i].nodes :
          /\ nodeStatus' = [nodeStatus EXCEPT ![n] = "DEGRADED"]
          /\ Continue(i, [check[i] EXCEPT !.nodes = @ \ {n}])
    /\ UNCHANGED <<beyondRows, taskVars, maintenance, tasksRunning>>

findRecovered(i) ==
    /\ check[i].pc = "degraded" /\ check[i].nodes = {}
    /\ Continue(i, [check[i] EXCEPT
          !.pc = "recovered",
          !.nodes = {n \in Node \ check[i].silent : nodeStatus[n] = "DEGRADED" /\ usage[n] = "low"}])
    /\ UNCHANGED <<beyondRows, taskVars, nodeVars>>

markRecovered(i) ==
    /\ check[i].pc = "recovered"
    /\ \E n \in check[i].nodes :
          /\ nodeStatus' = [nodeStatus EXCEPT ![n] = "ONLINE"]
          /\ Continue(i, [check[i] EXCEPT !.nodes = @ \ {n}])
    /\ UNCHANGED <<beyondRows, taskVars, maintenance, tasksRunning>>

endCheck(i) ==
    /\ check[i].pc = "recovered" /\ check[i].nodes = {}
    /\ Continue(i, NoCheck)
    /\ UNCHANGED <<beyondRows, taskVars, nodeVars>>

\* A query throws; the catch of checkNodes() drops the rest of the round.
checkThrows(i) ==
    /\ Faulty
    /\ check[i].pc # "idle"
    /\ Continue(i, NoCheck)
    /\ UNCHANGED <<beyondRows, taskVars, nodeVars>>

CheckStep(i) ==
    \/ findStale(i) \/ markOffline(i) \/ findRunning(i) \/ failTask(i)
    \/ retryAfterNodeFailure(i) \/ findDegraded(i) \/ markDegraded(i) \/ findRecovered(i)
    \/ markRecovered(i) \/ endCheck(i)

-----------------------------------------------------------------------------
\* The nodes and the rest of the backend

Heartbeat(n) ==
    /\ heartbeat(n)
    /\ stale' = stale \ {n}
    /\ \E l \in {"low", "between", "high"} : usage' = [usage EXCEPT ![n] = l]
    /\ check' = [i \in Instance |-> [check[i] EXCEPT !.silent = @ \ {n}]]

\* HEARTBEAT_TIMEOUT passes without a heartbeat of n.
GoesSilent(n) ==
    /\ n \notin stale
    /\ stale' = stale \cup {n}
    /\ UNCHANGED <<vars, usage, check>>

RestartBackend(i, graceful) ==
    /\ Restart(i, graceful)
    /\ check' = [check EXCEPT ![i] = NoCheck]
    /\ UNCHANGED <<stale, usage>>

NextMonitor ==
    \/ Serve /\ UNCHANGED monitorVars
    \/ \E i \in Instance : CheckStep(i) \/ checkThrows(i)
    \/ \E i \in Instance, g \in BOOLEAN : RestartBackend(i, g)
    \/ \E n \in Node : Heartbeat(n) \/ GoesSilent(n)

MonitorSpec == Init /\ InitMonitor /\ [][NextMonitor]_allVars

\* The interval of the monitor fires and its rounds go on.  No node is made to send
\* a heartbeat.
LiveMonitorSpec == MonitorSpec /\ \A i \in Instance : WF_allVars(CheckStep(i))

-----------------------------------------------------------------------------
\* Properties

MonitorTypeOK ==
    /\ TypeOK
    /\ stale \in SUBSET Node
    /\ usage \in [Node -> {"low", "between", "high"}]
    /\ check \in [Instance -> [pc : {"idle", "stale", "running", "tasks", "retry", "degraded",
                                     "recovered"},
                               silent : SUBSET Node, nodes : SUBSET Node, tasks : SUBSET Task,
                               node : Node \cup {Nil}, task : Task \cup {Nil}]]
    /\ \A i \in Instance : /\ check[i].pc = "tasks" => check[i].tasks # {}
                           /\ check[i].pc = "retry" => check[i].task # Nil

\* A node that is silent for good stops being given tasks, whatever a round that
\* read the old state still writes.
SilentNodeLeaves ==
    \A n \in Node : <>[](n \in stale) => <>[](nodeStatus[n] # "ONLINE")

=============================================================================
