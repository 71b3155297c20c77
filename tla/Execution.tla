----------------------------- MODULE Execution ------------------------------
(***************************************************************************)
(* How tasks and functions are executed: containers, sandboxes and the     *)
(* marketplace. They share nothing; each has its own initial states, next- *)
(* state relation and properties.                                          *)
(***************************************************************************)
EXTENDS Naturals, FiniteSets, FiniteSetsExt

(***************************************************************************)
(* src/lib/executor.ts: tasks run in a container of this machine, by an    *)
(* agent (through src/lib/agent-pool.ts), or as a simulation, and what is  *)
(* reported of them.                                                       *)
(*                                                                         *)
(* A container is looked at every second; looks wait for the daemon and    *)
(* overlap, also with the time limit.  The breaker in front is that of     *)
(* NodeBreaker; here it may refuse a task, which then fails at once.       *)
(***************************************************************************)

CONSTANTS
    ExecutorTask, Look,  \* looks that may be under way at once
    retries              \* of executeWithRetry()

VARIABLES
    executorStatus,
    container,           \* "none", "created", "running", "stopped" or "removed"
    interval, timer,     \* tasks whose looks go on, and whose time limit runs
    looks,               \* looks[t][l]: what the daemon answered, before it is acted on
    attempt,             \* attempt[t]: attempts of the agent's operation, 0 for a task that is not remote
    reported             \* events that were sent for a task

executorVars == <<executorStatus, container, interval, timer, looks, attempt, reported>>

Idle == "idle"

ExecutorInit ==
    /\ executorStatus = [t \in ExecutorTask |-> "none"]
    /\ container = [t \in ExecutorTask |-> "none"]
    /\ interval = {} /\ timer = {}
    /\ looks = [t \in ExecutorTask |-> [l \in Look |-> Idle]]
    /\ attempt = [t \in ExecutorTask |-> 0]
    /\ reported = [t \in ExecutorTask |-> {}]

End(t, outcome) ==
    /\ executorStatus' = [executorStatus EXCEPT ![t] = outcome]
    /\ reported' = [reported EXCEPT ![t] = @ \cup {outcome}]

executeTask(t) ==
    /\ executorStatus[t] = "none"
    /\ \/ End(t, "failed") /\ UNCHANGED attempt                  \* the breaker is open, or no mapping
       \/ /\ executorStatus' = [executorStatus EXCEPT ![t] = "pulling"]
          /\ UNCHANGED <<attempt, reported>>
       \/ /\ executorStatus' = [executorStatus EXCEPT ![t] = "running"] \* executeOnRemoteNode()
          /\ attempt' = [attempt EXCEPT ![t] = 1]
          /\ UNCHANGED reported
       \/ executorStatus' = [executorStatus EXCEPT ![t] = "simulated"] /\ UNCHANGED <<attempt, reported>>
    /\ UNCHANGED <<container, interval, timer, looks>>

simulateExecution(t) ==
    /\ executorStatus[t] = "simulated"
    /\ \E outcome \in {"completed", "failed"} : End(t, outcome)
    /\ UNCHANGED <<container, interval, timer, looks, attempt>>

\* The image is there or an older one is, or the container cannot be made.
createContainer(t) ==
    /\ executorStatus[t] = "pulling" /\ container[t] = "none"
    /\ \/ container' = [container EXCEPT ![t] = "created"] /\ UNCHANGED <<executorStatus, reported>>
       \/ End(t, "failed") /\ UNCHANGED container
    /\ UNCHANGED <<interval, timer, looks, attempt>>

\* A container that does not start is left as it is.
startContainer(t) ==
    /\ executorStatus[t] = "pulling" /\ container[t] = "created"
    /\ \/ /\ executorStatus' = [executorStatus EXCEPT ![t] = "running"]
          /\ container' = [container EXCEPT ![t] = "running"]
          /\ interval' = interval \cup {t} /\ timer' = timer \cup {t}
          /\ UNCHANGED reported
       \/ End(t, "failed") /\ UNCHANGED <<container, interval, timer>>
    /\ UNCHANGED <<looks, attempt>>

containerStops(t) ==
    /\ container[t] = "running"
    /\ container' = [container EXCEPT ![t] = "stopped"]
    /\ UNCHANGED <<executorStatus, interval, timer, looks, attempt, reported>>

look(t, l) ==
    /\ t \in interval /\ looks[t][l] = Idle
    /\ looks' = [looks EXCEPT ![t][l] = container[t]]
    /\ UNCHANGED <<executorStatus, container, interval, timer, attempt, reported>>

\* monitorContainer(): whatever became of the execution in the meantime.
looked(t, l) ==
    /\ looks[t][l] # Idle
    /\ looks' = [looks EXCEPT ![t][l] = Idle]
    /\ IF looks[t][l] \in {"stopped", "removed"}
       THEN /\ interval' = interval \ {t}
            /\ End(t, "completed")
            /\ \/ container' = [container EXCEPT ![t] = "removed"]
               \/ UNCHANGED container                             \* the removal failed
       ELSE UNCHANGED <<executorStatus, container, interval, reported>>
    /\ UNCHANGED <<timer, attempt>>

TimesOut(t) == executorStatus[t] = "running"

\* The container goes too, unless that fails.
timeLimit(t) ==
    /\ t \in timer
    /\ timer' = timer \ {t}
    /\ interval' = interval \ {t}
    /\ IF TimesOut(t)
       THEN End(t, "failed") /\ \E c \in {"removed", container[t]} : container' = [container EXCEPT ![t] = c]
       ELSE UNCHANGED <<executorStatus, container, reported>>
    /\ UNCHANGED <<looks, attempt>>

Remote(t) == executorStatus[t] = "running" /\ attempt[t] > 0

LastAttempt(t) == attempt[t] > retries

\* An answer of the agent, which may say that the task failed; or none in time.
agentAnswers(t) ==
    /\ Remote(t)
    /\ \E outcome \in {"completed", "failed"} : End(t, outcome)
    /\ UNCHANGED <<container, interval, timer, looks, attempt>>

agentFails(t) ==
    /\ Remote(t)
    /\ attempt' = [attempt EXCEPT ![t] = @ + 1]
    /\ IF LastAttempt(t) THEN End(t, "failed") ELSE UNCHANGED <<executorStatus, reported>>
    /\ UNCHANGED <<container, interval, timer, looks>>

ExecutorNext ==
    \E t \in ExecutorTask :
        \/ executeTask(t) \/ simulateExecution(t) \/ createContainer(t) \/ startContainer(t)
        \/ containerStops(t) \/ timeLimit(t) \/ agentAnswers(t) \/ agentFails(t)
        \/ \E l \in Look : look(t, l) \/ looked(t, l)

ExecutorSpec == ExecutorInit /\ [][ExecutorNext]_executorVars

ExecutorTypeOK ==
    \A t \in ExecutorTask :
        /\ executorStatus[t] \in {"none", "pulling", "running", "simulated", "completed", "failed"}
        /\ container[t] \in {"none", "created", "running", "stopped", "removed"}
        /\ attempt[t] \in 0..(retries + 2)
        /\ reported[t] \subseteq {"completed", "failed"}

\* No task is reported as failed after it was reported as completed, by the time limit or by
\* another attempt.  (The reverse happens: a look that waits for the daemon when the time limit
\* passes completes the task afterwards.)
CompletedIsNotFailed ==
    [][\A t \in ExecutorTask : ("completed" \in reported[t] /\ "failed" \notin reported[t]) => "failed" \notin reported'[t]]_executorVars

-----------------------------------------------------------------------------
(***************************************************************************)
(* packages/sandbox/src/runtime.ts: executions of tasks by Firecracker and *)
(* by gVisor.  Both remember a sandbox by its task, and gVisor also names  *)
(* it after the task.                                                      *)
(*                                                                         *)
(* Processes of the host are external: a signal ends one, and a process    *)
(* that was ended by a signal has no exit code.  Directories, and Docker,  *)
(* which is one call and remembers nothing, are left out.                  *)
(***************************************************************************)

CONSTANTS
    Execution,     \* calls of execute()
    TaskOf         \* TaskOf[e]: the task that e executes

VARIABLES
    runtime,      \* the one that is available; "none" before the factory has looked
    pc,           \* pc[e]: "idle", "starting", "waiting", "cleaning", or "over"
    sandbox,      \* sandbox[e]: "none", "running", "ended", or "signalled"
    owner,        \* vms and containers: owner[t]: whose sandbox is remembered for t; 0 if none
    result,       \* result[e]: "none", "ok", "failed" or "thrown"
    met           \* history: executions that met another one of their task

runtimeVars == <<runtime, pc, sandbox, owner, result, met>>

RuntimeTask == {TaskOf[e] : e \in Execution}

RuntimeInit ==
    /\ runtime = "none"
    /\ pc = [e \in Execution |-> "idle"] /\ sandbox = [e \in Execution |-> "none"]
    /\ owner = [t \in RuntimeTask |-> 0]
    /\ result = [e \in Execution |-> "none"] /\ met = {}

createPreferredRuntime ==
    /\ runtime = "none" /\ runtime' \in {"firecracker", "gvisor"}
    /\ UNCHANGED <<pc, sandbox, owner, result, met>>

Goto(e, there) == pc' = [pc EXCEPT ![e] = there]

Answer(e, answer) == result' = [result EXCEPT ![e] = answer] /\ Goto(e, "cleaning")

Twins(e) == {f \in Execution \ {e} : TaskOf[f] = TaskOf[e]}

execute(e) ==
    LET others == {f \in Twins(e) : pc[f] \notin {"idle", "over"}}
    IN  /\ runtime # "none" /\ pc[e] = "idle" /\ Goto(e, "starting")
        /\ met' = IF others = {} THEN met ELSE met \cup others \cup {e}
        /\ UNCHANGED <<runtime, sandbox, owner, result>>

start(e) ==
    /\ pc[e] = "starting" /\ Goto(e, "waiting")
    /\ runtime = "gvisor" => \A f \in Twins(e) : sandbox[f] = "none"
    /\ sandbox' = [sandbox EXCEPT ![e] = "running"]
    /\ owner' = [owner EXCEPT ![TaskOf[e]] = e]
    /\ UNCHANGED <<runtime, result, met>>

\* The configuration cannot be written, the binary fails, or gVisor has the name in use.
fails(e) == pc[e] = "starting" /\ Answer(e, "thrown") /\ UNCHANGED <<runtime, sandbox, owner, met>>

end(e) ==
    /\ sandbox[e] = "running" /\ sandbox' = [sandbox EXCEPT ![e] = "ended"]
    /\ UNCHANGED <<runtime, pc, owner, result, met>>

\* gVisor first waits for `runsc kill`.
AtTimeout(e) == IF runtime = "gvisor" THEN UNCHANGED <<pc, result>> ELSE Answer(e, "thrown")

timeout(e) ==
    /\ pc[e] = "waiting" /\ sandbox[e] = "running"
    /\ sandbox' = [sandbox EXCEPT ![e] = "signalled"]
    /\ AtTimeout(e)
    /\ UNCHANGED <<runtime, owner, met>>

killed(e) ==
    /\ runtime = "gvisor" /\ pc[e] = "waiting" /\ sandbox[e] = "signalled"
    /\ Answer(e, "thrown")
    /\ UNCHANGED <<runtime, sandbox, owner, met>>

\* The close event.  A missing exit code is read as 0.
waitForVM(e) ==
    /\ pc[e] = "waiting" /\ sandbox[e] \in {"ended", "signalled"}
    /\ \E answer \in {"ok", "failed"} : Answer(e, answer)
    /\ UNCHANGED <<runtime, sandbox, owner, met>>

\* Whosever it is.
Remembered(t) == owner[t]

\* Firecracker signals what runs, gVisor deletes what does not.
cleanup(e) ==
    LET f == Remembered(TaskOf[e])
    IN  /\ pc[e] = "cleaning" /\ Goto(e, "over")
        /\ owner' = [owner EXCEPT ![TaskOf[e]] = 0]
        /\ sandbox' = IF f = 0 \/ (sandbox[f] = "running" <=> runtime = "gvisor") THEN sandbox
                      ELSE [sandbox EXCEPT ![f] = IF runtime = "gvisor" THEN "none" ELSE "signalled"]
        /\ UNCHANGED <<runtime, result, met>>

RuntimeNext ==
    \/ createPreferredRuntime
    \/ \E e \in Execution : \/ execute(e) \/ start(e) \/ fails(e) \/ end(e) \/ timeout(e) \/ killed(e)
                             \/ waitForVM(e) \/ cleanup(e)

RuntimeSpec == RuntimeInit /\ [][RuntimeNext]_runtimeVars

RuntimeTypeOK ==
    /\ pc \in [Execution -> {"idle", "starting", "waiting", "cleaning", "over"}]
    /\ sandbox \in [Execution -> {"none", "running", "ended", "signalled"}]
    /\ owner \in [RuntimeTask -> Execution \cup {0}] /\ met \subseteq Execution

\* An execution of Firecracker that is answered exit code 0 ran to its end, though a process that was
\* killed reads as one that succeeded: unless it met another execution of its task.
OkIsEnded == runtime = "firecracker" => \A e \in Execution \ met : result[e] = "ok" => sandbox[e] = "ended"

\* An execution that is over has left nothing running and, in gVisor, nothing that takes its name,
\* unless it met another one of its task.
NothingIsLeft ==
    \A e \in Execution \ met :
        pc[e] = "over" => sandbox[e] # "running" /\ (runtime = "gvisor" => sandbox[e] = "none")

-----------------------------------------------------------------------------
(***************************************************************************)
(* src/lib/marketplace/EdgeFunctionMarketplace.ts: one function, the calls *)
(* that deploy it to nodes, and those that undeploy and invoke it.         *)
(*                                                                         *)
(* A deployment is an object of the call that made it; the map has one for *)
(* each node.  Latencies, by which findBestNode() chooses, and counters    *)
(* are left out: any active node may be chosen.                            *)
(***************************************************************************)

CONSTANTS
    Node,                       \* numbers, in the order in which nodes are deployed to
    Deploy, Invocation,         \* calls
    MaxUndeployed               \* bound on the calls of undeployFunction()

VARIABLES
    nodes,          \* nodes[d]: those that the call is for
    todo,           \* todo[d]: those it has not passed
    waiting,        \* waiting[d]: the one it is deploying to; 0 if none
    deployments,    \* deployments[n]: whose object the map has; 0 if none
    marketStatus,   \* status[d][n]: of the object
    invocations,    \* invocations[i]: where it runs; 0 before and after
    undeployed,
    since,          \* history: since[d]: nodes undeployed since the call passed them
    withdrawn       \* history: nodes undeployed, not deployed to since, and not being deployed to then

marketVars == <<nodes, todo, waiting, deployments, marketStatus, invocations, undeployed, since, withdrawn>>

MarketInit ==
    /\ nodes = [d \in Deploy |-> {}] /\ todo = nodes /\ since = nodes
    /\ waiting = [d \in Deploy |-> 0]
    /\ deployments = [n \in Node |-> 0]
    /\ marketStatus = [d \in Deploy |-> [n \in Node |-> "none"]]
    /\ invocations = [i \in Invocation |-> 0]
    /\ undeployed = 0 /\ withdrawn = {}

Active(n) == deployments[n] # 0 /\ marketStatus[deployments[n]][n] = "active"

deployFunction(d, ns) ==
    /\ nodes[d] = {} /\ ns # {}
    /\ nodes' = [nodes EXCEPT ![d] = ns] /\ todo' = [todo EXCEPT ![d] = ns]
    /\ UNCHANGED <<waiting, deployments, marketStatus, invocations, undeployed, since, withdrawn>>

Pass(d, n) ==
    /\ todo' = [todo EXCEPT ![d] = @ \ {n}]
    /\ since' = [since EXCEPT ![d] = @ \ {n}]

Exists(n) == Active(n)

\* An object that is still being deployed is replaced.
deployNext(d) ==
    LET n == Min(todo[d])
    IN  /\ todo[d] # {} /\ waiting[d] = 0
        /\ Pass(d, n)
        /\ IF Exists(n)
           THEN UNCHANGED <<waiting, deployments, marketStatus, withdrawn>>
           ELSE /\ waiting' = [waiting EXCEPT ![d] = n]
                /\ deployments' = [deployments EXCEPT ![n] = d]
                /\ marketStatus' = [marketStatus EXCEPT ![d][n] = "deploying"]
                /\ withdrawn' = withdrawn \ {n}
        /\ UNCHANGED <<nodes, invocations, undeployed>>

\* Whatever has happened to the object.
deployed(d) ==
    /\ waiting[d] # 0 /\ waiting' = [waiting EXCEPT ![d] = 0]
    /\ marketStatus' = [marketStatus EXCEPT ![d][waiting[d]] = "active"]
    /\ UNCHANGED <<nodes, todo, deployments, invocations, undeployed, since, withdrawn>>

undeployFunction(n) ==
    /\ deployments[n] # 0 /\ undeployed < MaxUndeployed /\ undeployed' = undeployed + 1
    /\ marketStatus' = [marketStatus EXCEPT ![deployments[n]][n] = "inactive"]
    /\ since' = [d \in Deploy |-> since[d] \cup {n}]
    /\ withdrawn' = IF \E d \in Deploy : waiting[d] = n THEN withdrawn ELSE withdrawn \cup {n}
    /\ UNCHANGED <<nodes, todo, waiting, deployments, invocations>>

Invokable(n) == Active(n)

\* The node is given, or found by findBestNode().
invokeFunction(i, n) ==
    /\ invocations[i] = 0 /\ Invokable(n)
    /\ invocations' = [invocations EXCEPT ![i] = n]
    /\ UNCHANGED <<nodes, todo, waiting, deployments, marketStatus, undeployed, since, withdrawn>>

invoked(i) ==
    /\ invocations[i] # 0 /\ invocations' = [invocations EXCEPT ![i] = 0]
    /\ UNCHANGED <<nodes, todo, waiting, deployments, marketStatus, undeployed, since, withdrawn>>

MarketNext ==
    \/ \E d \in Deploy : deployNext(d) \/ deployed(d) \/ \E ns \in SUBSET Node : deployFunction(d, ns)
    \/ \E i \in Invocation : invoked(i) \/ \E n \in Node : invokeFunction(i, n)
    \/ \E n \in Node : undeployFunction(n)

MarketSpec == MarketInit /\ [][MarketNext]_marketVars

MarketTypeOK ==
    /\ \A d \in Deploy : todo[d] \subseteq nodes[d] /\ nodes[d] \subseteq Node
    /\ waiting \in [Deploy -> Node \cup {0}] /\ deployments \in [Node -> Deploy \cup {0}]
    /\ marketStatus \in [Deploy -> [Node -> {"none", "deploying", "active", "inactive"}]]

\* Where a call has deployed, the function is active until it is undeployed there, unless another
\* call is deploying there: also if several calls deploy to the same nodes in different orders.
DeployedIsActive ==
    \A d \in Deploy : \A n \in nodes[d] \ (todo[d] \cup since[d]) :
        Active(n) \/ \E e \in Deploy : waiting[e] = n

\* A node where the function was undeployed invokes it no more until it is deployed there again:
\* what was running there ends, and nothing else begins.
WithdrawnIsNotInvoked ==
    [][\A i \in Invocation : invocations'[i] # invocations[i] => invocations'[i] \notin withdrawn]_invocations

=============================================================================
