---------------------------- MODULE TaskScheduler ----------------------------
(***************************************************************************)
(* The control plane of backend/src: the instances of TaskScheduler        *)
(* (services/task-scheduler.ts) that elect a leader through a Redis lock   *)
(* and move tasks from the Redis queue to edge nodes, the task routes      *)
(* (routes/tasks.ts) that create, cancel and retry tasks, and the          *)
(* heartbeats of the nodes (routes/nodes.ts).                              *)
(*                                                                         *)
(* Every await is a point where anything else may happen.  A run of        *)
(* processQueue() is a slot with a program counter; nothing stops the      *)
(* interval from starting another while one is waiting.  A task row is     *)
(* written without looking at the value it had.                            *)
(***************************************************************************)
EXTENDS Integers, FiniteSets

CONSTANTS
    Instance,            \* processes of the backend
    Node,                \* edge nodes
    Submitted,           \* ids of the tasks created by users
    Clones,              \* ids of the tasks created to retry another
    Rank,                \* Rank[t]: the score of t in the queue
    MaxRetries,          \* task.maxRetries
    MaxPerNode,          \* tasksRunning at which findNode() skips a node
    Nil,                 \* no task, no node, no lock
    Gone,                \* the instanceId of a process that is no more
    PriorityQueueWired,  \* does processQueue() read the PriorityScheduler
    RedisMocked,         \* is Redis the stub of index.ts, private to a process
    Faulty,              \* may a call to the database or to Redis fail
    Prompt,              \* is a claim shorter than the interval and the lock
    MaxRuns,             \* bound on simultaneous runs in one instance
    MaxCrashes,          \* bound on crashes and shutdowns
    Maintained           \* bound: the nodes whose maintenance mode is toggled

ASSUME SetAssumption ==
    /\ Submitted \cap Clones = {}
    /\ Nil \notin Instance \cup Node \cup Submitted \cup Clones
    /\ Gone \notin Instance /\ Gone # Nil
    /\ Maintained \subseteq Node

ASSUME NumberAssumption ==
    /\ Rank \in [Submitted \cup Clones -> Nat]
    /\ MaxRetries \in Nat /\ MaxPerNode \in Nat
    /\ MaxRuns \in Nat /\ MaxCrashes \in Nat
    /\ PriorityQueueWired \in BOOLEAN /\ RedisMocked \in BOOLEAN
    /\ Faulty \in BOOLEAN /\ Prompt \in BOOLEAN

Task == Submitted \cup Clones
Slot == Instance \X (1..MaxRuns)

VARIABLES
    lock,          \* value of scheduler:leader:lock
    isLeader,      \* isLeader[i]: what instance i believes
    status,        \* status[t]: the row of t, "NONE" before it is created
    assigned,      \* assigned[t]: nodeId
    retryOf,       \* retryOf[t]: the task t is a retry of
    queue,         \* members of task:queue
    runs,          \* runs[s]: the run of processQueue() in slot s
    enqueues,      \* rows created whose enqueue() is still to come
    cancels,       \* tasks with a cancel request past its check
    nodeStatus,    \* nodeStatus[n]: status of the row of n
    maintenance,   \* nodes with isMaintenanceMode
    tasksRunning,  \* tasksRunning[n]: the counter in the row of n
    executing,     \* executing[n][t]: executions of t under way at the agent of n
    sent,          \* history: sent[t] counts the POSTs of t
    crashes        \* counts crashes against MaxCrashes

leaderVars == <<lock, isLeader>>
taskVars == <<status, assigned, retryOf>>
nodeVars == <<nodeStatus, maintenance, tasksRunning>>
vars == <<leaderVars, taskVars, queue, runs, enqueues, cancels, nodeVars,
          executing, sent, crashes>>

Idle == [pc |-> "idle", task |-> Nil, node |-> Nil]

\* From the tick of the interval until SCHEDULED is written.
ClaimPC == {"look", "load", "place", "dequeue", "assign"}
Claiming(i) == \E s \in Slot : s[1] = i /\ runs[s].pc \in ClaimPC

Init ==
    /\ lock = Nil
    /\ isLeader = [i \in Instance |-> FALSE]
    /\ status = [t \in Task |-> "NONE"]
    /\ assigned = [t \in Task |-> Nil]
    /\ retryOf = [t \in Task |-> Nil]
    /\ queue = {}
    /\ runs = [s \in Slot |-> Idle]
    /\ enqueues = {}
    /\ cancels = {}
    /\ nodeStatus = [n \in Node |-> "OFFLINE"]
    /\ maintenance = {}
    /\ tasksRunning = [n \in Node |-> 0]
    /\ executing = [n \in Node |-> [t \in Task |-> 0]]
    /\ sent = [t \in Task |-> 0]
    /\ crashes = 0

-----------------------------------------------------------------------------
\* Leadership

\* Mutant: SET without NX.
mTryBecomeLeader(i) ==
    /\ ~isLeader[i]
    /\ lock' = i
    /\ isLeader' \in {isLeader, [isLeader EXCEPT ![i] = TRUE]}

\* SET NX PX; its reply may be lost.  The stub answers OK to any SET.
tryBecomeLeader(i) ==
    /\ ~isLeader[i]
    /\ lock = Nil \/ RedisMocked
    /\ lock' = IF RedisMocked THEN lock ELSE i
    /\ isLeader' \in {isLeader, [isLeader EXCEPT ![i] = TRUE]}

\* maintainLeadership(): competes for the lock, or fails to renew it because it
\* holds another value or Redis does not answer.
maintainLeadership(i) ==
    /\ \/ tryBecomeLeader(i)
       \/ /\ isLeader[i] /\ ~RedisMocked
          /\ isLeader' = [isLeader EXCEPT ![i] = FALSE]
          /\ UNCHANGED lock
    /\ UNCHANGED <<taskVars, queue, runs, enqueues, cancels, nodeVars, executing,
                   sent, crashes>>

\* The TTL passes without a renewal.  Prompt instances renew while they lead, and
\* finish their claims within what is left of the TTL when they stop.
LockExpires ==
    /\ lock # Nil
    /\ (Prompt /\ lock \in Instance) => ~isLeader[lock] /\ ~Claiming(lock)
    /\ lock' = Nil
    /\ UNCHANGED <<isLeader, taskVars, queue, runs, enqueues, cancels, nodeVars,
                   executing, sent, crashes>>

\* The process of i ends and starts again under a new instanceId: stop()
\* releases the lock, a crash leaves it to expire.  Its runs and
\* requests are gone either way; an execution they started goes on.
Restart(i, graceful) ==
    /\ crashes < MaxCrashes
    /\ crashes' = crashes + 1
    /\ lock' = IF lock # i THEN lock
               ELSE IF graceful /\ isLeader[i] THEN Nil ELSE Gone
    /\ isLeader' = [isLeader EXCEPT ![i] = FALSE]
    /\ runs' = [s \in Slot |-> IF s[1] = i THEN Idle ELSE runs[s]]
    /\ enqueues' = {e \in enqueues : e.by # i}
    /\ UNCHANGED <<taskVars, queue, cancels, nodeVars, executing, sent>>

-----------------------------------------------------------------------------
\* processQueue(), one action per await

At(s, pc) == runs[s].pc = pc
Goto(s, pc) == runs' = [runs EXCEPT ![s].pc = pc]
End(s) == runs' = [runs EXCEPT ![s] = Idle]

\* The interval fires at a leader.
Tick(s) ==
    /\ At(s, "idle")
    /\ isLeader[s[1]]
    /\ Prompt => ~Claiming(s[1])
    /\ Goto(s, "look")
    /\ UNCHANGED <<leaderVars, taskVars, queue, enqueues, cancels, nodeVars,
                   executing, sent, crashes>>

\* Mutant: the head is popped, as getNextBatch() would.
mLook(s) ==
    /\ At(s, "look")
    /\ IF PriorityQueueWired \/ queue = {}
       THEN End(s) /\ UNCHANGED queue
       ELSE \E t \in queue :
               /\ \A u \in queue : Rank[u] <= Rank[t]
               /\ runs' = [runs EXCEPT ![s] = [pc |-> "load", task |-> t, node |-> Nil]]
               /\ queue' = queue \ {t}
    /\ UNCHANGED <<leaderVars, taskVars, enqueues, cancels, nodeVars,
                   executing, sent, crashes>>

\* zrevrange 0 0: the head of the queue.  The PriorityScheduler that index.ts
\* wires in has queues of its own, which nothing fills: enqueue() adds to
\* task:queue only.
look(s) ==
    /\ At(s, "look")
    /\ IF PriorityQueueWired \/ queue = {}
       THEN End(s)
       ELSE \E t \in queue :
               /\ \A u \in queue : Rank[u] <= Rank[t]
               /\ runs' = [runs EXCEPT ![s] = [pc |-> "load", task |-> t, node |-> Nil]]
    /\ UNCHANGED <<leaderVars, taskVars, queue, enqueues, cancels, nodeVars,
                   executing, sent, crashes>>

\* Mutant: a task that is no longer PENDING stays in the queue.
mLoad(s) ==
    /\ At(s, "load")
    /\ IF status[runs[s].task] = "PENDING" THEN Goto(s, "place") ELSE End(s)
    /\ UNCHANGED <<leaderVars, taskVars, queue, enqueues, cancels, nodeVars,
                   executing, sent, crashes>>

\* The row is read.  A task that is no longer PENDING leaves the queue; it never
\* becomes PENDING again, so that call is part of the step.
load(s) ==
    LET t == runs[s].task
    IN  /\ At(s, "load")
        /\ IF status[t] = "PENDING"
           THEN Goto(s, "place") /\ UNCHANGED queue
           ELSE End(s) /\ queue' = queue \ {t}
        /\ UNCHANGED <<leaderVars, taskVars, enqueues, cancels, nodeVars,
                       executing, sent, crashes>>

\* Backpressure, the rate limit, a lack of nodes or an open circuit breaker ends
\* the run; the task keeps its place in the queue.
defer(s) ==
    /\ runs[s].pc \in {"look", "place"}
    /\ End(s)
    /\ UNCHANGED <<leaderVars, taskVars, queue, enqueues, cancels, nodeVars,
                   executing, sent, crashes>>

\* The nodes that findNode() considers; which one it picks depends on the policy.
Eligible == {n \in Node : /\ nodeStatus[n] = "ONLINE"
                          /\ n \notin maintenance
                          /\ tasksRunning[n] < MaxPerNode}

findNode(s) ==
    /\ At(s, "place")
    /\ \E n \in Eligible :
          runs' = [runs EXCEPT ![s].pc = "dequeue", ![s].node = n]
    /\ UNCHANGED <<leaderVars, taskVars, queue, enqueues, cancels, nodeVars,
                   executing, sent, crashes>>

\* Mutant: the task is left in the queue until it has been assigned.
mDequeue(s) ==
    /\ At(s, "dequeue")
    /\ Goto(s, "assign")
    /\ UNCHANGED <<leaderVars, taskVars, queue, enqueues, cancels, nodeVars, executing,
                   sent, crashes>>

\* zrem, whose count of removed members nobody looks at.
dequeue(s) ==
    /\ At(s, "dequeue")
    /\ queue' = queue \ {runs[s].task}
    /\ Goto(s, "assign")
    /\ UNCHANGED <<leaderVars, taskVars, enqueues, cancels, nodeVars, executing,
                   sent, crashes>>

\* assignTask(): SCHEDULED, then the POST leaves.
assignTask(s) ==
    LET t == runs[s].task
    IN  /\ At(s, "assign")
        /\ status' = [status EXCEPT ![t] = "SCHEDULED"]
        /\ assigned' = [assigned EXCEPT ![t] = runs[s].node]
        /\ sent' = [sent EXCEPT ![t] = @ + 1]
        /\ Goto(s, "post")
        /\ UNCHANGED <<leaderVars, retryOf, queue, enqueues, cancels, nodeVars,
                       executing, crashes>>

\* The agent answers after the execution, whatever became of it, and a 2xx counts
\* as "running": RUNNING, then the counter of the node.
markRunning(s) ==
    /\ At(s, "answered")
    /\ status' = [status EXCEPT ![runs[s].task] = "RUNNING"]
    /\ Goto(s, "count")
    /\ UNCHANGED <<leaderVars, assigned, retryOf, queue, enqueues, cancels, nodeVars,
                   executing, sent, crashes>>

countRunning(s) ==
    /\ At(s, "count")
    /\ tasksRunning' = [tasksRunning EXCEPT ![runs[s].node] = @ + 1]
    /\ End(s)
    /\ UNCHANGED <<leaderVars, taskVars, queue, enqueues, cancels, nodeStatus,
                   maintenance, executing, sent, crashes>>

\* The POST failed or timed out: FAILED, and then a retry.
markFailed(s) ==
    /\ At(s, "failed")
    /\ status' = [status EXCEPT ![runs[s].task] = "FAILED"]
    /\ Goto(s, "retry")
    /\ UNCHANGED <<leaderVars, assigned, retryOf, queue, enqueues, cancels, nodeVars,
                   executing, sent, crashes>>

\* taskExecution.count(): no code creates the execution of a task of this scheduler.
ExecutionCount(t) == 0

\* A row that copies t.  Without an id left in Clones there is none (bound).
CreateRetry(t) ==
    IF ExecutionCount(t) < MaxRetries /\ \E c \in Clones : status[c] = "NONE" /\ Rank[c] = Rank[t]
    THEN \E c \in Clones :
            /\ status[c] = "NONE" /\ Rank[c] = Rank[t]
            /\ status' = [status EXCEPT ![c] = "PENDING"]
            /\ retryOf' = [retryOf EXCEPT ![c] = t]
    ELSE UNCHANGED <<status, retryOf>>

\* The retry that CreateRetry made is handed to enqueue() by instance i.
Created == {t \in Task : status[t] = "NONE" /\ status'[t] # "NONE"}
EnqueueCreated(i) == enqueues' = enqueues \cup {[by |-> i, task |-> t] : t \in Created}

retryAfterFailure(s) ==
    /\ At(s, "retry")
    /\ CreateRetry(runs[s].task)
    /\ EnqueueCreated(s[1])
    /\ End(s)
    /\ UNCHANGED <<leaderVars, assigned, queue, cancels, nodeVars, executing, sent, crashes>>

\* enqueue(): zadd, which the stub forgets.
enqueue(e) ==
    /\ e \in enqueues
    /\ enqueues' = enqueues \ {e}
    /\ queue' = IF RedisMocked THEN queue ELSE queue \cup {e.task}
    /\ UNCHANGED <<leaderVars, taskVars, runs, cancels, nodeVars, executing, sent, crashes>>

\* A call to the database or to Redis throws without effect.  Between the POST and
\* the end of assignTask() that counts as a failure of the POST; the catch of
\* processQueue() gets the rest.
throws(s) ==
    /\ Faulty
    /\ \/ /\ runs[s].pc \in {"look", "load", "place", "dequeue", "assign", "failed", "retry"}
          /\ End(s)
       \/ /\ runs[s].pc \in {"answered", "count"}
          /\ Goto(s, "failed")
    /\ UNCHANGED <<leaderVars, taskVars, queue, enqueues, cancels, nodeVars, executing,
                   sent, crashes>>

\* reconcileTaskCounts() for one node.
reconcileTaskCounts(i, n) ==
    /\ isLeader[i]
    /\ tasksRunning' = [tasksRunning EXCEPT ![n] =
          Cardinality({t \in Task : assigned[t] = n /\ status[t] \in {"RUNNING", "SCHEDULED"}})]
    /\ UNCHANGED <<leaderVars, taskVars, queue, runs, enqueues, cancels, nodeStatus,
                   maintenance, executing, sent, crashes>>

-----------------------------------------------------------------------------
\* The agents

\* POST /run-task arrives and the execution starts; the response waits for its end.
RunTask(s) ==
    LET r == runs[s]
    IN  /\ At(s, "post")
        /\ executing' = [executing EXCEPT ![r.node][r.task] = @ + 1]
        /\ Goto(s, "running")
        /\ UNCHANGED <<leaderVars, taskVars, queue, enqueues, cancels, nodeVars, sent, crashes>>

\* An execution ends, and with it the POST of a run that still waits for it.
ExecutionEnds(n, t) ==
    LET Waiting == {s \in Slot : runs[s] = [pc |-> "running", task |-> t, node |-> n]}
    IN  /\ executing[n][t] > 0
        /\ executing' = [executing EXCEPT ![n][t] = @ - 1]
        /\ \/ \E s \in Waiting : Goto(s, "answered")
           \/ /\ Cardinality(Waiting) < executing[n][t]
              /\ UNCHANGED runs
        /\ UNCHANGED <<leaderVars, taskVars, queue, enqueues, cancels, nodeVars, sent, crashes>>

\* Mutant: the error is swallowed.
mPostFails(s) ==
    /\ runs[s].pc \in {"post", "running"}
    /\ End(s)
    /\ UNCHANGED <<leaderVars, taskVars, queue, enqueues, cancels, nodeVars, executing,
                   sent, crashes>>

\* The agent refuses the request, it does not arrive, or REQUEST_TIMEOUT passes
\* while the task executes.
PostFails(s) ==
    /\ runs[s].pc \in {"post", "running"}
    /\ Goto(s, "failed")
    /\ UNCHANGED <<leaderVars, taskVars, queue, enqueues, cancels, nodeVars, executing,
                   sent, crashes>>

-----------------------------------------------------------------------------
\* The routes

\* POST /tasks at instance i: the row; its enqueue() follows.
createTask(i) ==
    /\ \E t \in Submitted :
          /\ status[t] = "NONE"
          /\ status' = [status EXCEPT ![t] = "PENDING"]
    /\ EnqueueCreated(i)
    /\ UNCHANGED <<leaderVars, assigned, retryOf, queue, runs, cancels, nodeVars,
                   executing, sent, crashes>>

\* POST /tasks/:id/cancel: the check, then the update.  The queue, the scheduler
\* and the agent are not told.  A crash between the two is a request that waits
\* forever.
cancelCheck(t) ==
    /\ status[t] \in {"PENDING", "SCHEDULED", "RUNNING"}
    /\ cancels' = cancels \cup {t}
    /\ UNCHANGED <<leaderVars, taskVars, queue, runs, enqueues, nodeVars, executing,
                   sent, crashes>>

cancelTask(t) ==
    /\ t \in cancels
    /\ cancels' = cancels \ {t}
    /\ status' = [status EXCEPT ![t] = "CANCELLED"]
    /\ UNCHANGED <<leaderVars, assigned, retryOf, queue, runs, enqueues, nodeVars,
                   executing, sent, crashes>>

\* POST /tasks/:id/retry.
retryTask(i, t) ==
    /\ status[t] = "FAILED"
    /\ CreateRetry(t)
    /\ EnqueueCreated(i)
    /\ UNCHANGED <<leaderVars, assigned, queue, runs, cancels, nodeVars, executing,
                   sent, crashes>>

\* What the agent counts: the executions of each task are numbered from 1.
Executions(n) == UNION {{t} \X (1..executing[n][t]) : t \in Task}

\* POST /nodes/:id/heartbeat: whatever the status was, the agent says it is up.
heartbeat(n) ==
    /\ nodeStatus' = [nodeStatus EXCEPT ![n] = "ONLINE"]
    /\ tasksRunning' = [tasksRunning EXCEPT ![n] = Cardinality(Executions(n))]
    /\ UNCHANGED <<leaderVars, taskVars, queue, runs, enqueues, cancels, maintenance,
                   executing, sent, crashes>>

\* POST /nodes/:id/maintenance.
setMaintenance(n, enabled) ==
    /\ maintenance' = IF enabled THEN maintenance \cup {n} ELSE maintenance \ {n}
    /\ nodeStatus' = [nodeStatus EXCEPT ![n] = IF enabled THEN "MAINTENANCE" ELSE "ONLINE"]
    /\ UNCHANGED <<leaderVars, taskVars, queue, runs, enqueues, cancels, tasksRunning,
                   executing, sent, crashes>>

-----------------------------------------------------------------------------
Step(s) ==
    \/ look(s) \/ load(s) \/ findNode(s) \/ dequeue(s) \/ assignTask(s)
    \/ markRunning(s) \/ countRunning(s) \/ markFailed(s) \/ retryAfterFailure(s)

\* What the scheduler, the task routes and the agents do.
Serve ==
    \/ \E i \in Instance : maintainLeadership(i) \/ createTask(i)
    \/ \E i \in Instance, t \in Task : retryTask(i, t)
    \/ \E t \in Task : cancelCheck(t) \/ cancelTask(t)
    \/ \E i \in Instance, n \in Node : reconcileTaskCounts(i, n)
    \/ LockExpires
    \/ \E s \in Slot : Tick(s) \/ defer(s) \/ Step(s) \/ throws(s) \/ RunTask(s) \/ PostFails(s)
    \/ \E e \in enqueues : enqueue(e)
    \/ \E n \in Node, t \in Task : ExecutionEnds(n, t)
    \/ \E n \in Maintained, b \in BOOLEAN : setMaintenance(n, b)

Next ==
    \/ Serve
    \/ \E i \in Instance, g \in BOOLEAN : Restart(i, g)
    \/ \E n \in Node : heartbeat(n)

Spec == Init /\ [][Next]_vars

\* The intervals fire and what they start goes on; executions end; nodes send
\* heartbeats.  Replies of Redis may be lost, leadership may come and go, a run may
\* be deferred and a call may throw, but not every time.
Fairness ==
    /\ \A i \in Instance : SF_vars(maintainLeadership(i) /\ isLeader'[i])
    /\ WF_vars(LockExpires)
    /\ \A s \in Slot : /\ SF_vars(Tick(s)) /\ SF_vars(look(s)) /\ SF_vars(load(s))
                       /\ SF_vars(findNode(s)) /\ SF_vars(dequeue(s))
                       /\ WF_vars(Step(s)) /\ WF_vars(RunTask(s))
    /\ \A n \in Node, t \in Task : WF_vars(ExecutionEnds(n, t))
    /\ \A n \in Node : WF_vars(heartbeat(n))
    /\ WF_vars(\E e \in enqueues : enqueue(e))

LiveSpec == Spec /\ Fairness

-----------------------------------------------------------------------------
\* Properties

PC == {"idle", "look", "load", "place", "dequeue", "assign", "post", "running",
       "answered", "count", "failed", "retry"}

TypeOK ==
    /\ lock \in Instance \cup {Nil, Gone}
    /\ isLeader \in [Instance -> BOOLEAN]
    /\ status \in [Task -> {"NONE", "PENDING", "SCHEDULED", "RUNNING", "FAILED", "CANCELLED"}]
    /\ assigned \in [Task -> Node \cup {Nil}]
    /\ retryOf \in [Task -> Task \cup {Nil}]
    /\ queue \in SUBSET Task
    /\ runs \in [Slot -> [pc : PC, task : Task \cup {Nil}, node : Node \cup {Nil}]]
    /\ \A s \in Slot : /\ runs[s].pc \notin {"idle", "look"} => runs[s].task # Nil
                       /\ runs[s].pc \notin {"idle", "look", "load", "place"} =>
                              runs[s].node # Nil
    /\ enqueues \in SUBSET [by : Instance, task : Task]
    /\ cancels \in SUBSET Task
    /\ nodeStatus \in [Node -> {"ONLINE", "OFFLINE", "DEGRADED", "MAINTENANCE"}]
    /\ maintenance \in SUBSET Node
    /\ tasksRunning \in [Node -> Nat]
    /\ executing \in [Node -> [Task -> Nat]]
    /\ sent \in [Task -> Nat]
    /\ crashes \in 0..MaxCrashes

\* Two instances never both take themselves for the leader (tryBecomeLeader,
\* maintainLeadership), whatever replies of Redis are lost and whoever crashes.
OneLeader == \A i, j \in Instance : isLeader[i] /\ isLeader[j] => i = j

\* No task is sent to an agent twice, although runs of processQueue() overlap,
\* leaders change and nothing but the queue and the status guards a task.
SingleDispatch == \A t \in Task : sent[t] <= 1

\* "Only process queue if we are the leader" (task-scheduler.ts:145): whoever
\* assigns a task still holds the lock, however long ago it looked.
ClaimByLockHolder == [][\A s \in Slot : assignTask(s) => lock = s[1]]_vars

\* A PENDING task is never forgotten: it is queued, about to be queued, or in the
\* hands of a run that took it off the queue.
PendingIsQueued ==
    \A t \in Task :
        status[t] = "PENDING" =>
            \/ t \in queue
            \/ \E e \in enqueues : e.task = t
            \/ \E s \in Slot : At(s, "assign") /\ runs[s].task = t

\* What is queued still waits for its first assignment, or was cancelled before it.
QueuedIsPending == \A t \in queue : status[t] \in {"PENDING", "CANCELLED"}

\* A SCHEDULED task has a run that will write what becomes of it.
ScheduledIsAttended ==
    \A t \in Task :
        status[t] = "SCHEDULED" =>
            \E s \in Slot : /\ runs[s].task = t
                            /\ runs[s].pc \in {"post", "running", "answered", "failed"}

\* A task that was retried has failed for good, or was cancelled: it never runs
\* on beside its retry.
RetriedIsOver ==
    \A t, c \in Task : retryOf[c] = t => status[t] \in {"FAILED", "CANCELLED"}

\* Every task leaves the queue, whatever tasks are cancelled ahead of it.
QueuedIsTaken == \A t \in Task : t \in queue ~> t \notin queue

=============================================================================
