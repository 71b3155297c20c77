---------------------------- MODULE ClientCalls -----------------------------
(***************************************************************************)
(* How the dashboard sends work to nodes: breakers, retries, its queue and *)
(* its cluster scheduler. They share nothing; each has its own initial     *)
(* states, next-state relation and properties.                             *)
(***************************************************************************)
EXTENDS Integers, SequencesExt

(***************************************************************************)
(* src/lib/circuit-breaker.ts: the breaker that guards the calls to a      *)
(* node.                                                                   *)
(*                                                                         *)
(* Calls end in any order, also those that were admitted in an earlier     *)
(* state.  The delay of an open breaker may end at any time.  `failures`   *)
(* is only compared with the threshold and is kept at it.                  *)
(***************************************************************************)

CONSTANTS
    Call,
    failureThreshold, successThreshold, halfOpenMaxCalls

VARIABLES
    breakerState, failures, successes, halfOpenCalls,
    breakerElapsed, \* whether Date.now() has reached nextAttempt
    breakerRunning, \* calls under way
    trials         \* history: those of them that this half-open period admitted

breakerVars == <<breakerState, failures, successes, halfOpenCalls, breakerElapsed, breakerRunning, trials>>

BreakerInit ==
    /\ breakerState = "closed"
    /\ failures = 0 /\ successes = 0 /\ halfOpenCalls = 0
    /\ breakerElapsed = TRUE
    /\ breakerRunning = {} /\ trials = {}

\* An open breaker whose delay is over turns half-open for the call.
breakerExecute(c) ==
    LET turns == breakerState = "open" /\ breakerElapsed
        half  == turns \/ breakerState = "half-open"
        used  == IF turns THEN 0 ELSE halfOpenCalls
    IN  /\ c \notin breakerRunning
        /\ breakerState # "open" \/ turns
        /\ half => used < halfOpenMaxCalls
        /\ breakerState' = IF turns THEN "half-open" ELSE breakerState
        /\ halfOpenCalls' = IF half THEN used + 1 ELSE used
        /\ successes' = IF turns THEN 0 ELSE successes
        /\ breakerRunning' = breakerRunning \cup {c}
        /\ trials' = (IF turns THEN {} ELSE trials) \cup (IF half THEN {c} ELSE {})
        /\ UNCHANGED <<failures, breakerElapsed>>

open ==
    /\ breakerState' = "open"
    /\ breakerElapsed' = FALSE
    /\ halfOpenCalls' = 0 /\ successes' = 0

close ==
    /\ breakerState' = "closed"
    /\ failures' = 0 /\ successes' = 0 /\ halfOpenCalls' = 0
    /\ breakerElapsed' = TRUE

Ended(c) ==
    /\ c \in breakerRunning
    /\ breakerRunning' = breakerRunning \ {c}
    /\ trials' = trials \ {c}

onSuccess(c) ==
    /\ Ended(c)
    /\ IF breakerState = "half-open"
       THEN IF successes + 1 >= successThreshold
            THEN close
            ELSE /\ successes' = successes + 1
                 /\ failures' = 0
                 /\ UNCHANGED <<breakerState, halfOpenCalls, breakerElapsed>>
       ELSE failures' = 0 /\ UNCHANGED <<breakerState, successes, halfOpenCalls, breakerElapsed>>

More == IF failures < failureThreshold THEN failures + 1 ELSE failures

Opens == breakerState = "half-open" \/ More >= failureThreshold

onFailure(c) ==
    /\ Ended(c)
    /\ failures' = More
    /\ IF Opens THEN open ELSE UNCHANGED <<breakerState, successes, halfOpenCalls, breakerElapsed>>

breakerTimeout ==
    /\ breakerState = "open" /\ ~breakerElapsed
    /\ breakerElapsed' = TRUE
    /\ UNCHANGED <<breakerState, failures, successes, halfOpenCalls, breakerRunning, trials>>

forceOpen == open /\ UNCHANGED <<failures, breakerRunning, trials>>

forceClose == close /\ UNCHANGED <<breakerRunning, trials>>

BreakerNext ==
    \/ \E c \in Call : breakerExecute(c) \/ onSuccess(c) \/ onFailure(c)
    \/ breakerTimeout \/ forceOpen \/ forceClose

BreakerSpec == BreakerInit /\ [][BreakerNext]_breakerVars

BreakerTypeOK ==
    /\ breakerState \in {"closed", "open", "half-open"}
    /\ failures \in 0..failureThreshold
    /\ halfOpenCalls \in 0..halfOpenMaxCalls
    /\ trials \subseteq breakerRunning

\* A half-open breaker that admits no more has trials under way, whose ends will close or open it:
\* nothing else would, and it would refuse every call from then on.  With late answers counted as
\* those of trials this is not obvious.  It needs successThreshold <= halfOpenMaxCalls.
HalfOpenIsWaiting ==
    (breakerState = "half-open" /\ halfOpenCalls >= halfOpenMaxCalls) => trials # {}

-----------------------------------------------------------------------------
(***************************************************************************)
(* src/lib/retry.ts: operations that are tried again after errors that may *)
(* pass, behind a breaker of their own.                                    *)
(*                                                                         *)
(* A call asks the breaker once and reports once, after its last attempt.  *)
(* Delays are left out.  failureCount is only compared with the threshold  *)
(* and is kept at it.                                                      *)
(***************************************************************************)

CONSTANT
    maxAttempts

VARIABLES
    retriesState, failureCount, successCount,
    retriesElapsed, \* whether Date.now() has reached nextAttemptTime
    attempt,        \* attempt[c]: the attempt under way, 0 when there is none
    waiting,        \* calls that sleep before their next attempt
    fatal           \* history: calls whose last error was not retryable

retriesVars == <<retriesState, failureCount, successCount, retriesElapsed, attempt, waiting, fatal>>

RetriesInit ==
    /\ retriesState = "CLOSED"
    /\ failureCount = 0 /\ successCount = 0
    /\ retriesElapsed = TRUE
    /\ attempt = [c \in Call |-> 0]
    /\ waiting = {} /\ fatal = {}

\* HALF_OPEN admits any number of calls.
executeWithCircuitBreaker(c) ==
    /\ attempt[c] = 0
    /\ retriesState = "OPEN" => retriesElapsed
    /\ attempt' = [attempt EXCEPT ![c] = 1]
    /\ fatal' = fatal \ {c}
    /\ IF retriesState = "OPEN" THEN retriesState' = "HALF_OPEN" /\ successCount' = 0 ELSE UNCHANGED <<retriesState, successCount>>
    /\ UNCHANGED <<failureCount, retriesElapsed, waiting>>

AfterSuccess == 0

recordSuccess ==
    LET closes == retriesState = "HALF_OPEN" /\ successCount + 1 >= successThreshold
    IN  /\ failureCount' = AfterSuccess
        /\ retriesState' = IF closes THEN "CLOSED" ELSE retriesState
        /\ successCount' = IF closes THEN 0 ELSE IF retriesState = "HALF_OPEN" THEN successCount + 1 ELSE successCount
        /\ UNCHANGED retriesElapsed

\* A failure that comes late, when the breaker is open, makes it wait again.
recordFailure ==
    LET count == IF failureCount < failureThreshold THEN failureCount + 1 ELSE failureCount
        opens == retriesState = "HALF_OPEN" \/ count >= failureThreshold
    IN  /\ failureCount' = count
        /\ retriesState' = IF opens THEN "OPEN" ELSE retriesState
        /\ retriesElapsed' = IF opens THEN FALSE ELSE retriesElapsed
        /\ UNCHANGED successCount

retriesSuccess(c) ==
    /\ attempt[c] > 0 /\ c \notin waiting
    /\ attempt' = [attempt EXCEPT ![c] = 0]
    /\ recordSuccess
    /\ UNCHANGED <<waiting, fatal>>

MayRetry(c, retryable) == retryable /\ attempt[c] < maxAttempts

retriesFailure(c, retryable) ==
    /\ attempt[c] > 0 /\ c \notin waiting
    /\ fatal' = IF retryable THEN fatal ELSE fatal \cup {c}
    /\ IF MayRetry(c, retryable)
       THEN waiting' = waiting \cup {c} /\ UNCHANGED <<retriesState, failureCount, successCount, retriesElapsed, attempt>>
       ELSE /\ attempt' = [attempt EXCEPT ![c] = 0]
            /\ recordFailure
            /\ UNCHANGED waiting

retriesExecute(c) ==
    /\ c \in waiting
    /\ waiting' = waiting \ {c}
    /\ attempt' = [attempt EXCEPT ![c] = @ + 1]
    /\ UNCHANGED <<retriesState, failureCount, successCount, retriesElapsed, fatal>>

retriesTimeout ==
    /\ retriesState = "OPEN" /\ ~retriesElapsed
    /\ retriesElapsed' = TRUE
    /\ UNCHANGED <<retriesState, failureCount, successCount, attempt, waiting, fatal>>

RetriesNext ==
    \/ \E c \in Call :
        \/ executeWithCircuitBreaker(c) \/ retriesSuccess(c) \/ retriesExecute(c)
        \/ \E retryable \in BOOLEAN : retriesFailure(c, retryable)
    \/ retriesTimeout

RetriesSpec == RetriesInit /\ [][RetriesNext]_retriesVars

RetriesTypeOK ==
    /\ retriesState \in {"CLOSED", "OPEN", "HALF_OPEN"}
    /\ failureCount \in 0..failureThreshold /\ successCount \in 0..successThreshold
    /\ \A c \in Call : attempt[c] \in Nat

\* A closed breaker has not seen its threshold of failures, whatever calls of earlier states
\* reported late: otherwise the first failure after a recovery would open it.
ClosedIsBelow == retriesState = "CLOSED" => failureCount < failureThreshold

\* No call makes more attempts than it is given, and none after an error that will not pass.
AttemptsEnd == \A c \in Call : attempt[c] <= maxAttempts /\ (c \in fatal => attempt[c] = 0)

-----------------------------------------------------------------------------
(***************************************************************************)
(* src/lib/task-queue.ts: a queue ordered by class and age, a number of    *)
(* tasks processed at once, and retries after a delay.                     *)
(*                                                                         *)
(* Priorities are computed when a task is queued and when the queue is     *)
(* ordered anew, not in between.  weight is the distance of two classes    *)
(* and maxBonus what age adds at most: 25 and 10 in the source.            *)
(***************************************************************************)

CONSTANTS
    Id, Class,           \* classes are numbers, the higher the more urgent
    weight, maxBonus,
    maxConcurrent, queueRetries,
    QueueHorizon, MaxEnqueues

VARIABLES
    now,
    queue,           \* id, class, priority, submittedAt and retryCount of the waiting tasks
    processing,      \* ids that are processed
    queueRunning,    \* the entries they were taken from
    delayed,         \* entries that wait for their retry
    enqueues         \* bound: calls of enqueue()

queueVars == <<now, queue, processing, queueRunning, delayed, enqueues>>

QueueInit ==
    /\ now = 0
    /\ queue = <<>>
    /\ processing = {} /\ queueRunning = {} /\ delayed = {}
    /\ enqueues = 0

Bonus(age) == IF age < maxBonus THEN age ELSE maxBonus

calculatePriority(class, submittedAt) == class * weight + Bonus(now - submittedAt)

Reordered(q) ==
    SortSeq([i \in DOMAIN q |-> [q[i] EXCEPT !.priority = calculatePriority(q[i].class, q[i].submittedAt)]],
            LAMBDA a, b : a.priority > b.priority)

\* Before the first that is less urgent.
Inserted(q, e) ==
    LET n == Len(SelectSeq(q, LAMBDA x : x.priority >= e.priority)) + 1
        less == {i \in DOMAIN q : q[i].priority < e.priority}
        at == IF less = {} THEN n ELSE CHOOSE i \in less : \A j \in less : i <= j
    IN  InsertAt(q, at, e)

Room(ids) == Cardinality(ids) < maxConcurrent

\* The first is taken if there is room; a task that is processed does not count twice.
processQueue(q, ids, entries) ==
    IF q # <<>> /\ Room(ids)
    THEN queue' = Tail(q) /\ processing' = ids \cup {Head(q).id} /\ queueRunning' = entries \cup {Head(q)}
    ELSE queue' = q /\ processing' = ids /\ queueRunning' = entries

\* A task that waits is only updated.
enqueue(id, class, submittedAt) ==
    /\ enqueues < MaxEnqueues
    /\ enqueues' = enqueues + 1
    /\ IF \E i \in DOMAIN queue : queue[i].id = id
       THEN /\ LET i == CHOOSE j \in DOMAIN queue : queue[j].id = id /\ \A k \in 1..(j - 1) : queue[k].id # id
               IN  queue' = Reordered([queue EXCEPT ![i].class = class, ![i].submittedAt = submittedAt])
            /\ UNCHANGED <<processing, queueRunning>>
       ELSE processQueue(Inserted(queue, [id |-> id, class |-> class, submittedAt |-> submittedAt, retryCount |-> 0,
                                          priority |-> calculatePriority(class, submittedAt)]),
                         processing, queueRunning)
    /\ UNCHANGED <<now, delayed>>

queueSuccess(e) ==
    /\ e \in queueRunning
    /\ processQueue(queue, processing \ {e.id}, queueRunning \ {e})
    /\ UNCHANGED <<now, delayed, enqueues>>

queueFailure(e) ==
    /\ e \in queueRunning
    /\ delayed' = IF e.retryCount < queueRetries THEN delayed \cup {[e EXCEPT !.retryCount = @ + 1]} ELSE delayed
    /\ processQueue(queue, processing \ {e.id}, queueRunning \ {e})
    /\ UNCHANGED <<now, enqueues>>

\* The queue is ordered; nothing is started.
retry(e) ==
    /\ e \in delayed
    /\ delayed' = delayed \ {e}
    /\ queue' = Reordered(Append(queue, e))
    /\ UNCHANGED <<now, processing, queueRunning, enqueues>>

dequeue ==
    /\ queue # <<>>
    /\ queue' = Tail(queue)
    /\ UNCHANGED <<now, processing, queueRunning, delayed, enqueues>>

remove(id) ==
    /\ \E i \in DOMAIN queue :
          /\ queue[i].id = id /\ \A k \in 1..(i - 1) : queue[k].id # id
          /\ queue' = RemoveAt(queue, i)
    /\ UNCHANGED <<now, processing, queueRunning, delayed, enqueues>>

queueTick == now < QueueHorizon /\ now' = now + 1 /\ UNCHANGED <<queue, processing, queueRunning, delayed, enqueues>>

QueueNext ==
    \/ \E id \in Id : remove(id) \/ \E class \in Class, t \in 0..now : enqueue(id, class, t)
    \/ \E e \in queueRunning : queueSuccess(e) \/ queueFailure(e)
    \/ \E e \in delayed : retry(e)
    \/ dequeue \/ queueTick

QueueSpec == QueueInit /\ [][QueueNext]_queueVars

QueueTypeOK ==
    /\ now \in 0..QueueHorizon
    /\ processing \subseteq Id
    /\ Cardinality(processing) <= maxConcurrent

\* Nothing waits before a task of a more urgent class, whatever its age, its retries and the moment
\* its priority was computed at.
UrgentStartsFirst == \A i, j \in DOMAIN queue : i < j => queue[i].class >= queue[j].class

-----------------------------------------------------------------------------
(***************************************************************************)
(* src/lib/scheduler/SchedulerService.ts over src/lib/clustering.ts: tasks *)
(* of a queue go to nodes that send heartbeats, or to the cloud.           *)
(*                                                                         *)
(* Nodes are described to the policies by constants, so that any healthy   *)
(* one may be the best, and the cloud is chosen only when there is none.   *)
(***************************************************************************)

CONSTANTS
    Node, Task,
    nodeTimeout, heartbeatInterval      \* in ticks

VARIABLES
    isRunning,
    queued,          \* the queue; its order decides nothing here
    node,            \* node[n]: registered, healthy, age of the heartbeat
    taskDistribution,     \* tasks assigned to each node since it was registered
    sinceCheck,
    placed           \* placed[t]: target and, for a node, the age of its heartbeat then

clusterVars == <<isRunning, queued, node, taskDistribution, sinceCheck, placed>>

Unregistered == [registered |-> FALSE, healthy |-> FALSE, age |-> 0]
Unplaced == [target |-> "none", age |-> 0]
ClusterHorizon == nodeTimeout + heartbeatInterval + 1 \* ages beyond it are all the same

ClusterInit ==
    /\ isRunning = FALSE
    /\ queued = {}
    /\ node = [n \in Node |-> Unregistered]
    /\ taskDistribution = [n \in Node |-> 0]
    /\ sinceCheck = 0
    /\ placed = [t \in Task |-> Unplaced]

start(running) ==
    /\ isRunning # running
    /\ isRunning' = running
    /\ UNCHANGED <<queued, node, taskDistribution, sinceCheck, placed>>

submitTask(t) ==
    /\ t \notin queued /\ placed[t] = Unplaced
    /\ queued' = queued \cup {t}
    /\ UNCHANGED <<isRunning, node, taskDistribution, sinceCheck, placed>>

\* Again for a node that is there: what it was assigned is forgotten.
registerNode(n) ==
    /\ node' = [node EXCEPT ![n] = [registered |-> TRUE, healthy |-> TRUE, age |-> 0]]
    /\ taskDistribution' = [taskDistribution EXCEPT ![n] = 0]
    /\ UNCHANGED <<isRunning, queued, sinceCheck, placed>>

unregisterNode(n) ==
    /\ node[n].registered
    /\ node' = [node EXCEPT ![n] = Unregistered]
    /\ taskDistribution' = [taskDistribution EXCEPT ![n] = 0]
    /\ UNCHANGED <<isRunning, queued, sinceCheck, placed>>

updateHeartbeat(n) ==
    /\ node[n].registered
    /\ node' = [node EXCEPT ![n].healthy = TRUE, ![n].age = 0]
    /\ UNCHANGED <<isRunning, queued, taskDistribution, sinceCheck, placed>>

Healthy == {n \in Node : node[n].registered /\ node[n].healthy}

Late(n) == node[n].age > nodeTimeout

checkNodeHealth ==
    /\ sinceCheck = heartbeatInterval
    /\ sinceCheck' = 0
    /\ node' = [n \in Node |-> IF node[n].registered /\ Late(n) THEN [node[n] EXCEPT !.healthy = FALSE] ELSE node[n]]
    /\ UNCHANGED <<isRunning, queued, taskDistribution, placed>>

\* A task of a batch of processQueue().
scheduleTask(t) ==
    /\ isRunning /\ t \in queued
    /\ queued' = queued \ {t}
    /\ \/ /\ Healthy = {}
          /\ placed' = [placed EXCEPT ![t] = [target |-> "cloud", age |-> 0]]
          /\ UNCHANGED taskDistribution
       \/ \E n \in Healthy :
             /\ placed' = [placed EXCEPT ![t] = [target |-> n, age |-> node[n].age]]
             /\ taskDistribution' = [taskDistribution EXCEPT ![n] = @ + 1]
    /\ UNCHANGED <<isRunning, node, sinceCheck>>

clusterTick ==
    /\ sinceCheck < heartbeatInterval
    /\ sinceCheck' = sinceCheck + 1
    /\ node' = [n \in Node |-> IF node[n].registered /\ node[n].age < ClusterHorizon THEN [node[n] EXCEPT !.age = @ + 1] ELSE node[n]]
    /\ UNCHANGED <<isRunning, queued, taskDistribution, placed>>

ClusterNext ==
    \/ \E running \in BOOLEAN : start(running)
    \/ \E t \in Task : submitTask(t) \/ scheduleTask(t)
    \/ \E n \in Node : registerNode(n) \/ unregisterNode(n) \/ updateHeartbeat(n)
    \/ checkNodeHealth \/ clusterTick

ClusterSpec == ClusterInit /\ [][ClusterNext]_clusterVars

ClusterTypeOK ==
    /\ queued \subseteq Task
    /\ \A n \in Node : node[n].age \in 0..ClusterHorizon /\ taskDistribution[n] \in Nat
    /\ sinceCheck \in 0..heartbeatInterval

\* A task goes to a node that was heard of not longer ago than a timeout and one round of checks.
AssignedWasAlive == \A t \in Task : placed[t].age <= nodeTimeout + heartbeatInterval

=============================================================================
