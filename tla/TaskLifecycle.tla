--------------------------- MODULE TaskLifecycle ----------------------------
(***************************************************************************)
(* The life of a task beside its scheduler: the saga that takes it from    *)
(* submission to completion, and the routes that create, cancel and retry  *)
(* it. They share nothing; each has its own initial states, next-state     *)
(* relation and properties.                                                *)
(***************************************************************************)
EXTENDS Naturals, FiniteSets

(***************************************************************************)
(* backend/src/sagas/task-lifecycle-saga.ts: the five steps of the sagas   *)
(* of several tasks over shared nodes, and their compensations.            *)
(*                                                                         *)
(* The engine (SagaOrchestrator) runs the steps of a saga one by one and   *)
(* compensates those that succeeded, latest first.  A step that exceeds    *)
(* its timeout counts as failed and goes on by itself: a reservation may   *)
(* appear behind the end of its saga.  The saga of a node that takes more  *)
(* than it may is what the transaction of ReserveResources is for.         *)
(***************************************************************************)

CONSTANTS SagaTask, Node, maxTasks, reservable \* reservable: 10, the filter of the query

VARIABLES
    sagaOf,        \* sagaOf[t]: where the saga of t is, and its node
    taskStatus, execution,
    tasksRunning,  \* tasksRunning[n]: the counter in the row of n
    late           \* reservations of steps that timed out, still under way

sagaVars == <<sagaOf, taskStatus, execution, tasksRunning, late>>

CONSTANT NoNode

SagaInit ==
    /\ sagaOf = [t \in SagaTask |-> [pc |-> "validate", node |-> NoNode, read |-> 0]]
    /\ taskStatus = [t \in SagaTask |-> "PENDING"]
    /\ execution = [t \in SagaTask |-> "none"]
    /\ tasksRunning = [n \in Node |-> 0]
    /\ late = {}

At(t, pc) == sagaOf[t].pc = pc
MoveOn(t, pc) == sagaOf' = [sagaOf EXCEPT ![t].pc = pc]

validateTask(t) ==
    /\ At(t, "validate")
    /\ MoveOn(t, IF taskStatus[t] = "PENDING" THEN "find" ELSE "compensated")
    /\ UNCHANGED <<taskStatus, execution, tasksRunning, late>>

\* The least loaded node, as the query saw it.
findNode(t) ==
    /\ At(t, "find")
    /\ LET free == {n \in Node : tasksRunning[n] < reservable}
       IN  \/ free = {} /\ MoveOn(t, "compensated")
           \/ \E n \in free :
                 /\ \A m \in free : tasksRunning[n] <= tasksRunning[m]
                 /\ sagaOf' = [sagaOf EXCEPT ![t] = [pc |-> "reserve", node |-> n,
                                                     read |-> tasksRunning[n]]]
    /\ UNCHANGED <<taskStatus, execution, tasksRunning, late>>

Fits(n) == tasksRunning[n] + 1 <= maxTasks

\* Mutant: the count that the query read, and one more.
mreserveResources(t) ==
    /\ At(t, "reserve")
    /\ LET n == sagaOf[t].node
       IN  IF sagaOf[t].read < maxTasks
           THEN MoveOn(t, "schedule") /\ tasksRunning' = [tasksRunning EXCEPT ![n] = sagaOf[t].read + 1]
           ELSE MoveOn(t, "compensated") /\ UNCHANGED tasksRunning
    /\ UNCHANGED <<taskStatus, execution, late>>

\* One transaction: an increment that exceeds maxTasks is rolled back.
reserveResources(t) ==
    /\ At(t, "reserve")
    /\ LET n == sagaOf[t].node
       IN  IF Fits(n)
           THEN MoveOn(t, "schedule") /\ tasksRunning' = [tasksRunning EXCEPT ![n] = @ + 1]
           ELSE MoveOn(t, "compensated") /\ UNCHANGED tasksRunning
    /\ UNCHANGED <<taskStatus, execution, late>>

\* The step exceeds its 10 s: the saga ends, the transaction does not.
reserveTimesOut(t) ==
    /\ At(t, "reserve") /\ MoveOn(t, "compensated")
    /\ late' = late \cup {t}
    /\ UNCHANGED <<taskStatus, execution, tasksRunning>>

reserveLate(t) ==
    /\ t \in late /\ late' = late \ {t}
    /\ LET n == sagaOf[t].node
       IN  tasksRunning' = IF Fits(n) THEN [tasksRunning EXCEPT ![n] = @ + 1] ELSE tasksRunning
    /\ UNCHANGED <<sagaOf, taskStatus, execution>>

\* The task's row, then a row for the execution; a step that fails is not compensated itself.
scheduleTask(t) ==
    /\ At(t, "schedule")
    /\ taskStatus' = [taskStatus EXCEPT ![t] = "SCHEDULED"]
    /\ \/ MoveOn(t, "execute") /\ execution' = [execution EXCEPT ![t] = "SCHEDULED"]
       \/ MoveOn(t, "release") /\ UNCHANGED execution
    /\ UNCHANGED <<tasksRunning, late>>

\* RUNNING in both rows, then the call of the agent, which runs the task or fails.
executeTask(t) ==
    /\ At(t, "execute")
    /\ taskStatus' = [taskStatus EXCEPT ![t] = "RUNNING"]
    /\ execution' = [execution EXCEPT ![t] = "RUNNING"]
    /\ \E pc \in {"complete", "unschedule"} : MoveOn(t, pc)
    /\ UNCHANGED <<tasksRunning, late>>

\* Both rows, then the event; whatever throws, ExecuteTask is the first to be compensated.
completeTask(t) ==
    /\ At(t, "complete")
    /\ taskStatus' = [taskStatus EXCEPT ![t] = "COMPLETED"]
    /\ \/ execution' = [execution EXCEPT ![t] = "COMPLETED"] /\ \E pc \in {"done", "cancel"} : MoveOn(t, pc)
       \/ UNCHANGED execution /\ MoveOn(t, "cancel")
    /\ UNCHANGED <<tasksRunning, late>>

\* The cancel request may fail unseen.
compensateExecute(t) ==
    /\ At(t, "cancel") /\ MoveOn(t, "unschedule")
    /\ execution' = [execution EXCEPT ![t] = IF @ = "RUNNING" THEN "CANCELLED" ELSE @]
    /\ UNCHANGED <<taskStatus, tasksRunning, late>>

compensateSchedule(t) ==
    /\ At(t, "unschedule") /\ MoveOn(t, "release")
    /\ taskStatus' = [taskStatus EXCEPT ![t] = "PENDING"]
    /\ execution' = [execution EXCEPT ![t] = IF @ = "SCHEDULED" THEN "CANCELLED" ELSE @]
    /\ UNCHANGED <<tasksRunning, late>>

compensateReserve(t) ==
    /\ At(t, "release") /\ MoveOn(t, "compensated")
    /\ LET n == sagaOf[t].node
       IN  tasksRunning' = IF tasksRunning[n] > 0 THEN [tasksRunning EXCEPT ![n] = @ - 1]
                           ELSE tasksRunning
    /\ UNCHANGED <<taskStatus, execution, late>>

\* A compensation that throws is recorded, and the next one runs.
skipCompensation(t) ==
    /\ \/ At(t, "cancel") /\ MoveOn(t, "unschedule")
       \/ At(t, "unschedule") /\ MoveOn(t, "release")
       \/ At(t, "release") /\ MoveOn(t, "compensated")
    /\ UNCHANGED <<taskStatus, execution, tasksRunning, late>>

SagaNext == \E t \in SagaTask :
    \/ validateTask(t) \/ findNode(t) \/ reserveResources(t) \/ reserveTimesOut(t) \/ reserveLate(t)
    \/ scheduleTask(t) \/ executeTask(t) \/ completeTask(t)
    \/ compensateExecute(t) \/ compensateSchedule(t) \/ compensateReserve(t) \/ skipCompensation(t)

SagaSpec == SagaInit /\ [][SagaNext]_sagaVars

SagaTypeOK ==
    /\ \A t \in SagaTask :
          /\ sagaOf[t].pc \in {"validate", "find", "reserve", "schedule", "execute", "complete",
                               "cancel", "unschedule", "release", "done", "compensated"}
          /\ sagaOf[t].node \in Node \cup {NoNode} /\ sagaOf[t].read \in Nat
          /\ taskStatus[t] \in {"PENDING", "SCHEDULED", "RUNNING", "COMPLETED"}
          /\ execution[t] \in {"none", "SCHEDULED", "RUNNING", "COMPLETED", "CANCELLED"}
    /\ late \subseteq SagaTask

Reserving(n) == {t \in SagaTask : sagaOf[t].node = n
    /\ sagaOf[t].pc \in {"schedule", "execute", "complete", "cancel", "unschedule", "release", "done"}}

\* Sagas that reserve, compensate and time out beside each other never take more of a node
\* than maxTasks, and its counter never forgets a saga that holds a place on it.
ReservationsAreCounted ==
    \A n \in Node : /\ Cardinality(Reserving(n)) <= tasksRunning[n]
                    /\ tasksRunning[n] <= maxTasks

-----------------------------------------------------------------------------
(***************************************************************************)
(* backend/src/routes/tasks-lifecycle.ts: creating, cancelling and         *)
(* retrying tasks beside the queue of the scheduler, which other processes *)
(* work off.  Nodes, execution logs and the routes that only read are left *)
(* out; priorities are, too: the scheduler takes any task of the queue.    *)
(***************************************************************************)

CONSTANTS
    Create, Retry, Cancel,  \* calls of the three routes; the first two name the task they create
    maxRetries

RoutesTask == Create \cup Retry
NoTask == 0
Cancellable == {"PENDING", "SCHEDULED", "RUNNING"}
Retryable == {"FAILED", "CANCELLED", "TIMEOUT"}

VARIABLES
    status,      \* of the row of a task; "none": no row
    executions,  \* executions[t]: its rows, and whether one is open; only these routes write them
    queue,
    adding,      \* adding[t]: where the call is that creates t
    original,    \* original[t]: the task that t retries
    cancels,     \* task, the status that was read, whether an execution was open, and
                 \* late: the task had been answered as created before the call
    taken, out   \* the task that the scheduler looks at; it took the task out of the queue

routesVars == <<status, executions, queue, adding, original, cancels, taken, out>>

RoutesInit ==
    /\ status = [t \in RoutesTask |-> "none"]
    /\ executions = [t \in RoutesTask |-> [count |-> 0, open |-> FALSE]]
    /\ queue = {}
    /\ adding = [t \in RoutesTask |-> "idle"] /\ original = [t \in Retry |-> NoTask]
    /\ cancels = [c \in Cancel |-> [pc |-> "idle", task |-> NoTask, was |-> "none",
                                    open |-> FALSE, late |-> FALSE]]
    /\ taken = NoTask /\ out = FALSE

\* POST / and POST /:id/retry

Insert(t) ==
    /\ status' = [status EXCEPT ![t] = "PENDING"]
    /\ executions' = [executions EXCEPT ![t] = [count |-> 1, open |-> TRUE]]

\* The node that is asked for is ONLINE, or no row is created.
create(t) ==
    /\ adding[t] = "idle"
    /\ \/ adding' = [adding EXCEPT ![t] = "refused"] /\ UNCHANGED <<status, executions>>
       \/ adding' = [adding EXCEPT ![t] = "created"] /\ Insert(t)
    /\ UNCHANGED <<queue, original, cancels, taken, out>>

\* The first read of the retry, and its refusal.
findOriginal(t, o) ==
    /\ adding[t] = "idle" /\ status[o] # "none" /\ o # t
    /\ adding' = [adding EXCEPT ![t] = IF status[o] \in Retryable THEN "found" ELSE "refused"]
    /\ original' = [original EXCEPT ![t] = o]
    /\ UNCHANGED <<status, executions, queue, cancels, taken, out>>

\* The executions that are counted are those of the original alone.
countExecutions(t) ==
    /\ adding[t] = "found"
    /\ adding' = [adding EXCEPT ![t] =
           IF executions[original[t]].count >= maxRetries THEN "refused" ELSE "counted"]
    /\ UNCHANGED <<status, executions, queue, original, cancels, taken, out>>

\* It has one execution, whatever its attemptNumber is.
createRetry(t) ==
    /\ adding[t] = "counted"
    /\ adding' = [adding EXCEPT ![t] = "created"]
    /\ Insert(t)
    /\ UNCHANGED <<queue, original, cancels, taken, out>>

\* The row is not looked at again.
enqueue(t) ==
    /\ adding[t] = "created"
    /\ queue' = queue \cup {t}
    /\ adding' = [adding EXCEPT ![t] = "answered"]
    /\ UNCHANGED <<status, executions, original, cancels, taken, out>>

\* POST /:id/cancel

findTask(c, t) ==
    /\ cancels[c].pc = "idle" /\ status[t] # "none"
    /\ cancels' = [cancels EXCEPT ![c] =
           [pc |-> IF status[t] \in Cancellable THEN "found" ELSE "refused", task |-> t,
            was |-> status[t], open |-> executions[t].open, late |-> adding[t] = "answered"]]
    /\ UNCHANGED <<status, executions, queue, adding, original, taken, out>>

\* $transaction of both updates, whatever the row holds by now.  Without an open
\* execution its second member is null, and it throws.
cancelTask(c) ==
    LET k == cancels[c]
        t == k.task
    IN  /\ k.pc = "found"
        /\ IF k.open
           THEN /\ status' = [status EXCEPT ![t] = "CANCELLED"]
                /\ executions' = [executions EXCEPT ![t].open = FALSE]
                /\ cancels' = [cancels EXCEPT ![c].pc = "cancelled"]
           ELSE /\ cancels' = [cancels EXCEPT ![c].pc = "failed"]
                /\ UNCHANGED <<status, executions>>
        /\ UNCHANGED <<queue, adding, original, taken, out>>

\* A task that was RUNNING is killed on its node, if that can be reached; one that was
\* PENDING is taken out of the queue.
leaveQueue(c) ==
    /\ cancels[c].pc = "cancelled"
    /\ queue' = IF cancels[c].was = "PENDING" THEN queue \ {cancels[c].task} ELSE queue
    /\ cancels' = [cancels EXCEPT ![c].pc = "answered"]
    /\ UNCHANGED <<status, executions, adding, original, taken, out>>

\* The scheduler (task-scheduler.ts), which knows no executions

\* A task that is not PENDING is dropped from the queue.
look(t) ==
    /\ taken = NoTask /\ t \in queue
    /\ IF status[t] = "PENDING" THEN taken' = t /\ UNCHANGED queue
                                ELSE queue' = queue \ {t} /\ UNCHANGED taken
    /\ UNCHANGED <<status, executions, adding, original, cancels, out>>

\* No node: the task stays where it is.  Otherwise it leaves the queue ...
place ==
    /\ taken # NoTask /\ ~out
    /\ \/ taken' = NoTask /\ UNCHANGED <<queue, out>>
       \/ queue' = queue \ {taken} /\ out' = TRUE /\ UNCHANGED taken
    /\ UNCHANGED <<status, executions, adding, original, cancels>>

\* ... and its row is overwritten; failures of the scheduler are those of TaskScheduler.
assignTask ==
    /\ out
    /\ status' = [status EXCEPT ![taken] = "RUNNING"]
    /\ taken' = NoTask /\ out' = FALSE
    /\ UNCHANGED <<executions, queue, adding, original, cancels>>

finish(t) ==
    /\ status[t] = "RUNNING"
    /\ \E s \in {"COMPLETED", "FAILED"} : status' = [status EXCEPT ![t] = s]
    /\ UNCHANGED <<executions, queue, adding, original, cancels, taken, out>>

RoutesNext ==
    \/ \E t \in Create : create(t)
    \/ \E t \in Retry : countExecutions(t) \/ createRetry(t) \/ \E o \in RoutesTask : findOriginal(t, o)
    \/ \E t \in RoutesTask : enqueue(t) \/ look(t) \/ finish(t)
    \/ \E c \in Cancel : cancelTask(c) \/ leaveQueue(c) \/ \E t \in RoutesTask : findTask(c, t)
    \/ place \/ assignTask

RoutesSpec == RoutesInit /\ [][RoutesNext]_routesVars

\* Properties

RoutesTypeOK ==
    /\ status \in [RoutesTask -> {"none", "PENDING", "RUNNING", "COMPLETED", "FAILED", "CANCELLED"}]
    /\ queue \subseteq RoutesTask /\ taken \in RoutesTask \cup {NoTask} /\ (out => taken # NoTask)
    /\ \A t \in RoutesTask : executions[t].count \in 0..1

\* A task that was answered as created waits in the queue until the scheduler takes it or a
\* call cancels it (tasks-lifecycle.ts:193-219), whatever calls go on beside it.
AnsweredIsQueued ==
    \A t \in RoutesTask : adding[t] = "answered" /\ status[t] = "PENDING" => t \in queue \/ (t = taken /\ out)

\* A call that cancels a waiting task whose creation had been answered leaves it out of the
\* queue for good (tasks-lifecycle.ts:544-546).
CancelledLeavesQueue ==
    \A c \in Cancel : cancels[c].pc = "answered" /\ cancels[c].was = "PENDING" /\ cancels[c].late
                      => cancels[c].task \notin queue

\* What a task ended with is overwritten by a cancellation alone, never by a retry.
ResultsStay ==
    [][\A t \in RoutesTask : status[t] \in {"COMPLETED", "FAILED"} => status'[t] \in {status[t], "CANCELLED"}]_routesVars

=============================================================================
