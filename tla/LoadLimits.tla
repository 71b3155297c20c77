----------------------------- MODULE LoadLimits -----------------------------
(***************************************************************************)
(* What keeps the load within limits: queues by priority, rate limits of   *)
(* the schedulers, and the levels of load. They share nothing; each has    *)
(* its own initial states, next-state relation and properties.             *)
(***************************************************************************)
EXTENDS Integers, Sequences, FiniteSets

(***************************************************************************)
(* backend/src/services/priority-scheduler.ts: the queues in Redis, their  *)
(* ageing, and calls that take batches, promote and cancel.                *)
(*                                                                         *)
(* A member of a queue is the text of its task.  Ageing changes the text   *)
(* and so adds a member beside the old one; promotion and cancellation     *)
(* remove the text that submitTask() or the last promotion stored.  The    *)
(* scores inside a queue (boost, deadline) are any order.                  *)
(***************************************************************************)

CONSTANTS
    Task, Taker, Batch,  \* Batch: the batch sizes that are asked for
    Given,               \* the priorities that submitTask() and promoteTask() are called with
    MaxBoost             \* bound on the boosts that ageing reaches

PriorityPriority == {"CRITICAL", "HIGH", "MEDIUM", "LOW"}
Weight == [CRITICAL |-> 50, HIGH |-> 35, MEDIUM |-> 12, LOW |-> 3]  \* percent

VARIABLES
    queue,      \* members of all queues: task, priority, boost
    stored,     \* stored[t]: the text of t in priority:task:t, a set of at most one member
    takers,     \* takers[k]: getNextBatch(): what it read and did not remove yet, what it returns
    promoting,  \* members on their way from one queue to another
    handed, cancelled  \* history: tasks that were returned by a batch, and cancelled

priorityVars == <<queue, stored, takers, promoting, handed, cancelled>>

Fresh(t, p) == [task |-> t, priority |-> p, boost |-> 0]
Idle == [level |-> "none", size |-> 0, read |-> {}, got |-> {}]

PriorityInit ==
    /\ queue = {} /\ promoting = {} /\ handed = {} /\ cancelled = {}
    /\ stored = [t \in Task |-> {}]
    /\ takers = [k \in Taker |-> Idle]

submitTask(t, p) ==
    /\ stored[t] = {} /\ t \notin handed \cup cancelled
    /\ queue' = queue \cup {Fresh(t, p)}
    /\ stored' = [stored EXCEPT ![t] = {Fresh(t, p)}]
    /\ UNCHANGED <<takers, promoting, handed, cancelled>>

\* What zrange(key, 0, n - 1) may return of a queue whose order is any: -1 is the last place.
Ranges(p, n) ==
    LET members == {m \in queue : m.priority = p}
        size == IF n = 0 \/ n > Cardinality(members) THEN Cardinality(members) ELSE n
    IN  {S \in SUBSET members : Cardinality(S) = size}

\* The places that the rest of the batch leaves to a queue; LOW gets what is left.
Slots(k, p) ==
    LET left == takers[k].size - Cardinality(takers[k].got)
        afterCritical == takers[k].size - Cardinality({m \in takers[k].got : m.priority = "CRITICAL"})
    IN  IF p = "LOW" THEN left ELSE (afterCritical * Weight[p]) \div 100

NextLevel == [none |-> "CRITICAL", CRITICAL |-> "HIGH", HIGH |-> "MEDIUM", MEDIUM |-> "LOW", LOW |-> "end"]

getNextBatch(k, n) ==
    /\ takers[k] = Idle
    /\ \E range \in Ranges("CRITICAL", n) :
          takers' = [takers EXCEPT ![k] = [level |-> "CRITICAL", size |-> n, read |-> range, got |-> {}]]
    /\ UNCHANGED <<queue, stored, promoting, handed, cancelled>>

readQueue(k) ==
    /\ takers[k].level \in {"CRITICAL", "HIGH", "MEDIUM"} /\ takers[k].read = {}
    /\ takers[k].size > Cardinality(takers[k].got)
    /\ LET p == NextLevel[takers[k].level]
       IN  \E range \in Ranges(p, Slots(k, p)) :
              takers' = [takers EXCEPT ![k].level = p, ![k].read = range]
    /\ UNCHANGED <<queue, stored, promoting, handed, cancelled>>

\* A text that is gone by now is returned all the same.
take(k) ==
    /\ \E m \in takers[k].read :
          /\ takers' = [takers EXCEPT ![k].read = @ \ {m}, ![k].got = @ \cup {m}]
          /\ queue' = queue \ {m}
    /\ UNCHANGED <<stored, promoting, handed, cancelled>>

returnBatch(k) ==
    /\ takers[k] # Idle /\ takers[k].read = {}
    /\ takers[k].level = "LOW" \/ takers[k].size <= Cardinality(takers[k].got)
    /\ handed' = handed \cup {m.task : m \in takers[k].got}
    /\ takers' = [takers EXCEPT ![k] = Idle]
    /\ UNCHANGED <<queue, stored, promoting, cancelled>>

applyAging ==
    /\ \E m \in {x \in queue : x.priority # "CRITICAL"} : \E boost \in 1..MaxBoost :
          /\ m.boost < boost
          /\ queue' = queue \cup {[m EXCEPT !.boost = boost]}
    /\ UNCHANGED <<stored, takers, promoting, handed, cancelled>>

promoteTask(t, p) ==
    /\ \E text \in stored[t] :
          /\ queue' = queue \ {text}
          /\ stored' = [stored EXCEPT ![t] = {Fresh(t, p)}]
    /\ promoting' = promoting \cup {Fresh(t, p)}
    /\ UNCHANGED <<takers, handed, cancelled>>

requeue ==
    /\ \E m \in promoting : queue' = queue \cup {m} /\ promoting' = promoting \ {m}
    /\ UNCHANGED <<stored, takers, handed, cancelled>>

cancelTask(t) ==
    /\ stored[t] # {}
    /\ queue' = queue \ stored[t]
    /\ stored' = [stored EXCEPT ![t] = {}]
    /\ cancelled' = cancelled \cup {t}
    /\ UNCHANGED <<takers, promoting, handed>>

PriorityNext ==
    \/ \E t \in Task, p \in Given : submitTask(t, p) \/ promoteTask(t, p)
    \/ \E t \in Task : cancelTask(t)
    \/ \E k \in Taker : (\E n \in Batch : getNextBatch(k, n)) \/ readQueue(k) \/ take(k) \/ returnBatch(k)
    \/ applyAging \/ requeue

PrioritySpec == PriorityInit /\ [][PriorityNext]_priorityVars

Member == [task : Task, priority : PriorityPriority, boost : 0..MaxBoost]

PriorityTypeOK ==
    /\ queue \subseteq Member /\ promoting \subseteq Member
    /\ stored \in [Task -> SUBSET Member]
    /\ takers \in [Taker -> [level : {"none", "CRITICAL", "HIGH", "MEDIUM", "LOW"}, size : {0} \cup Batch,
                             read : SUBSET Member, got : SUBSET Member]]
    /\ handed \subseteq Task /\ cancelled \subseteq Task

\* However batches, ageing and promotions overlap, a task that was submitted is cancelled,
\* was handed out, or is in a queue, in the hands of a batch or on its way between queues.
NoTaskIsLost ==
    \A t \in Task : stored[t] # {} =>
        t \in handed \cup cancelled \cup
              {m.task : m \in queue \cup promoting \cup UNION {takers[k].got : k \in Taker}}

-----------------------------------------------------------------------------
(***************************************************************************)
(* backend/src/services/scheduler-rate-limiter.ts: schedulers that check   *)
(* the counters in Redis, schedule, and record what they scheduled.        *)
(*                                                                         *)
(* A check reads and a record increments, with the work of the scheduler   *)
(* between them, so schedulers that check together pass together.  The     *)
(* windows of a minute, of all tasks and of a node, are counted by one     *)
(* node here; the hour of a user works the same way.                       *)
(***************************************************************************)

CONSTANTS
    Scheduler,
    perMinuteLimit,      \* maxTasksPerNodePerMinute * (1 + burstAllowance)
    maxPendingTasks,
    Minutes, MaxScheduled  \* bounds on the windows and on the tasks scheduled

VARIABLES
    minute, inWindow,    \* inWindow[m]: the counter of minute m
    pending,             \* scheduler:pending: of the node
    passed,              \* schedulers whose check was allowed
    scheduledTasks, completedTasks  \* history

limiterVars == <<minute, inWindow, pending, passed, scheduledTasks, completedTasks>>

LimiterInit ==
    /\ minute = 1 /\ inWindow = [m \in 1..Minutes |-> 0]
    /\ pending = 0 /\ passed = {} /\ scheduledTasks = 0 /\ completedTasks = 0

Allowed == inWindow[minute] < perMinuteLimit /\ pending < maxPendingTasks

checkRateLimit(s) ==
    /\ s \notin passed
    /\ Allowed
    /\ passed' = passed \cup {s}
    /\ UNCHANGED <<minute, inWindow, pending, scheduledTasks, completedTasks>>

\* One pipeline; the minute is the one of the record.
recordTaskScheduled(s) ==
    /\ s \in passed /\ scheduledTasks < MaxScheduled
    /\ passed' = passed \ {s}
    /\ inWindow' = [inWindow EXCEPT ![minute] = @ + 1]
    /\ pending' = pending + 1
    /\ scheduledTasks' = scheduledTasks + 1
    /\ UNCHANGED <<minute, completedTasks>>

givesUp(s) ==
    /\ s \in passed /\ passed' = passed \ {s}
    /\ UNCHANGED <<minute, inWindow, pending, scheduledTasks, completedTasks>>

recordTaskCompleted ==
    /\ completedTasks < scheduledTasks
    /\ completedTasks' = completedTasks + 1
    /\ pending' = pending - 1
    /\ UNCHANGED <<minute, inWindow, passed, scheduledTasks>>

nextMinute ==
    /\ minute < Minutes /\ minute' = minute + 1
    /\ UNCHANGED <<inWindow, pending, passed, scheduledTasks, completedTasks>>

\* reset() deletes scheduler:rate:*, and not scheduler:pending:*.
reset ==
    /\ inWindow' = [m \in 1..Minutes |-> 0]
    /\ UNCHANGED <<minute, pending, passed, scheduledTasks, completedTasks>>

LimiterNext ==
    \/ \E s \in Scheduler : checkRateLimit(s) \/ recordTaskScheduled(s) \/ givesUp(s)
    \/ recordTaskCompleted \/ nextMinute \/ reset

LimiterSpec == LimiterInit /\ [][LimiterNext]_limiterVars

LimiterTypeOK ==
    /\ minute \in 1..Minutes /\ inWindow \in [1..Minutes -> 0..MaxScheduled]
    /\ pending \in 0..MaxScheduled /\ passed \subseteq Scheduler
    /\ scheduledTasks \in 0..MaxScheduled /\ completedTasks \in 0..scheduledTasks

\* The limits are exceeded by no more than the schedulers that check at a time, whichever
\* minute they checked in.
OvershootIsBounded ==
    /\ \A m \in 1..Minutes : inWindow[m] < perMinuteLimit + Cardinality(Scheduler)
    /\ pending < maxPendingTasks + Cardinality(Scheduler)

\* The pending counter is the number of tasks scheduled and not completed, also behind a reset.
PendingIsExact == pending = scheduledTasks - completedTasks

-----------------------------------------------------------------------------
(***************************************************************************)
(* backend/src/services/backpressure-controller.ts and                     *)
(* graceful-degradation.ts: requests that are measured, throttled or shed, *)
(* and the features that a level of degradation turns off.                 *)
(*                                                                         *)
(* Loads are percents.  Each request and each check goes by what it        *)
(* measured, and the last to end sets the level.                           *)
(***************************************************************************)

CONSTANTS
    Request, Load,                        \* Load: the scores that are measured
    throttleThreshold, loadShedThreshold, \* 70 and 90
    mlThreshold, cacheThreshold, featureThreshold,  \* 80, 90 and 95
    historyLimit                          \* 100

VARIABLES
    requests,     \* requests[r]: priority, the load it measured, and the decision
    loadLevel,    \* currentLoadLevel
    loadHistory,
    level,        \* currentLevel of the degradation
    features,     \* features that are enabled
    checking      \* loads that checkAndDegrade() measured and did not act on yet

loadVars == <<requests, loadLevel, loadHistory, level, features, checking>>

LoadPriority == {"CRITICAL", "HIGH", "LOW"}

\* DEGRADATION_FEATURES: what a level turns off, and only that.
Disabled ==
    [normal |-> {}, degraded |-> {"ml-scoring", "advanced-analytics", "real-time-metrics"},
     minimal |-> {"real-time-updates", "websocket", "caching", "batch-operations"},
     critical |-> {"scheduling", "task-execution"}]
Feature == UNION {Disabled[l] : l \in DOMAIN Disabled}

LoadInit ==
    /\ requests = [r \in Request |-> [pc |-> "new"]]
    /\ loadLevel = "normal" /\ loadHistory = <<>>
    /\ level = "normal" /\ features = Feature /\ checking = {}

collectMetrics(r, priority, load) ==
    /\ requests[r].pc = "new"
    /\ requests' = [requests EXCEPT ![r] = [pc |-> "measured", priority |-> priority, load |-> load]]
    /\ LET h == Append(loadHistory, load)
       IN  loadHistory' = IF Len(h) > historyLimit THEN Tail(h) ELSE h
    /\ UNCHANGED <<loadLevel, level, features, checking>>

LevelOf(load) ==
    IF load < 50 THEN "normal" ELSE IF load < 70 THEN "elevated" ELSE IF load < 90 THEN "high" ELSE "critical"

\* The decisions that evaluate() may come to; between the thresholds a random number decides.
Decisions(priority, load) ==
    IF priority = "CRITICAL" THEN {"accept"}
    ELSE IF load >= loadShedThreshold /\ priority # "HIGH" THEN {"shed"}
    ELSE IF load > throttleThreshold /\ priority # "HIGH" THEN {"accept", "throttle"}
    ELSE {"accept"}

shouldAcceptTask(r) ==
    /\ requests[r].pc = "measured"
    /\ \E d \in Decisions(requests[r].priority, requests[r].load) :
          requests' = [requests EXCEPT ![r].pc = d]
    /\ loadLevel' = LevelOf(requests[r].load)
    /\ UNCHANGED <<loadHistory, level, features, checking>>

DegradationOf(stress) ==
    IF stress >= featureThreshold THEN "critical" ELSE IF stress >= cacheThreshold THEN "minimal"
    ELSE IF stress >= mlThreshold THEN "degraded" ELSE "normal"

applyDegradation(l) == level' = l /\ features' = Feature \ Disabled[l]

getSystemHealth(stress) ==
    /\ checking' = checking \cup {stress}
    /\ UNCHANGED <<requests, loadLevel, loadHistory, level, features>>

checkAndDegrade ==
    /\ \E stress \in checking :
          /\ checking' = checking \ {stress}
          /\ IF DegradationOf(stress) = level THEN UNCHANGED <<level, features>>
             ELSE applyDegradation(DegradationOf(stress))
    /\ UNCHANGED <<requests, loadLevel, loadHistory>>

setLevel(l) ==
    /\ applyDegradation(l)
    /\ UNCHANGED <<requests, loadLevel, loadHistory, checking>>

LoadNext ==
    \/ \E r \in Request : shouldAcceptTask(r) \/ \E p \in LoadPriority, load \in Load : collectMetrics(r, p, load)
    \/ \E stress \in Load : getSystemHealth(stress)
    \/ checkAndDegrade
    \/ \E l \in DOMAIN Disabled : setLevel(l)

LoadSpec == LoadInit /\ [][LoadNext]_loadVars

LoadTypeOK ==
    /\ \A r \in Request : requests[r].pc \in {"new", "measured", "accept", "throttle", "shed"}
    /\ loadLevel \in {"normal", "elevated", "high", "critical"}
    /\ Len(loadHistory) <= historyLimit
    /\ level \in DOMAIN Disabled /\ features \subseteq Feature /\ checking \subseteq Load

\* A task is shed only under a load that the other table calls critical, and neither
\* CRITICAL nor HIGH tasks are ever turned away.
OnlyLowIsTurnedAway ==
    \A r \in Request :
        /\ requests[r].pc = "shed" => LevelOf(requests[r].load) = "critical"
        /\ requests[r].pc \in {"shed", "throttle"} => requests[r].priority \notin {"CRITICAL", "HIGH"}

\* The features that are on are those of the current level, whatever levels were passed and
\* whoever set the last one: nothing stays off behind a level that is over.
FeaturesFollowLevel == features = Feature \ Disabled[level]

=============================================================================
