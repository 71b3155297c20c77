------------------------------ MODULE Healing -------------------------------
(***************************************************************************)
(* What watches nodes and services and acts on it: recoveries, the auto-   *)
(* healer, the health monitor and cold starts. They share nothing; each    *)
(* has its own initial states, next-state relation and properties.         *)
(***************************************************************************)
EXTENDS Naturals, Sequences, FiniteSets

(***************************************************************************)
(* backend/src/services/recovery-coordinator.ts: calls of initiateRecovery *)
(* in one process, and the tasks of the table that a recovery from a node  *)
(* failure takes back.                                                     *)
(*                                                                         *)
(* The cool-down of a type is read by one await and set behind another;    *)
(* the limit and the locks are checked and taken without an await between. *)
(* Steps that only wait or log are left out.                               *)
(***************************************************************************)

CONSTANTS
    Recovery,   \* calls
    Type, Entities,
    maxConcurrentRecoveries, RecoveredTask

VARIABLES
    calls,      \* calls[r]: where the call is, and what it recovers
    active,     \* activeRecoveries
    recoveryLock, recoveryCooldown,
    isolated,   \* incidents whose key recovery:isolated: was set, by call
    tasks,      \* tasks[t]: status of the row, and whether t is in task:queue
    listed      \* listed[r]: tasks that r read as SCHEDULED or RUNNING and did not take back yet

recoveryVars == <<calls, active, recoveryLock, recoveryCooldown, isolated, tasks, listed>>

RecoveryInit ==
    /\ calls = [r \in Recovery |-> [pc |-> "start", type |-> "none", entities |-> "none"]]
    /\ active = {} /\ recoveryLock = {} /\ recoveryCooldown = {} /\ isolated = {}
    /\ tasks = [t \in RecoveredTask |-> [status |-> "RUNNING", queued |-> FALSE]]
    /\ listed = [r \in Recovery |-> {}]

At(r, pc) == calls[r].pc = pc
Goto(r, pc) == calls' = [calls EXCEPT ![r].pc = pc]
LockKey(r) == <<calls[r].type, calls[r].entities>>
End(r) ==
    /\ Goto(r, "over")
    /\ active' = active \ {r} /\ recoveryLock' = recoveryLock \ {LockKey(r)}

isOnCooldown(r, type, entities) ==
    /\ At(r, "start")
    /\ calls' = [calls EXCEPT ![r] = [pc |-> IF type \in recoveryCooldown THEN "over" ELSE "enter",
                                     type |-> type, entities |-> entities]]
    /\ UNCHANGED <<active, recoveryLock, recoveryCooldown, isolated, tasks, listed>>

enter(r) ==
    /\ At(r, "enter")
    /\ \/ /\ Cardinality(active) < maxConcurrentRecoveries /\ LockKey(r) \notin recoveryLock
          /\ Goto(r, "cooldown") /\ active' = active \cup {r}
          /\ recoveryLock' = recoveryLock \cup {LockKey(r)}
       \/ /\ Cardinality(active) >= maxConcurrentRecoveries \/ LockKey(r) \in recoveryLock
          /\ Goto(r, "over") /\ UNCHANGED <<active, recoveryLock>>
    /\ UNCHANGED <<recoveryCooldown, isolated, tasks, listed>>

\* Of the steps of a plan only the isolation and the rescheduling do something to nodes and tasks.
FirstStep(type) == IF type = "node-failure" THEN "isolate" ELSE "steps"

\* setCooldown() stands before the try: if it throws, plan and lock stay.
recoverySetCooldown(r) ==
    /\ At(r, "cooldown")
    /\ \/ recoveryCooldown' = recoveryCooldown \cup {calls[r].type}
          /\ Goto(r, FirstStep(calls[r].type))
       \/ Goto(r, "stuck") /\ UNCHANGED recoveryCooldown
    /\ UNCHANGED <<active, recoveryLock, isolated, tasks, listed>>

cooldownExpires ==
    /\ \E type \in recoveryCooldown : recoveryCooldown' = recoveryCooldown \ {type}
    /\ UNCHANGED <<calls, active, recoveryLock, isolated, tasks, listed>>

\* Mutant: isolate-node is no critical step.
misolateNode(r) ==
    /\ At(r, "isolate") /\ Goto(r, "list")
    /\ isolated' \in {isolated, isolated \cup {r}}
    /\ UNCHANGED <<active, recoveryLock, recoveryCooldown, tasks, listed>>

\* A critical step: if it fails, so does the plan.
isolateNode(r) ==
    /\ At(r, "isolate")
    /\ \/ isolated' = isolated \cup {r} /\ Goto(r, "list") /\ UNCHANGED <<active, recoveryLock>>
       \/ End(r) /\ UNCHANGED isolated
    /\ UNCHANGED <<recoveryCooldown, tasks, listed>>

\* All tasks that are SCHEDULED or RUNNING, whatever their node.
listTasks(r) ==
    /\ At(r, "list") /\ Goto(r, "reschedule")
    /\ listed' = [listed EXCEPT ![r] = {t \in RecoveredTask : tasks[t].status = "RUNNING"}]
    /\ UNCHANGED <<active, recoveryLock, recoveryCooldown, isolated, tasks>>

\* The row, whatever its status is by now.
takeBack(r, t) ==
    /\ At(r, "reschedule") /\ t \in listed[r] /\ tasks[t].status # "UNQUEUED"
    /\ tasks' = [tasks EXCEPT ![t].status = "UNQUEUED"]
    /\ UNCHANGED <<calls, active, recoveryLock, recoveryCooldown, isolated, listed>>

\* Then the queue; an update that throws ends the step, and the plan goes on.
enqueue(r, t) ==
    /\ At(r, "reschedule") /\ t \in listed[r] /\ tasks[t].status = "UNQUEUED"
    /\ tasks' = [tasks EXCEPT ![t] = [status |-> "PENDING", queued |-> TRUE]]
    /\ listed' = [listed EXCEPT ![r] = @ \ {t}]
    /\ UNCHANGED <<calls, active, recoveryLock, recoveryCooldown, isolated>>

finish(r) ==
    /\ \/ At(r, "reschedule") /\ listed[r] = {}
       \/ At(r, "steps")
    /\ End(r)
    /\ UNCHANGED <<recoveryCooldown, isolated, tasks, listed>>

RecoveryNext ==
    \/ \E r \in Recovery :
          \/ \E type \in Type, entities \in Entities : isOnCooldown(r, type, entities)
          \/ enter(r) \/ recoverySetCooldown(r) \/ isolateNode(r) \/ listTasks(r) \/ finish(r)
          \/ \E t \in RecoveredTask : takeBack(r, t) \/ enqueue(r, t)
    \/ cooldownExpires

RecoverySpec == RecoveryInit /\ [][RecoveryNext]_recoveryVars

RecoveryTypeOK ==
    /\ calls \in [Recovery -> [pc : {"start", "enter", "cooldown", "isolate", "list", "reschedule",
                                     "steps", "stuck", "over"},
                             type : Type \cup {"none"}, entities : Entities \cup {"none"}]]
    /\ active \subseteq Recovery /\ recoveryLock \subseteq Type \X Entities /\ recoveryCooldown \subseteq Type
    /\ isolated \subseteq Recovery
    /\ tasks \in [RecoveredTask -> [status : {"RUNNING", "UNQUEUED", "PENDING"}, queued : BOOLEAN]]
    /\ listed \in [Recovery -> SUBSET RecoveredTask]

\* Although calls that pass the cool-down together overlap at every await, no two recoveries
\* of the same type and entities are under way, and never more than the limit.
RecoveriesAreExclusive ==
    /\ Cardinality(active) <= maxConcurrentRecoveries
    /\ \A r, q \in active : r # q => LockKey(r) # LockKey(q)

\* Tasks are taken back from a node only when it was isolated before, and a recovery whose
\* isolation failed leaves them alone.
TakenBackIsIsolated == isolated = {} => \A t \in RecoveredTask : tasks[t].status = "RUNNING"

-----------------------------------------------------------------------------
(***************************************************************************)
(* backend/src/services/auto-healer.ts: when an alert leads to an action.  *)
(*                                                                         *)
(* Time is counted in units of GLOBAL_RECOVERY_COOLDOWN (30 s), and the    *)
(* history of a key keeps the times of its actions in the last hour.  The  *)
(* checks and the entries that follow them have no await between, so an    *)
(* alert is one step.  Alerts of the health checks come in by the same     *)
(* door.                                                                   *)
(***************************************************************************)

CONSTANTS
    ActionType, Target,
    healerCooldown, hour, minute, \* cooldownMs, an hour and a minute, in units
    maxConcurrentActions, bulkhead, perMinute, perHour,
    Horizon                       \* bound on the time

Key == ActionType \X Target

VARIABLES
    now,
    history,        \* history[k]: recoveryActionHistory, times of actions of k
    lastGlobal,     \* lastGlobalRecoveryTime, a set of at most one time
    activeActions,  \* keys and times of the actions under way
    rescheduled,    \* tasks of targets that were taken back: [target, part]
    begunAt         \* history: all actions that began, with their key and time

healerVars == <<now, history, lastGlobal, activeActions, rescheduled, begunAt>>

HealerInit ==
    /\ now = 0 /\ lastGlobal = {} /\ activeActions = {} /\ rescheduled = {} /\ begunAt = {}
    /\ history = [k \in Key |-> {}]

Tick ==
    /\ now < Horizon /\ now' = now + 1
    /\ UNCHANGED <<history, lastGlobal, activeActions, rescheduled, begunAt>>

\* The limit on restarts reads the key restart:<target>, which setCooldown() never writes:
\* it writes restart-service:<target>.
RestartHistory(k) == {}

WithinRateLimits(k) ==
    /\ Cardinality({b \in UNION {{<<j, t>> : t \in history[j]} : j \in Key} : b[2] + minute > now}) < perMinute
    /\ k[1] = "restart-service" => Cardinality(RestartHistory(k)) < perHour
    /\ Cardinality(activeActions) < bulkhead

IsOnCooldown(k) ==
    \/ \E t \in lastGlobal : t + 1 > now
    \/ \E t \in history[k] : t + healerCooldown > now
    \/ ~WithinRateLimits(k)

healerSetCooldown(k) ==
    /\ history' = [history EXCEPT ![k] = {t \in @ \cup {now} : t + hour > now}]
    /\ lastGlobal' = {now}

initiateHealing(k) ==
    /\ ~IsOnCooldown(k)
    /\ Cardinality(activeActions) < maxConcurrentActions
    /\ <<k, now>> \notin activeActions
    /\ healerSetCooldown(k)
    /\ activeActions' = activeActions \cup {<<k, now>>}
    /\ begunAt' = begunAt \cup {<<k, now>>}
    /\ UNCHANGED <<now, rescheduled>>

\* A restart or a change of scale is one command; a reschedule takes tasks back one by one
\* and may end in the middle.
executeAction(a) ==
    /\ a \in activeActions
    /\ activeActions' = activeActions \ {a}
    /\ rescheduled' \in IF a[1][1] = "reschedule-tasks"
                        THEN {rescheduled, rescheduled \cup {a[1][2]}} ELSE {rescheduled}
    /\ UNCHANGED <<now, history, lastGlobal, begunAt>>

HealerNext ==
    \/ Tick
    \/ \E k \in Key : initiateHealing(k)
    \/ \E a \in Key \X (0..Horizon) : executeAction(a)

HealerSpec == HealerInit /\ [][HealerNext]_healerVars

HealerTypeOK ==
    /\ now \in 0..Horizon
    /\ history \in [Key -> SUBSET (0..Horizon)]
    /\ lastGlobal \subseteq 0..Horizon /\ Cardinality(lastGlobal) <= 1
    /\ activeActions \subseteq Key \X (0..Horizon) /\ begunAt \subseteq Key \X (0..Horizon)
    /\ rescheduled \subseteq Target

\* Whatever alerts arrive and however long actions take, two actions begin a global cool-down
\* apart, two of the same kind and target cooldownMs apart, and no more than the bulkhead's
\* number are under way.
ActionsAreSpaced ==
    /\ \A a, b \in begunAt : a[2] = b[2] => a = b
    /\ \A a, b \in begunAt : a[1] = b[1] /\ a[2] < b[2] => a[2] + healerCooldown <= b[2]
    /\ Cardinality(activeActions) <= bulkhead

-----------------------------------------------------------------------------
(***************************************************************************)
(* backend/src/services/health-monitor.ts: rounds of checks that an        *)
(* interval starts without waiting for the last one to end.                *)
(*                                                                         *)
(* A check of the database or of Redis sees the condition of its part; the *)
(* other checks count rows and are taken as one reading each.  Numbers of  *)
(* a report, custom checks and Prometheus gauges are left out.             *)
(***************************************************************************)

CONSTANTS
    Round,      \* rounds that may be under way at once
    Varying     \* parts whose condition changes; the others stay healthy

Status == {"healthy", "degraded", "unhealthy"}
Checks == <<"database", "redis", "kafka", "nodes", "queue", "sagas", "outbox">>
Part == {Checks[i] : i \in DOMAIN Checks}

VARIABLES
    condition,        \* of the parts
    rounds,           \* rounds[r]: the next check, 0 if the round is not under way, and the statuses so far
    running,          \* checkInterval is set
    lastHealthStatus

healthVars == <<condition, rounds, running, lastHealthStatus>>

HealthIdle == [next |-> 0, statuses |-> {}]

HealthInit ==
    /\ condition = [p \in Part |-> "healthy"]
    /\ rounds = [r \in Round |-> HealthIdle]
    /\ running = FALSE /\ lastHealthStatus = "none"

change(p, status) ==
    /\ condition' = [condition EXCEPT ![p] = status]
    /\ UNCHANGED <<rounds, running, lastHealthStatus>>

start ==
    /\ ~running /\ running' = TRUE
    /\ UNCHANGED <<condition, rounds, lastHealthStatus>>

performChecks(r) ==
    /\ running /\ rounds[r].next = 0
    /\ rounds' = [rounds EXCEPT ![r] = [next |-> 1, statuses |-> {}]]
    /\ UNCHANGED <<condition, running, lastHealthStatus>>

\* checkKafka() takes the connection for granted.
Seen(p) == IF p = "kafka" THEN "healthy" ELSE condition[p]

check(r) ==
    /\ rounds[r].next \in DOMAIN Checks
    /\ rounds' = [rounds EXCEPT ![r] = [next |-> @.next + 1, statuses |-> @.statuses \cup {Seen(Checks[@.next])}]]
    /\ UNCHANGED <<condition, running, lastHealthStatus>>

Overall(statuses) ==
    IF "unhealthy" \in statuses THEN "unhealthy" ELSE IF "degraded" \in statuses THEN "degraded" ELSE "healthy"

\* status_changed compares lastHealthStatus with itself and is never sent.
publish(r) ==
    /\ rounds[r].next = Len(Checks) + 1
    /\ lastHealthStatus' = Overall(rounds[r].statuses)
    /\ rounds' = [rounds EXCEPT ![r] = HealthIdle]
    /\ UNCHANGED <<condition, running>>

stop ==
    /\ running /\ running' = FALSE
    /\ UNCHANGED <<condition, rounds, lastHealthStatus>>

HealthNext ==
    \/ \E p \in Varying, s \in Status : change(p, s)
    \/ start \/ stop
    \/ \E r \in Round : performChecks(r) \/ check(r) \/ publish(r)

HealthSpec == HealthInit /\ [][HealthNext]_healthVars

\* The interval keeps starting rounds, and every query of a check returns or throws.
HealthFairness == \A r \in Round : WF_healthVars(performChecks(r)) /\ WF_healthVars(check(r)) /\ WF_healthVars(publish(r))

FairSpec == HealthSpec /\ HealthFairness

HealthTypeOK ==
    /\ condition \in [Part -> Status]
    /\ rounds \in [Round -> [next : 0..(Len(Checks) + 1), statuses : SUBSET Status]]
    /\ running \in BOOLEAN /\ lastHealthStatus \in Status \cup {"none"}

\* However rounds overlap, and although one that began before an outage may end after one that
\* saw it, an outage that lasts is reported in the end and the report stays (kafka is no such
\* part: its check sees nothing).
OutageIsReported ==
    \A p \in Varying \ {"kafka"} :
        <>[](running /\ condition[p] = "unhealthy") => <>[](lastHealthStatus = "unhealthy")

-----------------------------------------------------------------------------
(***************************************************************************)
(* backend/src/services/cold-start-handler.ts: what is kept of each node   *)
(* in Redis, and the nodes that a task may be given.                       *)
(*                                                                         *)
(* recordTaskCompletion() reads a state and writes it back an await later: *)
(* of two completions one may be forgotten.  Durations, success rates and  *)
(* confidences are left out; which of the best nodes a sort puts first is  *)
(* any of them.                                                            *)
(***************************************************************************)

CONSTANTS
    ColdNode, Recorder,
    coldPhaseThreshold, warmPhaseThreshold,
    MaxResults   \* bound on the tasks that end on a node

VARIABLES
    known,       \* known[n]: state of n, counts of completed and failed tasks; none: no key
    recorders,   \* recorders[r]: recordTaskCompletion(): the state it read
    succeeded,   \* history: succeeded[n]: successful tasks that were reported
    ended        \* history: ended[n]: tasks that were reported

coldStartVars == <<known, recorders, succeeded, ended>>

None == [completed |-> 0, failed |-> 0, exists |-> FALSE]
New == [completed |-> 0, failed |-> 0, exists |-> TRUE]
ColdStartIdle == [pc |-> "idle"]

ColdStartInit ==
    /\ known = [n \in ColdNode |-> None]
    /\ recorders = [r \in Recorder |-> ColdStartIdle]
    /\ succeeded = [n \in ColdNode |-> 0] /\ ended = [n \in ColdNode |-> 0]

DeterminePhase(s) ==
    IF s.completed < coldPhaseThreshold THEN "cold"
    ELSE IF s.completed < warmPhaseThreshold THEN "warm" ELSE "normal"

Phase(n) == DeterminePhase(known[n])

initializeNode(n) ==
    /\ ~known[n].exists
    /\ known' = [known EXCEPT ![n] = New]
    /\ UNCHANGED <<recorders, succeeded, ended>>

read(r, n, success) ==
    /\ recorders[r] = ColdStartIdle /\ ended[n] < MaxResults
    /\ ended' = [ended EXCEPT ![n] = @ + 1]
    /\ succeeded' = [succeeded EXCEPT ![n] = @ + IF success THEN 1 ELSE 0]
    /\ known' = [known EXCEPT ![n] = IF @.exists THEN @ ELSE New]
    /\ recorders' = [recorders EXCEPT ![r] = [pc |-> "write", node |-> n, success |-> success,
                                              state |-> known'[n]]]

save(r) ==
    /\ recorders[r] # ColdStartIdle
    /\ known' = [known EXCEPT ![recorders[r].node] =
                    IF recorders[r].success THEN [recorders[r].state EXCEPT !.completed = @ + 1]
                                            ELSE [recorders[r].state EXCEPT !.failed = @ + 1]]
    /\ recorders' = [recorders EXCEPT ![r] = ColdStartIdle]
    /\ UNCHANGED <<succeeded, ended>>

\* A key lives for 24 hours: a node that is idle for a day starts again.
expires(n) ==
    /\ known[n].exists
    /\ known' = [known EXCEPT ![n] = None]
    /\ UNCHANGED <<recorders, succeeded, ended>>

\* The nodes that selectNodeForTask() may choose among candidates that are all known;
\* exploring is what a random number decides.
Of(candidates, phase) == {n \in candidates : Phase(n) = phase}
Best(nodes) == {n \in nodes : \A m \in nodes : known[m].completed <= known[n].completed}
FirstOf(a, b, c) == IF a # {} THEN a ELSE IF b # {} THEN b ELSE c

Selectable(priority, candidates) ==
    LET cold == Of(candidates, "cold") warm == Of(candidates, "warm")
        normal == Of(candidates, "normal")
    IN  IF priority = "CRITICAL" THEN FirstOf(normal, Best(warm), Best(cold))
        ELSE Best(cold) \cup FirstOf(normal, warm, cold)

\* nodeStates.indexOf(null) finds the first candidate without a state every time: it is what
\* is initialised, and considered, once for each such candidate.
selectNodeForTask(candidates) ==
    LET unknown == {i \in 1..Len(candidates) : ~known[candidates[i]].exists}
        first == CHOOSE i \in unknown : \A j \in unknown : i <= j
    IN  /\ unknown # {}
        /\ known' = [known EXCEPT ![candidates[first]] = New]
        /\ UNCHANGED <<recorders, succeeded, ended>>

ColdStartNext ==
    \/ \E n \in ColdNode : initializeNode(n) \/ expires(n)
    \/ \E r \in Recorder : save(r) \/ \E n \in ColdNode, success \in BOOLEAN : read(r, n, success)
    \/ \E a, b \in ColdNode : selectNodeForTask(<<a, b>>)

ColdStartSpec == ColdStartInit /\ [][ColdStartNext]_coldStartVars

ColdStartTypeOK ==
    /\ known \in [ColdNode -> [completed : 0..MaxResults, failed : 0..MaxResults, exists : BOOLEAN]]
    /\ \A r \in Recorder : recorders[r] = ColdStartIdle \/ recorders[r].node \in ColdNode
    /\ \A n \in ColdNode : succeeded[n] <= ended[n] /\ ended[n] <= MaxResults

\* Lost updates and keys that expire only make a node look colder than it is: it leaves a
\* phase only behind as many successes as the phase asks for.
PhaseIsEarned ==
    \A n \in ColdNode : /\ Phase(n) # "cold" => succeeded[n] >= coldPhaseThreshold
                        /\ Phase(n) = "normal" => succeeded[n] >= warmPhaseThreshold

\* A critical task is given an established node if there is one among the candidates, and
\* any choice is a candidate.
CriticalAvoidsCold ==
    \A candidates \in SUBSET ColdNode, priority \in {"CRITICAL", "LOW"} :
        LET chosen == Selectable(priority, candidates)
        IN  /\ chosen \subseteq candidates /\ (candidates # {} => chosen # {})
            /\ priority = "CRITICAL" /\ Of(candidates, "normal") # {}
                  => \A n \in chosen : succeeded[n] >= warmPhaseThreshold

=============================================================================
