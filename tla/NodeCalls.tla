----------------------------- MODULE NodeCalls ------------------------------
(***************************************************************************)
(* What a scheduler does with the nodes: calls of their agents, policies   *)
(* of retrying, reservations and preemption. They share nothing; each has  *)
(* its own initial states, next-state relation and properties.             *)
(***************************************************************************)
EXTENDS Integers, SequencesExt

(***************************************************************************)
(* src/lib/agent-pool.ts: the connection to an agent that its callers      *)
(* share, and their retries.                                               *)
(*                                                                         *)
(* The pool has an entry per agent; this is the entry of one of them.  The *)
(* interceptors of a client find the entry by the agent, so that answers   *)
(* of a client that was replaced are counted for the one that replaced it. *)
(***************************************************************************)

CONSTANTS
    Call,                \* bounds the calls
    AgentRetries,        \* of a call that retries; getHealth() does not
    maxFailures,
    Nothing

VARIABLES
    created,             \* clients that were created
    connection,          \* the entry, or Nothing
    state,               \* state[c]: "new", "sent", "delayed", "done" or "failed"
    retries, poolAttempt,
    used                 \* used[c]: the clients of its attempts

poolVars == <<created, connection, state, retries, poolAttempt, used>>

PoolInit ==
    /\ created = 0 /\ connection = Nothing
    /\ state = [c \in Call |-> "new"]
    /\ retries = [c \in Call |-> 0] /\ poolAttempt = [c \in Call |-> 0]
    /\ used = [c \in Call |-> {}]

createConnection == [client |-> created + 1, failureCount |-> 0, isHealthy |-> TRUE]

\* getClient(): an entry that is missing or unhealthy is replaced.
getClient(entry) == IF entry = Nothing \/ ~entry.isHealthy THEN createConnection ELSE entry

send(c, entry) ==
    LET chosen == getClient(entry)
    IN  /\ connection' = chosen
        /\ created' = IF chosen.client > created THEN chosen.client ELSE created
        /\ used' = [used EXCEPT ![c] = @ \cup {chosen.client}]
        /\ state' = [state EXCEPT ![c] = "sent"]

\* executeWithRetry(), or getHealth(), which has no retries.
begin(c) ==
    /\ state[c] = "new"
    /\ send(c, connection)
    /\ \E r \in {0, AgentRetries} : retries' = [retries EXCEPT ![c] = r]
    /\ UNCHANGED poolAttempt

Forgiven == 0

recordSuccess(c) ==
    /\ state[c] = "sent"
    /\ connection' = IF connection = Nothing THEN Nothing
                     ELSE [connection EXCEPT !.failureCount = Forgiven, !.isHealthy = TRUE]
    /\ state' = [state EXCEPT ![c] = "done"]
    /\ UNCHANGED <<created, retries, poolAttempt, used>>

IsLast(c) == poolAttempt[c] = retries[c]

recordFailure(c) ==
    /\ state[c] = "sent"
    /\ connection' = IF connection = Nothing THEN Nothing
                     ELSE [connection EXCEPT !.failureCount = @ + 1,
                                             !.isHealthy = @ /\ connection.failureCount + 1 < maxFailures]
    /\ state' = [state EXCEPT ![c] = IF IsLast(c) THEN "failed" ELSE "delayed"]
    /\ UNCHANGED <<created, retries, poolAttempt, used>>

GivenUp == IF connection = Nothing THEN Nothing ELSE [connection EXCEPT !.isHealthy = FALSE]

\* After the delay: whatever the entry is by then is given up, and replaced in the same step.
retry(c) ==
    /\ state[c] = "delayed"
    /\ poolAttempt' = [poolAttempt EXCEPT ![c] = @ + 1]
    /\ send(c, GivenUp)
    /\ UNCHANGED retries

\* The cleanup takes an entry that was not used for longer than any attempt or delay.
cleanup ==
    /\ connection # Nothing /\ \A c \in Call : state[c] \notin {"sent", "delayed"}
    /\ connection' = Nothing
    /\ UNCHANGED <<created, state, retries, poolAttempt, used>>

resetPool ==
    /\ connection # Nothing /\ connection' = Nothing
    /\ UNCHANGED <<created, state, retries, poolAttempt, used>>

PoolNext ==
    \/ cleanup \/ resetPool
    \/ \E c \in Call : begin(c) \/ recordSuccess(c) \/ recordFailure(c) \/ retry(c)

PoolSpec == PoolInit /\ [][PoolNext]_poolVars

PoolTypeOK ==
    /\ created \in 0..Cardinality(Call) * (AgentRetries + 1)
    /\ connection # Nothing => connection.client \in 1..created
    /\ state \in [Call -> {"new", "sent", "delayed", "done", "failed"}]
    /\ \A c \in Call : poolAttempt[c] \in 0..retries[c]

\* A connection is taken for healthy only while its failures in a row are few, however the answers of
\* several callers, and of clients that were replaced, come in.
HealthyIsUntroubled == connection # Nothing /\ connection.isHealthy => connection.failureCount < maxFailures

\* No call tries a connection a second time, although other callers make it healthy again during the delay.
TriesAnother == \A c \in Call : state[c] # "new" => Cardinality(used[c]) = poolAttempt[c] + 1

-----------------------------------------------------------------------------
(***************************************************************************)
(* packages/circuit-breaker/src/retry.ts and checkpoint.ts: calls that     *)
(* share one policy with a budget of retries, each a withCheckpoint() that *)
(* begins where the attempt before it failed.                              *)
(*                                                                         *)
(* A state is how far a function got; 0 is falsy, and is not restored.     *)
(* The store is the one in memory, where save() takes effect at once.      *)
(* Math.random() is 0, a half or 1.                                        *)
(***************************************************************************)

CONSTANTS
    Caller,
    maxAttempts, maxRetriesPerWindow,
    initialDelay, maxDelay,   \* backoffMultiplier is 2
    Steps                     \* a function is done after so many steps

VARIABLES
    calls,         \* pc, attempt, number of errors, delay before the next attempt
    retryCount, windowOver,   \* of the budget; windowMs have passed since windowStartTime
    breaker,       \* state of config.circuitBreaker, "none" if there is none
    progress,      \* state of the function of a call
    checkpoint,    \* the newest of the task of a call, 0 if there is none; others are read by id only
    automatic,     \* calls with an interval of AutomaticCheckpointing
    failedAt       \* history: how far the last attempt got that failed

retryVars == <<calls, retryCount, windowOver, breaker, progress, checkpoint, automatic, failedAt>>
Budget == <<retryCount, windowOver>>

RetryInit ==
    /\ calls = [c \in Caller |-> [pc |-> "idle", attempt |-> 0, errors |-> 0, delay |-> 0]]
    /\ retryCount = 0 /\ windowOver = FALSE /\ breaker = "CLOSED"
    /\ progress = [c \in Caller |-> 0] /\ checkpoint = [c \in Caller |-> 0]
    /\ automatic = {} /\ failedAt = [c \in Caller |-> 0]

Smaller(a, b) == IF a < b THEN a ELSE b
Exponential(attempt) == initialDelay * 2^(attempt - 1)

\* calculateDelay(), with Math.random() = r/2.
Delay(jitter, attempt, r) ==
    CASE jitter = "none" -> Smaller(Exponential(attempt), maxDelay)
      [] jitter = "full" -> Smaller((r * Exponential(attempt)) \div 2, maxDelay)
      [] jitter = "equal" -> Smaller((2 * Exponential(attempt) + r * Exponential(attempt)) \div 4, maxDelay)
      [] jitter = "decorrelated" ->
           LET prev == IF attempt > 1 THEN Exponential(attempt - 1) ELSE initialDelay
           IN  Smaller(initialDelay + (r * (3 * prev - initialDelay)) \div 2, maxDelay)

\* createCheckpoint() of the state as it is.
Save(c) == checkpoint' = [checkpoint EXCEPT ![c] = progress[c]]

HasBudget(n) == n < maxRetriesPerWindow

\* checkRetryBudget() starts another window when the last one is over ...
checkRetryBudget ==
    IF windowOver THEN retryCount' = 0 /\ windowOver' = FALSE ELSE UNCHANGED Budget

\* ... and execute() goes on if the budget has not been used up.  The first attempt is
\* refused like the others.  A function that starts again is given its last checkpoint.
execute(c) ==
    LET k == calls[c]
    IN  /\ k.pc \in {"idle", "waiting"}
        /\ IF breaker = "OPEN"
           THEN /\ calls' = [calls EXCEPT ![c].pc = "refused"]
                /\ UNCHANGED <<Budget, progress>>
           ELSE /\ checkRetryBudget
                /\ IF HasBudget(retryCount')
                   THEN /\ calls' = [calls EXCEPT ![c].pc = "running", ![c].attempt = @ + 1,
                                                  ![c].delay = 0]
                        /\ progress' = [progress EXCEPT ![c] = checkpoint[c]]
                   ELSE /\ calls' = [calls EXCEPT ![c].pc = "refused"]
                        /\ UNCHANGED progress
        /\ UNCHANGED <<breaker, checkpoint, automatic, failedAt>>

work(c) ==
    /\ calls[c].pc = "running" /\ progress[c] < Steps
    /\ progress' = [progress EXCEPT ![c] = @ + 1]
    /\ UNCHANGED <<calls, Budget, breaker, checkpoint, automatic, failedAt>>

\* A success is told to the circuit breaker; a failure is not.
succeed(c) ==
    /\ calls[c].pc = "running" /\ progress[c] = Steps
    /\ calls' = [calls EXCEPT ![c].pc = "done"]
    /\ Save(c)
    /\ UNCHANGED <<Budget, breaker, progress, automatic, failedAt>>

\* The function throws an error that may be retried, or another.
fail(c) ==
    LET k == calls[c]
    IN  /\ k.pc = "running" /\ Save(c)
        /\ failedAt' = [failedAt EXCEPT ![c] = progress[c]]
        /\ \/ /\ calls' = [calls EXCEPT ![c].pc = "exhausted", ![c].errors = @ + 1]
              /\ UNCHANGED retryCount
           \/ /\ k.attempt < maxAttempts
              /\ \E jitter \in {"none", "full", "equal", "decorrelated"}, r \in 0..2 :
                    calls' = [calls EXCEPT ![c] =
                        [pc |-> "waiting", attempt |-> k.attempt, errors |-> k.errors + 1,
                         delay |-> Delay(jitter, k.attempt, r)]]
              /\ retryCount' = retryCount + 1
        /\ UNCHANGED <<windowOver, breaker, progress, automatic>>

\* AutomaticCheckpointing: the interval outlives the call.
start(c) ==
    /\ c \notin automatic /\ calls[c].pc = "running" /\ automatic' = automatic \cup {c}
    /\ UNCHANGED <<calls, Budget, breaker, progress, checkpoint, failedAt>>

tick(c) ==
    /\ c \in automatic /\ Save(c)
    /\ UNCHANGED <<calls, Budget, breaker, progress, automatic, failedAt>>

stop(c) ==
    /\ c \in automatic /\ automatic' = automatic \ {c}
    /\ UNCHANGED <<calls, Budget, breaker, progress, checkpoint, failedAt>>

\* deleteCheckpoint() of all that a task has.
deleteCheckpoint(c) ==
    /\ checkpoint[c] # 0 /\ calls[c].pc = "waiting"
    /\ checkpoint' = [checkpoint EXCEPT ![c] = 0] /\ failedAt' = [failedAt EXCEPT ![c] = 0]
    /\ UNCHANGED <<calls, Budget, breaker, progress, automatic>>

windowEnds ==
    /\ ~windowOver /\ windowOver' = TRUE
    /\ UNCHANGED <<calls, retryCount, breaker, progress, checkpoint, automatic, failedAt>>

breakerMoves ==
    /\ breaker' \in {"OPEN", "CLOSED"} \ {breaker}
    /\ UNCHANGED <<calls, Budget, progress, checkpoint, automatic, failedAt>>

RetryNext ==
    \/ \E c \in Caller : \/ execute(c) \/ work(c) \/ succeed(c) \/ fail(c)
                         \/ start(c) \/ tick(c) \/ stop(c) \/ deleteCheckpoint(c)
    \/ windowEnds \/ breakerMoves

RetrySpec == RetryInit /\ [][RetryNext]_retryVars

\* Properties

RetryTypeOK ==
    /\ \A c \in Caller : /\ calls[c].pc \in {"idle", "running", "waiting", "done", "exhausted", "refused"}
                         /\ calls[c].attempt \in 0..maxAttempts
                         /\ checkpoint[c] \in 0..Steps
    /\ retryCount \in Nat /\ breaker \in {"OPEN", "CLOSED"}

\* An attempt begins no earlier than where the last one failed, whatever an interval saves
\* in between and after (checkpoint.ts:121-136).
ResumesWhereItFailed == \A c \in Caller : calls[c].pc = "running" => progress[c] >= failedAt[c]

\* Calls that pass the check together exceed the budget of a window by no more than one
\* retry each (retry.ts:60, 109).
BudgetOvershootIsBounded == retryCount <= maxRetriesPerWindow + Cardinality(Caller) - 1

\* No kind of jitter waits longer than maxDelay (retry.ts:161-195).
DelaysAreCapped == \A c \in Caller : calls[c].delay <= maxDelay

-----------------------------------------------------------------------------
(***************************************************************************)
(* packages/scheduler/src/advanced-scheduling.ts, ResourceReservation-     *)
(* Manager: reservations of a node's resources, which a timer takes back.  *)
(*                                                                         *)
(* How much is reserved is left out: it is compared with nothing.          *)
(***************************************************************************)
CONSTANTS
    Reservation,         \* bounds what is reserved, ids being used once
    ReservedNode

VARIABLES
    reservations,        \* reservations[r]: Nothing, or its node and status
    nodeReservations,
    timers               \* reservations whose timer runs

reservationVars == <<reservations, nodeReservations, timers>>

ReservationInit ==
    /\ reservations = [r \in Reservation |-> Nothing]
    /\ nodeReservations = [n \in ReservedNode |-> {}]
    /\ timers = {}

\* Nothing is compared with what the node has; an id is not used again while its timer runs.
createReservation(r) ==
    /\ reservations[r] = Nothing /\ r \notin timers
    /\ \E n \in ReservedNode :
          /\ reservations' = [reservations EXCEPT ![r] = [node |-> n, status |-> "PENDING"]]
          /\ nodeReservations' = [nodeReservations EXCEPT ![n] = @ \cup {r}]
    /\ timers' = timers \cup {r}

confirmReservation(r) ==
    /\ reservations[r] # Nothing
    /\ reservations' = [reservations EXCEPT ![r].status = "CONFIRMED"]
    /\ UNCHANGED <<nodeReservations, timers>>

Kept(r) == {}

Release(r) ==
    IF reservations[r] = Nothing THEN UNCHANGED <<reservations, nodeReservations>>
    ELSE /\ nodeReservations' = [nodeReservations EXCEPT ![reservations[r].node] = (@ \ {r}) \cup Kept(r)]
         /\ reservations' = [reservations EXCEPT ![r] = Nothing]

releaseReservation(r) ==
    /\ reservations[r] # Nothing /\ Release(r)
    /\ UNCHANGED timers

\* The timer is never stopped, and takes back what is confirmed too.
expired(r) ==
    /\ r \in timers /\ timers' = timers \ {r}
    /\ Release(r)

ReservationNext ==
    \E r \in Reservation : createReservation(r) \/ confirmReservation(r) \/ releaseReservation(r) \/ expired(r)

ReservationSpec == ReservationInit /\ [][ReservationNext]_reservationVars

ReservationTypeOK ==
    /\ \A r \in Reservation : reservations[r] # Nothing => reservations[r].status \in {"PENDING", "CONFIRMED"}
    /\ timers \subseteq Reservation

\* What a node is said to have reserved is what is reserved on it, and a timer will take back each of it: a
\* release by hand, one by the timer and one that comes twice leave nothing behind.
ReservedIsCounted ==
    /\ \A n \in ReservedNode : nodeReservations[n] = {r \in Reservation : reservations[r] # Nothing /\ reservations[r].node = n}
    /\ \A r \in Reservation : reservations[r] # Nothing => r \in timers

-----------------------------------------------------------------------------
(***************************************************************************)
(* packages/scheduler/src/advanced-scheduling.ts, PreemptionManager: the   *)
(* choice of tasks to preempt for another one.                             *)
(*                                                                         *)
(* One resource stands for processor and memory.  A choice is made at one  *)
(* time and carried out at another, by the ids of the tasks.               *)
(***************************************************************************)

CONSTANTS
    Running,
    Priority, Amount,    \* priorities of tasks, and amounts of the resource
    MaxStarts            \* bound on the starts of tasks

VARIABLES
    runningTasks,        \* runningTasks[t]: Nothing, or node, priority, amount and start
    starts,
    required, toPreempt  \* the last choice, and what it was made for

preemptionVars == <<runningTasks, starts, required, toPreempt>>

PreemptionInit ==
    /\ runningTasks = [t \in Running |-> Nothing] /\ starts = 0
    /\ required = 0 /\ toPreempt = <<>>

registerRunningTask(t) ==
    /\ starts < MaxStarts /\ starts' = starts + 1
    /\ \E n \in ReservedNode, p \in Priority, amount \in Amount :
          runningTasks' = [runningTasks EXCEPT ![t] = [id |-> t, node |-> n, priority |-> p, amount |-> amount, start |-> starts']]
    /\ UNCHANGED <<required, toPreempt>>

unregisterRunningTask(t) ==
    /\ runningTasks[t] # Nothing
    /\ runningTasks' = [runningTasks EXCEPT ![t] = Nothing]
    /\ UNCHANGED <<starts, required, toPreempt>>

Candidates(minPriority, n) ==
    {runningTasks[t] : t \in {u \in Running : runningTasks[u] # Nothing /\ runningTasks[u].node = n
                                           /\ runningTasks[u].priority < minPriority}}

Before(a, b) == a.priority < b.priority \/ (a.priority = b.priority /\ a.start < b.start)

Total(chosen) == FoldLeft(LAMBDA sum, c : sum + c.amount, 0, chosen)

Enough(chosen, amount) == Total(chosen) >= amount

\* All candidates, if they are not enough together.
findPreemptionCandidates ==
    /\ \E n \in ReservedNode, p \in Priority, amount \in Amount :
          /\ required' = amount
          /\ toPreempt' = FoldLeft(LAMBDA chosen, c : IF Enough(chosen, amount) THEN chosen ELSE Append(chosen, c),
                                   <<>>, SetToSortSeq(Candidates(p, n), Before))
    /\ UNCHANGED <<runningTasks, starts>>

\* Whatever runs under these ids by now.
preemptTasks ==
    /\ toPreempt # <<>> /\ toPreempt' = <<>>
    /\ runningTasks' = [t \in Running |-> IF \E i \in DOMAIN toPreempt : toPreempt[i].id = t THEN Nothing ELSE runningTasks[t]]
    /\ UNCHANGED <<starts, required>>

PreemptionNext ==
    \/ \E t \in Running : registerRunningTask(t) \/ unregisterRunningTask(t)
    \/ findPreemptionCandidates \/ preemptTasks

PreemptionSpec == PreemptionInit /\ [][PreemptionNext]_preemptionVars

PreemptionTypeOK ==
    /\ \A t \in Running : runningTasks[t] # Nothing => runningTasks[t].start \in 1..starts
    /\ starts \in 0..MaxStarts /\ required \in Amount \cup {0}
    /\ \A i \in DOMAIN toPreempt : toPreempt[i].priority \in Priority

\* No task is chosen that is not needed besides the ones before it.
NoneTooMany == toPreempt # <<>> => Total(Front(toPreempt)) < required

\* A task of higher priority is chosen only with all that are lower and could be chosen as well.
LowestFirst ==
    [][\A t \in Running :
          (toPreempt' # toPreempt /\ toPreempt' # <<>> /\ runningTasks[t] # Nothing) =>
              \/ \E i \in DOMAIN toPreempt' : toPreempt'[i].id = t
              \/ \A i \in DOMAIN toPreempt' : runningTasks[t].node = toPreempt'[i].node
                                                 => runningTasks[t].priority >= toPreempt'[i].priority]_preemptionVars

=============================================================================
