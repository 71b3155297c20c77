----------------------------- MODULE AgentWork ------------------------------
(***************************************************************************)
(* Agents and what they run: their authentication, the workers and the     *)
(* sandboxes. They share nothing; each has its own initial states, next-   *)
(* state relation and properties.                                          *)
(***************************************************************************)
EXTENDS Integers, SequencesExt

(***************************************************************************)
(* src/lib/auth/AgentAuth.ts: signed requests of agents, whose nonces are  *)
(* remembered for a while, and revoked tokens, of which the latest are     *)
(* kept.                                                                   *)
(*                                                                         *)
(* Signatures are taken to be sound: a request is what was signed, a nonce *)
(* and a timestamp, and may arrive any number of times.  API keys, and the *)
(* claims of a token, are looked up and compared and are left out.         *)
(***************************************************************************)

CONSTANTS
    Nonce, AgentToken,
    maxDrift, cleanupInterval,
    maxRevoked, keptRevoked,   \* the clean-up keeps so many when there are more than maxRevoked
    AuthHorizon, MaxRevocations \* bounds

VARIABLES
    now, sinceCleanup,
    nonceCache,        \* nonce to timestamp, -1 where there is no entry
    accepted,          \* history: requests that were authenticated
    replayed,          \* history: requests that were authenticated twice
    revokedTokens,     \* in the order in which they were revoked first
    everRevoked        \* history: all that were revoked, in the same order

authVars == <<now, sinceCleanup, nonceCache, accepted, replayed, revokedTokens, everRevoked>>

AuthInit ==
    /\ now = 0 /\ sinceCleanup = 0
    /\ nonceCache = [n \in Nonce |-> -1]
    /\ accepted = {} /\ replayed = {}
    /\ revokedTokens = <<>> /\ everRevoked = <<>>

\* A nonce is taken before the signature is looked at, which may turn out wrong.
validateHMAC(n, ts) ==
    /\ now - ts <= maxDrift /\ ts - now <= maxDrift
    /\ nonceCache[n] = -1
    /\ nonceCache' = [nonceCache EXCEPT ![n] = ts]
    /\ \/ UNCHANGED <<accepted, replayed>>
       \/ /\ accepted' = accepted \cup {<<n, ts>>}
          /\ replayed' = IF <<n, ts>> \in accepted THEN replayed \cup {<<n, ts>>} ELSE replayed
    /\ UNCHANGED <<now, sinceCleanup, revokedTokens, everRevoked>>

\* Revoking once more changes nothing, not even the order.
revokeToken(t) ==
    /\ revokedTokens' = IF Contains(revokedTokens, t) THEN revokedTokens ELSE Append(revokedTokens, t)
    /\ everRevoked' = IF Contains(revokedTokens, t) THEN everRevoked ELSE Append(everRevoked, t)
    /\ Len(everRevoked) < MaxRevocations
    /\ UNCHANGED <<now, sinceCleanup, nonceCache, accepted, replayed>>

Refused(t) == Contains(revokedTokens, t)

Outdated(ts) == now - ts > maxDrift

Latest(q) == SubSeq(q, Len(q) - keptRevoked + 1, Len(q))

startCleanup ==
    /\ sinceCleanup = cleanupInterval
    /\ sinceCleanup' = 0
    /\ nonceCache' = [n \in Nonce |-> IF Outdated(nonceCache[n]) THEN -1 ELSE nonceCache[n]]
    /\ revokedTokens' = IF Len(revokedTokens) > maxRevoked THEN Latest(revokedTokens) ELSE revokedTokens
    /\ UNCHANGED <<now, accepted, replayed, everRevoked>>

tick ==
    /\ now < AuthHorizon /\ sinceCleanup < cleanupInterval
    /\ now' = now + 1
    /\ sinceCleanup' = sinceCleanup + 1
    /\ UNCHANGED <<nonceCache, accepted, replayed, revokedTokens, everRevoked>>

AuthNext ==
    \/ \E n \in Nonce, ts \in 0..AuthHorizon : validateHMAC(n, ts)
    \/ \E t \in AgentToken : revokeToken(t)
    \/ startCleanup \/ tick

AuthSpec == AuthInit /\ [][AuthNext]_authVars

AuthTypeOK ==
    /\ nonceCache \in [Nonce -> -1..AuthHorizon]
    /\ ToSet(revokedTokens) \subseteq AgentToken
    /\ now \in 0..AuthHorizon /\ sinceCleanup \in 0..cleanupInterval

\* A signed request authenticates once, though its nonce is forgotten after a while and clocks of
\* agents are ahead or behind: what is forgotten is too old to be accepted.
RequestCountsOnce == replayed = {}

\* However often the list is cut, the tokens revoked last are refused.
LatestRevokedAreRefused ==
    LET n == Len(everRevoked)
    IN  \A i \in DOMAIN everRevoked : i > n - keptRevoked => Refused(everRevoked[i])

-----------------------------------------------------------------------------
(***************************************************************************)
(* src/workers/taskWorker.ts: a pool of workers with a queue each, retries *)
(* after a delay, workers that stop, start again and are removed.          *)
(*                                                                         *)
(* Delays end in any order.  currentLoad is the number of running tasks,   *)
(* queues do not count.                                                    *)
(***************************************************************************)

CONSTANTS
    Worker, concurrency,
    Task, Critical,      \* the tasks, and those of priority critical; the others are medium
    maxRetries,
    MaxStops             \* bound

VARIABLES
    workerStatus,        \* status[w]: "running", "stopped", or "removed" from the pool
    taskQueue,
    runningTasks,        \* runningTasks[w]
    timers,              \* timers[w]: tasks whose retry waits
    retryCount,
    settled,             \* history: tasks that succeeded, or failed and have no retries left
    dispatched,          \* history
    dropped,             \* history: tasks whose worker was stopped when their delay was over,
                         \* or was removed with them
    stops

workerVars == <<workerStatus, taskQueue, runningTasks, timers, retryCount, settled, dispatched, dropped, stops>>

WorkerInit ==
    /\ workerStatus = [w \in Worker |-> "running"]
    /\ taskQueue = [w \in Worker |-> <<>>]
    /\ runningTasks = [w \in Worker |-> {}]
    /\ timers = [w \in Worker |-> {}]
    /\ retryCount = [t \in Task |-> 0]
    /\ settled = {} /\ dispatched = {} /\ dropped = {}
    /\ stops = 0

\* A stable sort by priority.
sortQueue(q) ==
    SelectSeq(q, LAMBDA t : t \in Critical) \o SelectSeq(q, LAMBDA t : t \notin Critical)

enqueue(w, t) == taskQueue' = [taskQueue EXCEPT ![w] = sortQueue(Append(@, t))]

dispatch(t) ==
    /\ t \notin dispatched
    /\ \E w \in Worker :
          /\ workerStatus[w] = "running"
          /\ \A v \in Worker : workerStatus[v] = "running" => Cardinality(runningTasks[w]) <= Cardinality(runningTasks[v])
          /\ enqueue(w, t)
    /\ dispatched' = dispatched \cup {t}
    /\ UNCHANGED <<workerStatus, runningTasks, timers, retryCount, settled, dropped, stops>>

MayRetry(t) == retryCount[t] < maxRetries

retryOrGiveUp(w, t) ==
    IF MayRetry(t)
    THEN /\ retryCount' = [retryCount EXCEPT ![t] = @ + 1]
         /\ timers' = [timers EXCEPT ![w] = @ \cup {t}]
         /\ UNCHANGED settled
    ELSE settled' = settled \cup {t} /\ UNCHANGED <<retryCount, timers>>

\* Mutant: a task without a node is given up, though it may be tried again.
mnoNode(w, t) == UNCHANGED <<retryCount, timers, settled>>

noNode(w, t) == retryOrGiveUp(w, t)

\* The head of the queue is taken; without a node it fails at once.
poll(w) ==
    /\ workerStatus[w] = "running"
    /\ Cardinality(runningTasks[w]) < concurrency
    /\ taskQueue[w] # <<>>
    /\ taskQueue' = [taskQueue EXCEPT ![w] = Tail(@)]
    /\ LET t == Head(taskQueue[w])
       IN  \/ /\ runningTasks' = [runningTasks EXCEPT ![w] = @ \cup {t}]
              /\ UNCHANGED <<timers, retryCount, settled>>
           \/ noNode(w, t) /\ UNCHANGED runningTasks
    /\ UNCHANGED <<workerStatus, dispatched, dropped, stops>>

\* Completed, failed, or timed out, whether the worker is running or not.
executeTask(w, t) ==
    /\ t \in runningTasks[w]
    /\ runningTasks' = [runningTasks EXCEPT ![w] = @ \ {t}]
    /\ \/ settled' = settled \cup {t} /\ UNCHANGED <<retryCount, timers>>
       \/ retryOrGiveUp(w, t)
    /\ UNCHANGED <<workerStatus, taskQueue, dispatched, dropped, stops>>

\* The delay is over.
scheduleRetry(w, t) ==
    /\ t \in timers[w]
    /\ timers' = [timers EXCEPT ![w] = @ \ {t}]
    /\ IF workerStatus[w] = "running" THEN enqueue(w, t) /\ UNCHANGED dropped
       ELSE dropped' = dropped \cup {t} /\ UNCHANGED taskQueue
    /\ UNCHANGED <<workerStatus, runningTasks, retryCount, settled, dispatched, stops>>

\* The queue and the timers stay.
stop(w) ==
    /\ workerStatus[w] = "running" /\ stops < MaxStops
    /\ workerStatus' = [workerStatus EXCEPT ![w] = "stopped"]
    /\ stops' = stops + 1
    /\ UNCHANGED <<taskQueue, runningTasks, timers, retryCount, settled, dispatched, dropped>>

start(w) ==
    /\ workerStatus[w] = "stopped"
    /\ workerStatus' = [workerStatus EXCEPT ![w] = "running"]
    /\ UNCHANGED <<taskQueue, runningTasks, timers, retryCount, settled, dispatched, dropped, stops>>

\* After stop(), which waits for running tasks for 30 seconds at most.
removeWorker(w) ==
    /\ workerStatus[w] = "stopped"
    /\ workerStatus' = [workerStatus EXCEPT ![w] = "removed"]
    /\ dropped' = dropped \cup ToSet(taskQueue[w])
    /\ UNCHANGED <<taskQueue, runningTasks, timers, retryCount, settled, dispatched, stops>>

WorkerNext ==
    \/ \E t \in Task : dispatch(t)
    \/ \E w \in Worker : poll(w) \/ stop(w) \/ start(w) \/ removeWorker(w)
    \/ \E w \in Worker, t \in Task : executeTask(w, t) \/ scheduleRetry(w, t)

WorkerSpec == WorkerInit /\ [][WorkerNext]_workerVars

WorkerTypeOK ==
    /\ \A w \in Worker : /\ workerStatus[w] \in {"running", "stopped", "removed"}
                         /\ runningTasks[w] \cup timers[w] \cup ToSet(taskQueue[w]) \subseteq Task
    /\ \A t \in Task : retryCount[t] \in Nat

Places(t) ==
    {<<w, "queue", i>> : <<w, i>> \in {<<w, i>> \in Worker \X (1..Cardinality(Task)) :
                                          i \in DOMAIN taskQueue[w] /\ taskQueue[w][i] = t}}
    \cup {<<w, "running", 0>> : w \in {w \in Worker : t \in runningTasks[w]}}
    \cup {<<w, "timer", 0>> : w \in {w \in Worker : t \in timers[w]}}

\* A dispatched task is at one place, a queue, a worker or a delay, until it is settled or was
\* dropped with its worker: no failure, stop or restart loses or doubles it.
TaskIsInOnePlace ==
    \A t \in dispatched \ (settled \cup dropped) : Cardinality(Places(t)) = 1

\* No task is tried more than once and maxRetries times again, counting the attempts that found
\* no node, and what is settled is not tried again.
RetriesAreBounded ==
    /\ \A t \in Task : retryCount[t] <= maxRetries
    /\ \A t \in settled : Places(t) = {}

-----------------------------------------------------------------------------
(***************************************************************************)
(* src/lib/sandbox/SandboxManager.ts: sandboxes that are created, report,  *)
(* break limits, are stopped or killed, and the monitor over them.         *)
(*                                                                         *)
(* Time is counted in rounds of the monitor.  A sandbox that is created    *)
(* runs after a delay, whatever happened to it meanwhile: one that was     *)
(* stopped runs again.                                                     *)
(***************************************************************************)

CONSTANTS
    Sandbox,
    timeout, removal,   \* ages at which it is killed, and time from a stop to the removal
    maxTasks

VARIABLES
    sandboxStatus,      \* status[s]: "none" before, "creating", "running", "stopped"
    stored,             \* the sandboxes of the map
    starting,           \* those whose delay is not over
    age,
    removals            \* removals[s]: time left until the map forgets it, 0: not to be removed

sandboxVars == <<sandboxStatus, stored, starting, age, removals>>

SandboxHorizon == timeout + 2

SandboxInit ==
    /\ sandboxStatus = [s \in Sandbox |-> "none"]
    /\ stored = {} /\ starting = {}
    /\ age = [s \in Sandbox |-> 0]
    /\ removals = [s \in Sandbox |-> 0]

Running == {s \in stored : sandboxStatus[s] = "running"}

\* Memory and CPU of the node may forbid it, too; only what runs already counts.
canRunOnNode == Cardinality(Running) < maxTasks

createSandbox(s) ==
    /\ sandboxStatus[s] = "none"
    /\ canRunOnNode
    /\ sandboxStatus' = [sandboxStatus EXCEPT ![s] = "creating"]
    /\ stored' = stored \cup {s}
    /\ starting' = starting \cup {s}
    /\ UNCHANGED <<age, removals>>

\* The delay is over.
started(s) ==
    /\ s \in starting
    /\ sandboxStatus' = [sandboxStatus EXCEPT ![s] = "running"]
    /\ starting' = starting \ {s}
    /\ UNCHANGED <<stored, age, removals>>

\* A second stop starts a second timer; the earlier one removes the sandbox.
stopSandbox(s) ==
    /\ s \in stored
    /\ sandboxStatus' = [sandboxStatus EXCEPT ![s] = "stopped"]
    /\ removals' = [removals EXCEPT ![s] = IF @ = 0 THEN removal ELSE @]
    /\ UNCHANGED <<stored, starting, age>>

\* On request, or for a violation that is reported with the action "killed".
killSandbox(s) ==
    /\ s \in stored
    /\ sandboxStatus' = [sandboxStatus EXCEPT ![s] = "stopped"]
    /\ stored' = stored \ {s}
    /\ UNCHANGED <<starting, age, removals>>

Overdue(aged) == {s \in Running : aged[s] > timeout}

\* A second passes: timers of removals run off, and the monitor kills what is
\* overdue.  A start takes a tenth of that.
monitorSandboxes ==
    /\ starting = {}
    /\ age' = [s \in Sandbox |-> IF s \in stored /\ age[s] < SandboxHorizon THEN age[s] + 1 ELSE age[s]]
    /\ removals' = [s \in Sandbox |-> IF removals[s] > 0 THEN removals[s] - 1 ELSE 0]
    /\ stored' = (stored \ {s \in Sandbox : removals[s] = 1}) \ Overdue(age')
    /\ sandboxStatus' = [s \in Sandbox |-> IF s \in Overdue(age') THEN "stopped" ELSE sandboxStatus[s]]
    /\ UNCHANGED starting

SandboxNext ==
    \/ \E s \in Sandbox : createSandbox(s) \/ started(s) \/ stopSandbox(s) \/ killSandbox(s)
    \/ monitorSandboxes

SandboxSpec == SandboxInit /\ [][SandboxNext]_sandboxVars

SandboxTypeOK ==
    /\ sandboxStatus \in [Sandbox -> {"none", "creating", "running", "stopped"}]
    /\ stored \subseteq Sandbox /\ starting \subseteq Sandbox
    /\ \A s \in Sandbox : age[s] \in 0..SandboxHorizon /\ removals[s] \in 0..removal

\* Nothing in the map runs for longer than its timeout, also what a late start brought back after
\* it was stopped.
RunningIsYoung == \A s \in Running : age[s] <= timeout

=============================================================================
