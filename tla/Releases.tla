------------------------------ MODULE Releases ------------------------------
(***************************************************************************)
(* What is handed on: the task queue of the dashboard, the event store and *)
(* blue-green deployments. They share nothing; each has its own initial    *)
(* states, next-state relation and properties.                             *)
(***************************************************************************)
EXTENDS Integers, SequencesExt

(***************************************************************************)
(* src/lib/queue/TaskQueueManager.ts: the manager over its default         *)
(* adapter, queues in memory, with workers that listen to                  *)
(* 'message.consumed' and acknowledge or refuse what they heard of.        *)
(*                                                                         *)
(* emit() catches what a listener throws, so handleFailure() is never      *)
(* called.  initialize() after shutdown() registers one more handler and,  *)
(* if no loop ended meanwhile, leaves several loops at work.               *)
(***************************************************************************)

CONSTANTS
    Item, Critical,      \* the messages, and those of priority critical; the others are medium
    Listener,            \* listeners
    Loop, MaxStarts      \* loops that may be there, and bound on initialize()

VARIABLES
    queues,              \* queues[p]: the messages of priority p
    retryCount,
    processing,          \* ids
    stats,
    handlers,            \* number of handlers
    isConsuming,
    loops,               \* loops[l]: the message it hands out and the next handler
    queueHeard,          \* heard[w][m]: times that w heard of m and did not answer yet
    starts,
    produced             \* history: messages that were enqueued

queueVars == <<queues, retryCount, processing, stats, handlers, isConsuming, loops, queueHeard, starts, produced>>

Priorities == <<"critical", "high", "medium", "low">>

priority == [m \in Item |-> IF m \in Critical THEN "critical" ELSE "medium"]

Off == [pc |-> "off"]
Top == [pc |-> "top"]

QueueInit ==
    /\ queues = [p \in ToSet(Priorities) |-> <<>>]
    /\ retryCount = [m \in Item |-> 0]
    /\ processing = {}
    /\ stats = [pending |-> 0, processing |-> 0, completed |-> 0, failed |-> 0]
    /\ handlers = 0 /\ isConsuming = FALSE /\ starts = 0
    /\ loops = [l \in Loop |-> Off]
    /\ queueHeard = [w \in Listener |-> [m \in Item |-> 0]]
    /\ produced = {}

Queued(m) == m \in ToSet(queues[priority[m]])

\* A critical message goes before those that wait, later ones before earlier ones.
produce(m) ==
    queues' = [queues EXCEPT ![priority[m]] = IF priority[m] = "critical" THEN <<m>> \o @ ELSE Append(@, m)]

enqueue(m) ==
    /\ m \notin produced /\ produced' = produced \cup {m}
    /\ produce(m)
    /\ stats' = [stats EXCEPT !.pending = @ + 1]
    /\ UNCHANGED <<retryCount, processing, handlers, isConsuming, loops, queueHeard, starts>>

\* A loop that sleeps or awaits when shutdown() is called goes on if a start comes in time.
consume ==
    /\ handlers' = handlers + 1
    /\ isConsuming' = TRUE
    /\ IF isConsuming THEN UNCHANGED loops
       ELSE \E l \in Loop : loops[l] = Off /\ loops' = [loops EXCEPT ![l] = Top]

initialize ==
    /\ starts < MaxStarts /\ starts' = starts + 1
    /\ consume
    /\ UNCHANGED <<queues, retryCount, processing, stats, queueHeard, produced>>

shutdown ==
    /\ isConsuming /\ isConsuming' = FALSE
    /\ UNCHANGED <<queues, retryCount, processing, stats, handlers, loops, queueHeard, starts, produced>>

endLoop(l) ==
    /\ loops[l] = Top /\ ~isConsuming
    /\ loops' = [loops EXCEPT ![l] = Off]
    /\ UNCHANGED <<queues, retryCount, processing, stats, handlers, isConsuming, queueHeard, starts, produced>>

Emit(m) == queueHeard' = [w \in Listener |-> [queueHeard[w] EXCEPT ![m] = @ + 1]]

After(m, next) == IF next <= handlers THEN [pc |-> "handle", message |-> m, next |-> next] ELSE Top

\* The first handler hears of the message before anything else happens.
getNextMessage(l) ==
    /\ loops[l] = Top /\ isConsuming
    /\ \E i \in 1..4 :
          LET p == Priorities[i]
              m == Head(queues[p])
          IN  /\ queues[p] # <<>> /\ \A j \in 1..(i - 1) : queues[Priorities[j]] = <<>>
              /\ queues' = [queues EXCEPT ![p] = Tail(@)]
              /\ processing' = processing \cup {m}
              /\ stats' = [stats EXCEPT !.pending = @ - 1, !.processing = @ + 1]
              /\ Emit(m)
              /\ loops' = [loops EXCEPT ![l] = After(m, 2)]
    /\ UNCHANGED <<retryCount, handlers, isConsuming, starts, produced>>

\* The next one hears of it after an await.
handle(l) ==
    /\ loops[l].pc = "handle"
    /\ Emit(loops[l].message)
    /\ loops' = [loops EXCEPT ![l] = After(loops[l].message, loops[l].next + 1)]
    /\ UNCHANGED <<queues, retryCount, processing, stats, handlers, isConsuming, starts, produced>>

Answer(w, m) == queueHeard[w][m] > 0 /\ queueHeard' = [queueHeard EXCEPT ![w][m] = @ - 1]

\* Nothing happens to a message that another answer settled.
ack(w, m) ==
    /\ Answer(w, m)
    /\ IF m \in processing
       THEN /\ processing' = processing \ {m}
            /\ stats' = [stats EXCEPT !.processing = @ - 1, !.completed = @ + 1]
       ELSE UNCHANGED <<processing, stats>>
    /\ UNCHANGED <<queues, retryCount, handlers, isConsuming, loops, starts, produced>>

nack(w, m, requeue) ==
    /\ Answer(w, m)
    /\ \/ /\ m \in processing
          /\ processing' = processing \ {m}
          /\ IF requeue /\ retryCount[m] < 3
             THEN /\ retryCount' = [retryCount EXCEPT ![m] = @ + 1]
                  /\ produce(m)
                  /\ stats' = [stats EXCEPT !.processing = @ - 1, !.pending = @ + 1]
             ELSE /\ stats' = [stats EXCEPT !.processing = @ - 1, !.failed = @ + 1]
                  /\ UNCHANGED <<queues, retryCount>>
       \/ m \notin processing /\ UNCHANGED <<queues, retryCount, processing, stats>>
    /\ UNCHANGED <<handlers, isConsuming, loops, starts, produced>>

QueueNext ==
    \/ \E m \in Item : enqueue(m)
    \/ initialize \/ shutdown
    \/ \E l \in Loop : endLoop(l) \/ getNextMessage(l) \/ handle(l)
    \/ \E w \in Listener, m \in Item : ack(w, m) \/ \E requeue \in BOOLEAN : nack(w, m, requeue)

QueueSpec == QueueInit /\ [][QueueNext]_queueVars

QueueTypeOK ==
    /\ \A p \in ToSet(Priorities) : \A i \in DOMAIN queues[p] : priority[queues[p][i]] = p
    /\ retryCount \in [Item -> 0..3] /\ processing \subseteq Item
    /\ handlers \in 0..MaxStarts /\ isConsuming \in BOOLEAN

Total == Len(queues["critical"]) + Len(queues["high"]) + Len(queues["medium"]) + Len(queues["low"])

\* However many loops and handlers a restart leaves, and whichever of the workers that heard of
\* a message answers first, a message is in one place: it waits, is processed or is settled, and
\* the counters say how many are where.
EveryMessageIsOnce ==
    /\ \A m \in Item : ~(Queued(m) /\ m \in processing)
    /\ Total = Cardinality({m \in Item : Queued(m)})
    /\ stats.pending = Total /\ stats.processing = Cardinality(processing)
    /\ stats.completed + stats.failed = Cardinality({m \in produced : ~Queued(m) /\ m \notin processing})

-----------------------------------------------------------------------------
(***************************************************************************)
(* src/lib/events/EventStore.ts: events with a version for each aggregate, *)
(* of which the latest are kept, and published to subscribers.             *)
(*                                                                         *)
(* An event is published after the publisher has answered, so between      *)
(* append() and that answer others append, subscribe and leave.  Replays   *)
(* and projections only read the stored events.                            *)
(***************************************************************************)

CONSTANTS
    Event,                \* the calls of append(); each makes one event
    Aggregate,
    Subscriber,
    maxEventsInMemory

VARIABLES
    events,               \* the stored ones, oldest first
    eventIndex,           \* place in events, counted from 1; 0 where there is no entry
    aggregateVersions,
    subscriptions,
    stage,                \* stage[e]: "none", "publishing", "published", "rejected"
    of,                   \* of[e]: aggregate and version
    due,                  \* due[e]: who had subscribed when e was appended and stayed since
    eventHeard            \* heard[s][e]: how often a subscriber was called for an event

eventVars == <<events, eventIndex, aggregateVersions, subscriptions, stage, of, due, eventHeard>>

EventInit ==
    /\ events = <<>>
    /\ eventIndex = [e \in Event |-> 0]
    /\ aggregateVersions = [a \in Aggregate |-> 0]
    /\ subscriptions = {}
    /\ stage = [e \in Event |-> "none"]
    /\ of = [e \in Event |-> [aggregate |-> CHOOSE a \in Aggregate : TRUE, version |-> 0]]
    /\ due = [e \in Event |-> {}]
    /\ eventHeard = [s \in Subscriber |-> [e \in Event |-> 0]]

rebuildIndex(kept) == [e \in Event |-> IF Contains(kept, e) THEN CHOOSE i \in DOMAIN kept : kept[i] = e ELSE 0]

append(e, a) ==
    /\ stage[e] = "none"
    /\ LET stored == Append(events, e)
           removed == Len(stored) - maxEventsInMemory
           kept == IF removed > 0 THEN SubSeq(stored, removed + 1, Len(stored)) ELSE stored
       IN  /\ events' = kept
           /\ eventIndex' = IF removed > 0 THEN rebuildIndex(kept) ELSE [eventIndex EXCEPT ![e] = Len(stored)]
    /\ aggregateVersions' = [aggregateVersions EXCEPT ![a] = @ + 1]
    /\ of' = [of EXCEPT ![e] = [aggregate |-> a, version |-> aggregateVersions[a] + 1]]
    /\ stage' = [stage EXCEPT ![e] = "publishing"]
    /\ due' = [due EXCEPT ![e] = subscriptions]
    /\ UNCHANGED <<subscriptions, eventHeard>>

\* Types and filters of a subscription are taken to match.
Receivers(e) == subscriptions

\* The publisher answers: the subscribers of now are called.
publish(e) ==
    /\ stage[e] = "publishing"
    /\ stage' = [stage EXCEPT ![e] = "published"]
    /\ eventHeard' = [s \in Subscriber |-> IF s \in Receivers(e) THEN [eventHeard[s] EXCEPT ![e] = @ + 1] ELSE eventHeard[s]]
    /\ UNCHANGED <<events, eventIndex, aggregateVersions, subscriptions, of, due>>

\* The publisher throws: append() does too, and the event stays.
publisherFails(e) ==
    /\ stage[e] = "publishing"
    /\ stage' = [stage EXCEPT ![e] = "rejected"]
    /\ UNCHANGED <<events, eventIndex, aggregateVersions, subscriptions, of, due, eventHeard>>

subscribe(s) ==
    /\ s \notin subscriptions
    /\ subscriptions' = subscriptions \cup {s}
    /\ UNCHANGED <<events, eventIndex, aggregateVersions, stage, of, due, eventHeard>>

unsubscribe(s) ==
    /\ s \in subscriptions
    /\ subscriptions' = subscriptions \ {s}
    /\ due' = [e \in Event |-> due[e] \ {s}]
    /\ UNCHANGED <<events, eventIndex, aggregateVersions, stage, of, eventHeard>>

getEvents(a, fromVersion) ==
    SelectSeq(events, LAMBDA e : of[e].aggregate = a /\ of[e].version > fromVersion)

EventNext ==
    \/ \E e \in Event, a \in Aggregate : append(e, a)
    \/ \E e \in Event : publish(e) \/ publisherFails(e)
    \/ \E s \in Subscriber : subscribe(s) \/ unsubscribe(s)

EventSpec == EventInit /\ [][EventNext]_eventVars

EventTypeOK ==
    /\ \A i \in DOMAIN events : events[i] \in Event
    /\ Len(events) <= maxEventsInMemory
    /\ subscriptions \subseteq Subscriber

\* Who asks getEvents() for what follows the last version it knows gets the versions up to the
\* present one without a gap, or learns from the first of them that the rest was dropped; and the
\* index leads to each stored event, also after the oldest were dropped.
StoredIsLatest ==
    /\ \A a \in Aggregate, from \in 0..Cardinality(Event) :
          LET rest == getEvents(a, from)
          IN  \A i \in DOMAIN rest : of[rest[i]].version = aggregateVersions[a] - Len(rest) + i
    /\ \A e \in Event : eventIndex[e] # 0 => eventIndex[e] \in DOMAIN events /\ events[eventIndex[e]] = e

\* A subscriber hears once of every event that was published and that was appended while it was
\* subscribed, though the event may have been dropped from memory before the publisher answered.
SubscribersHear ==
    \A e \in Event, s \in Subscriber :
        /\ eventHeard[s][e] <= 1
        /\ (stage[e] = "published" /\ s \in due[e]) => eventHeard[s][e] = 1

-----------------------------------------------------------------------------
(***************************************************************************)
(* src/lib/deployment/BlueGreenDeploymentManager.ts: deployments that bring *)
(* a version to the idle slot, move traffic to it and watch it, failures   *)
(* and cancellations that move it back.                                    *)
(*                                                                         *)
(* What nodes and health checks answer is a choice.  A deployment is       *)
(* "validating" until the watch over its traffic is over, and a            *)
(* cancellation does not stop the execution it cancels.                    *)
(***************************************************************************)

CONSTANTS Deployment, rolloutPercentage   \* percentages that a configuration may ask for

VARIABLES
    deployments,
    at,                 \* at[d]: where the execution is
    activeDeployment,   \* 0: none yet
    trafficSplit,       \* percentage of "blue"; the rest is of "green"
    disturbed           \* history: deployments cancelled, or beside which another execution ran

releaseVars == <<deployments, at, activeDeployment, trafficSplit, disturbed>>

Slots == {"blue", "green"}
Other(slot) == IF slot = "blue" THEN "green" ELSE "blue"
On(slot, split) == IF slot = "blue" THEN split ELSE 100 - split
Active == {d \in Deployment : at[d] \notin {"none", "over"}}

NoDeployment == [status |-> "none", target |-> "green", activeSlot |-> "blue", percentage |-> 100,
                 rollbackOnFailure |-> TRUE, before |-> 100]

ReleaseInit ==
    /\ deployments = [d \in Deployment |-> NoDeployment]
    /\ at = [d \in Deployment |-> "none"]
    /\ activeDeployment = 0
    /\ trafficSplit = 100
    /\ disturbed = {}

Status(d, status) == deployments' = [deployments EXCEPT ![d].status = status]

shiftTraffic(slot, percentage) ==
    trafficSplit' = IF slot = "blue" THEN percentage ELSE 100 - percentage

rollback(d) == shiftTraffic(deployments[d].activeSlot, 100)

\* An earlier deployment bars this one only while its nodes are deployed to.
startDeployment(d) ==
    /\ deployments[d].status = "none"
    /\ activeDeployment # 0 => deployments[activeDeployment].status # "deploying"
    /\ \E p \in rolloutPercentage, r \in BOOLEAN :
          LET target == IF trafficSplit >= 50 THEN "green" ELSE "blue"
          IN  deployments' = [deployments EXCEPT ![d] =
                  [status |-> "deploying", target |-> target, activeSlot |-> Other(target),
                   percentage |-> p, rollbackOnFailure |-> r, before |-> trafficSplit]]
    /\ at' = [at EXCEPT ![d] = "deploying"]
    /\ activeDeployment' = d
    /\ disturbed' = disturbed \cup (IF Active = {} THEN {} ELSE Active \cup {d})
    /\ UNCHANGED trafficSplit

executeFails(d) ==
    /\ Status(d, "failed")
    /\ at' = [at EXCEPT ![d] = "over"]
    /\ IF deployments[d].rollbackOnFailure THEN rollback(d) ELSE UNCHANGED trafficSplit

\* The last node was deployed to, or there was none.
deployed(d) ==
    /\ at[d] = "deploying"
    /\ \/ Status(d, "validating") /\ at' = [at EXCEPT ![d] = "validating"] /\ UNCHANGED trafficSplit
       \/ executeFails(d)
    /\ UNCHANGED <<activeDeployment, disturbed>>

Completed(d) ==
    /\ deployments' = [deployments EXCEPT ![d].status = "active", ![d].activeSlot = deployments[d].target]
    /\ at' = [at EXCEPT ![d] = "over"]

\* Health checks have answered: too few are healthy, or traffic moves.
validateHealth(d) ==
    /\ at[d] = "validating"
    /\ \/ executeFails(d)
       \/ /\ shiftTraffic(deployments[d].target, deployments[d].percentage)
          /\ IF deployments[d].rollbackOnFailure
             THEN at' = [at EXCEPT ![d] = "monitoring"] /\ UNCHANGED deployments
             ELSE Completed(d)
    /\ UNCHANGED <<activeDeployment, disturbed>>

\* The error rate exceeded the threshold, which rolls back twice, or the minute is over.
monitorForRollback(d) ==
    /\ at[d] = "monitoring"
    /\ \/ executeFails(d)
       \/ Completed(d) /\ UNCHANGED trafficSplit
    /\ UNCHANGED <<activeDeployment, disturbed>>

cancelDeployment(d) ==
    /\ deployments[d].status \in {"deploying", "validating"}
    /\ rollback(d)
    /\ Status(d, "failed")
    /\ disturbed' = disturbed \cup {d}
    /\ UNCHANGED <<at, activeDeployment>>

ReleaseNext ==
    \E d \in Deployment :
        \/ startDeployment(d) \/ deployed(d) \/ validateHealth(d)
        \/ monitorForRollback(d) \/ cancelDeployment(d)

ReleaseSpec == ReleaseInit /\ [][ReleaseNext]_releaseVars

ReleaseTypeOK ==
    /\ \A d \in Deployment : deployments[d].status \in {"none", "deploying", "validating", "active", "failed"}
    /\ trafficSplit \in 0..100

\* The latest deployment, once it ended, unless it was cancelled or another one was at work beside
\* it, has left the traffic where its status says: its share on the new version, everything on the
\* slot that had most of it before, or the split as it was where no rollback was asked for.
TrafficIsAsReported ==
    \A d \in Deployment \ disturbed :
        LET D == deployments[d]
        IN  (d = activeDeployment /\ at[d] = "over") =>
               CASE D.status = "active" -> On(D.target, trafficSplit) = D.percentage
                 [] D.status = "failed" /\ D.rollbackOnFailure -> On(Other(D.target), trafficSplit) = 100
                 [] OTHER -> trafficSplit = D.before

=============================================================================
