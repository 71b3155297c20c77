----------------------------- MODULE ClientSide -----------------------------
(***************************************************************************)
(* Clients of the backend: the websocket client, the data of a page, and   *)
(* the workflows that the dashboard runs. They share nothing; each has its *)
(* own initial states, next-state relation and properties.                 *)
(***************************************************************************)
EXTENDS Naturals, SequencesExt

(***************************************************************************)
(* packages/websocket-client/src/client.ts: one client that reconnects     *)
(* with a bounded number of attempts, and falls back to a stream of        *)
(* server-sent events when a websocket cannot be opened.                   *)
(*                                                                         *)
(* The browser gives a socket that fails an error and then a close event,  *)
(* each later than what caused it; the handlers of a socket that `ws` no   *)
(* longer refers to are still called.  Delays are left out: a timer fires  *)
(* at some time.  What is sent on an open socket reaches the server.       *)
(***************************************************************************)

CONSTANTS
    Channel,
    Socket, Timer,         \* sockets and timers that may be there at once
    maxReconnectAttempts,
    MaxOutages             \* bound on what the server and the user do

VARIABLES
    ws,          \* the socket the client refers to, 0 if none
    readyState,  \* of every socket; "failed": its error event is still to come
    knows,       \* knows[s]: channels that the server has for s
    eventSource, \* "null", "connecting", "open" or "closed"
    subscriptions, isConnecting, isIntentionallyClosed, reconnectAttempts,
    timers, reconnectTimeout,  \* timers that are set, and the one that can be cleared
    gaveUp,      \* reconnect-failed was the last that was heard
    up, started, \* the server is up, connect() was called
    outages

clientVars == <<ws, readyState, knows, eventSource, subscriptions, isConnecting,
                isIntentionallyClosed, reconnectAttempts, timers, reconnectTimeout, gaveUp, up, started, outages>>
Flags == <<isConnecting, isIntentionallyClosed>>
Retrying == <<reconnectAttempts, timers, reconnectTimeout, gaveUp>>
World == <<up, started, outages>>

IsOpen == ws # 0 /\ readyState[ws] = "open"
Connected == IsOpen \/ eventSource = "open"

ClientInit ==
    /\ ws = 0 /\ readyState = [s \in Socket |-> "none"] /\ knows = [s \in Socket |-> {}]
    /\ eventSource = "null" /\ subscriptions = {}
    /\ isConnecting = FALSE /\ isIntentionallyClosed = FALSE
    /\ reconnectAttempts = 0 /\ timers = {} /\ reconnectTimeout = 0 /\ gaveUp = FALSE
    /\ up = TRUE /\ started = FALSE /\ outages = 0

\* connect(): a new socket, unless one is open or being opened.
Connect ==
    IF isConnecting \/ IsOpen
    THEN UNCHANGED <<ws, readyState, knows, Flags>>
    ELSE \E s \in Socket :
            /\ readyState[s] = "none"
            /\ ws' = s
            /\ readyState' = [readyState EXCEPT ![s] = "connecting"]
            /\ knows' = [knows EXCEPT ![s] = {}]
            /\ isConnecting' = TRUE /\ isIntentionallyClosed' = FALSE

connect ==
    /\ outages < MaxOutages /\ outages' = outages + 1
    /\ started' = TRUE /\ Connect
    /\ UNCHANGED <<eventSource, subscriptions, Retrying, up>>

Resubscribed(s) == subscriptions

onopen(s) ==
    /\ readyState[s] = "connecting" /\ up
    /\ readyState' = [readyState EXCEPT ![s] = "open"]
    /\ knows' = [knows EXCEPT ![s] = Resubscribed(s)]
    /\ reconnectAttempts' = 0 /\ gaveUp' = FALSE
    /\ isConnecting' = FALSE
    /\ UNCHANGED <<ws, eventSource, subscriptions, isIntentionallyClosed, timers, reconnectTimeout, World>>

\* Mutant: a connection that failed is not noted as ended.
monerror(s) ==
    /\ readyState[s] = "failed" \/ (readyState[s] = "connecting" /\ ~up)
    /\ readyState' = [readyState EXCEPT ![s] = "closing"]
    /\ eventSource' = "connecting"
    /\ UNCHANGED <<ws, knows, subscriptions, Flags, Retrying, World>>

\* The promise is rejected: connect() falls back to a new EventSource, be the client closed
\* by now or not, and the one before is not closed.
onerror(s) ==
    /\ readyState[s] = "failed" \/ (readyState[s] = "connecting" /\ ~up)
    /\ readyState' = [readyState EXCEPT ![s] = "closing"]
    /\ eventSource' = "connecting" /\ isConnecting' = FALSE
    /\ UNCHANGED <<ws, knows, subscriptions, isIntentionallyClosed, Retrying, World>>

scheduleReconnect ==
    IF reconnectAttempts >= maxReconnectAttempts
    THEN gaveUp' = TRUE /\ UNCHANGED <<reconnectAttempts, timers, reconnectTimeout>>
    ELSE \E t \in Timer \ timers :
            /\ reconnectAttempts' = reconnectAttempts + 1
            /\ timers' = timers \cup {t} /\ reconnectTimeout' = t
            /\ UNCHANGED gaveUp

\* An open socket is lost with the server; a closed one is reported.
onclose(s) ==
    /\ readyState[s] = "closing" \/ (readyState[s] = "open" /\ ~up)
    /\ readyState' = [readyState EXCEPT ![s] = "none"]
    /\ ws' = IF ws = s THEN 0 ELSE ws
    /\ IF isIntentionallyClosed THEN UNCHANGED Retrying ELSE scheduleReconnect
    /\ UNCHANGED <<knows, eventSource, subscriptions, Flags, World>>

reconnect(t) ==
    /\ t \in timers /\ timers' = timers \ {t}
    /\ Connect
    /\ UNCHANGED <<eventSource, subscriptions, reconnectAttempts, reconnectTimeout, gaveUp, World>>

\* connectSSE()
sseOpens ==
    /\ eventSource = "connecting" /\ up
    /\ eventSource' = "open" /\ reconnectAttempts' = 0 /\ gaveUp' = FALSE
    /\ UNCHANGED <<ws, readyState, knows, subscriptions, Flags, timers, reconnectTimeout, World>>

\* An EventSource tries again by itself, or ends up CLOSED.
sseFails ==
    /\ eventSource \in {"connecting", "open"} /\ ~up
    /\ \/ eventSource = "open" /\ eventSource' = "connecting" /\ UNCHANGED Retrying
       \/ /\ eventSource' = "closed"
          /\ IF isIntentionallyClosed THEN UNCHANGED Retrying ELSE scheduleReconnect
    /\ UNCHANGED <<ws, readyState, knows, subscriptions, Flags, World>>

subscribe(c) ==
    /\ c \notin subscriptions /\ subscriptions' = subscriptions \cup {c}
    /\ knows' = IF IsOpen THEN [knows EXCEPT ![ws] = @ \cup {c}] ELSE knows
    /\ UNCHANGED <<ws, readyState, eventSource, Flags, Retrying, World>>

unsubscribe(c) ==
    /\ c \in subscriptions /\ subscriptions' = subscriptions \ {c}
    /\ knows' = IF IsOpen THEN [knows EXCEPT ![ws] = @ \ {c}] ELSE knows
    /\ UNCHANGED <<ws, readyState, eventSource, Flags, Retrying, World>>

\* Only the newest timer is cleared, and a socket that is still connecting fails.
disconnect ==
    /\ outages < MaxOutages /\ outages' = outages + 1
    /\ isIntentionallyClosed' = TRUE
    /\ timers' = timers \ {reconnectTimeout} /\ reconnectTimeout' = 0
    /\ readyState' = IF ws = 0 THEN readyState ELSE
           [readyState EXCEPT ![ws] = CASE @ = "connecting" -> "failed"
                                        [] @ = "open" -> "closing" [] OTHER -> @]
    /\ ws' = 0 /\ eventSource' = "null"
    /\ UNCHANGED <<knows, subscriptions, isConnecting, reconnectAttempts, gaveUp, up, started>>

outage ==
    /\ up /\ outages < MaxOutages /\ up' = FALSE /\ outages' = outages + 1
    /\ UNCHANGED <<ws, readyState, knows, eventSource, subscriptions, Flags, Retrying, started>>

restored ==
    /\ ~up /\ up' = TRUE
    /\ UNCHANGED <<ws, readyState, knows, eventSource, subscriptions, Flags, Retrying, started, outages>>

Events ==
    \/ \E s \in Socket : onopen(s) \/ onerror(s) \/ onclose(s)
    \/ \E t \in Timer : reconnect(t)
    \/ sseOpens \/ sseFails

ClientNext ==
    \/ Events \/ connect \/ disconnect \/ outage \/ restored
    \/ \E c \in Channel : subscribe(c) \/ unsubscribe(c)

ClientSpec == ClientInit /\ [][ClientNext]_clientVars

\* The browser calls the handlers that are due and fires the timers.
ClientFairness ==
    /\ \A s \in Socket : WF_clientVars(onopen(s)) /\ WF_clientVars(onerror(s)) /\ WF_clientVars(onclose(s))
    /\ \A t \in Timer : WF_clientVars(reconnect(t))
    /\ WF_clientVars(sseOpens)

ClientFairSpec == ClientSpec /\ ClientFairness

\* Properties

ClientTypeOK ==
    /\ ws \in Socket \cup {0} /\ timers \subseteq Timer /\ subscriptions \subseteq Channel
    /\ readyState \in [Socket -> {"none", "connecting", "open", "failed", "closing"}]
    /\ knows \in [Socket -> SUBSET Channel] /\ reconnectAttempts \in 0..maxReconnectAttempts
    /\ eventSource \in {"null", "connecting", "open", "closed"}

\* Over an open socket the server has just the channels that the client subscribed to,
\* however often it was lost and whatever was subscribed meanwhile (client.ts:81-84).
SubscriptionsSurvive == IsOpen => knows[ws] = subscriptions

\* A client that wants to be connected is in the end, over one way or the other, once the
\* server stays up, or has said that it gave up (client.ts:66-68, 103-105).
ConnectsOrGivesUp ==
    <>[](up /\ ~isIntentionallyClosed) => <>[](started => Connected \/ gaveUp)

-----------------------------------------------------------------------------
(***************************************************************************)
(* src/hooks/useRealOrchestrator.ts: the list of nodes that a page shows,  *)
(* which is replaced by answers to requests and changed by events, each of *)
(* them at its own time.                                                   *)
(*                                                                         *)
(* The backend is external: its rows change, and each change is an event   *)
(* that may be lost.  Tasks and metrics are fetched and shown likewise.    *)
(***************************************************************************)

CONSTANTS
    Node,
    MaxChanges,      \* bound on the changes of rows
    MaxRequests      \* bound on the requests that are not answered yet

VARIABLES
    rows,          \* rows[n]: version of the row; 0 if there is none
    changes,
    events,        \* what the page has not been told yet, in order
    nodes,         \* what the page shows
    requests       \* rows that were read for requests whose answer is under way, in any order

pageVars == <<rows, changes, events, nodes, requests>>

PageInit ==
    /\ rows = [n \in Node |-> 0] /\ changes = 0
    /\ events = <<>> /\ nodes = <<>> /\ requests = <<>>

Listed(table) == SetToSeq({[id |-> n, version |-> table[n]] : n \in {m \in Node : table[m] # 0}})

\* fetchData(): by the timer, after a call of the page, or by refresh().
fetchData ==
    /\ Len(requests) < MaxRequests
    /\ requests' = Append(requests, Listed(rows))
    /\ UNCHANGED <<rows, changes, events, nodes>>

Shown(answer) == answer

\* Whichever request it belongs to.
answered(i) ==
    /\ nodes' = Shown(requests[i])
    /\ requests' = RemoveAt(requests, i)
    /\ UNCHANGED <<rows, changes, events>>

answeredFirst == requests # <<>> /\ answered(1)

\* Promise.all(): one that fails leaves what is shown.
pageFailed(i) ==
    /\ requests' = RemoveAt(requests, i)
    /\ UNCHANGED <<rows, changes, events, nodes>>

change(n) ==
    /\ changes < MaxChanges /\ changes' = changes + 1
    /\ \E version \in {0, changes'} :
          /\ version # rows[n]
          /\ rows' = [rows EXCEPT ![n] = version]
          /\ LET type == IF version = 0 THEN "delete" ELSE IF rows[n] = 0 THEN "create" ELSE "update"
             IN  events' \in {events, Append(events, [type |-> type, id |-> n, version |-> version])}
    /\ UNCHANGED <<nodes, requests>>

\* A node that is created is added to whatever is shown.
told ==
    LET event == Head(events)
        node == [id |-> event.id, version |-> event.version]
    IN  /\ events # <<>> /\ events' = Tail(events)
        /\ nodes' = CASE event.type = "create" -> Append(nodes, node)
                      [] event.type = "update" -> [i \in DOMAIN nodes |-> IF nodes[i].id = event.id THEN node ELSE nodes[i]]
                      [] event.type = "delete" -> SelectSeq(nodes, LAMBDA m : m.id # event.id)
        /\ UNCHANGED <<rows, changes, requests>>

PageNext ==
    \/ fetchData \/ told
    \/ \E i \in DOMAIN requests : answered(i) \/ pageFailed(i)
    \/ \E n \in Node : change(n)

\* The timer polls, events arrive, and not every request fails.
PageFairness ==
    /\ WF_pageVars(fetchData)
    /\ WF_pageVars(told)
    /\ SF_pageVars(answeredFirst)

PageSpec == PageInit /\ [][PageNext]_pageVars /\ PageFairness

PageTypeOK ==
    /\ rows \in [Node -> 0..MaxChanges] /\ changes \in 0..MaxChanges
    /\ \A i \in DOMAIN nodes : nodes[i].id \in Node /\ nodes[i].version \in 1..MaxChanges
    /\ Len(requests) <= MaxRequests

\* Once the rows have come to rest the page shows them, each of them once, and goes on to: whatever
\* events were lost, told twice over by an answer, or undone by the answer to an older request.
PageCatchesUp == <>[](Len(nodes) = Len(Listed(rows)) /\ ToSet(nodes) = ToSet(Listed(rows)))

-----------------------------------------------------------------------------
(***************************************************************************)
(* src/lib/workflow/WorkflowEngine.ts: one execution of a workflow, the    *)
(* traversals that startWorkflow() and every resumeExecution() begin, and  *)
(* users who pause, resume and cancel while nodes run.                     *)
(*                                                                         *)
(* A traversal is a stack of calls of executeNode().  The condition of an  *)
(* edge is a text that is true unless it is empty: it bars nothing.        *)
(***************************************************************************)

CONSTANTS
    Step, Edge,        \* definition.nodes, and definition.edges as pairs; acyclic
    stepRetries,       \* of definition.retryPolicy
    Traversal,
    MaxFailures        \* bound on runs of nodes that fail

VARIABLES
    status,
    completedNodes, failedNodes,
    traversals,        \* traversals[t]: start nodes left, and its stack
    failures,
    runs,              \* history: how often a node was started
    paused             \* history: pauseExecution() was called

workflowVars == <<status, completedNodes, failedNodes, traversals, failures, runs, paused>>

getStartNodes == {n \in Step : \A e \in Edge : e[2] # n}

Unused == [left |-> {}, stack |-> <<>>, pc |-> "unused"]
Begun == [left |-> getStartNodes, stack |-> <<>>, pc |-> "walk"]

WorkflowInit ==
    /\ status = "none"
    /\ completedNodes = {} /\ failedNodes = {}
    /\ traversals = [t \in Traversal |-> Unused]
    /\ failures = 0 /\ paused = FALSE
    /\ runs = [n \in Step |-> 0]

Top(t) == Last(traversals[t].stack)
Pop(t) == [traversals[t] EXCEPT !.stack = Front(@)]
Replace(t, frame) == [traversals[t] EXCEPT !.stack = Append(Front(@), frame)]

MayRun(n, failed) ==
    /\ status = "running"
    /\ n \notin completedNodes \cup failed
    /\ \A e \in Edge : e[2] = n => e[1] \in completedNodes

\* A call that may not run its node returns to its caller at once.
executeNode(t, n, caller) ==
    IF MayRun(n, failedNodes)
    THEN /\ traversals' = [traversals EXCEPT ![t] =
                [caller EXCEPT !.stack = Append(@, [node |-> n, pc |-> "run", left |-> {}])]]
         /\ runs' = [runs EXCEPT ![n] = @ + 1]
    ELSE traversals' = [traversals EXCEPT ![t] = caller] /\ UNCHANGED runs

executeStartNode(t) ==
    /\ traversals[t].pc = "walk" /\ traversals[t].stack = <<>>
    /\ \E n \in traversals[t].left :
          LET rest == [traversals[t] EXCEPT !.left = @ \ {n}]
          IN  executeNode(t, n, rest)
    /\ UNCHANGED <<status, completedNodes, failedNodes, failures, paused>>

Running(t) == traversals[t].stack # <<>> /\ Top(t).pc = "run"

complete(t) ==
    /\ Running(t)
    /\ completedNodes' = completedNodes \cup {Top(t).node}
    /\ traversals' = [traversals EXCEPT ![t] = Replace(t,
          [Top(t) EXCEPT !.pc = "edges",
                         !.left = {e[2] : e \in {d \in Edge : d[1] = Top(t).node}}])]
    /\ UNCHANGED <<status, failedNodes, failures, runs, paused>>

executeNext(t) ==
    /\ traversals[t].stack # <<>> /\ Top(t).pc = "edges"
    /\ \/ \E n \in Top(t).left :
             LET rest == Replace(t, [Top(t) EXCEPT !.left = @ \ {n}])
             IN  executeNode(t, n, rest)
       \/ Top(t).left = {} /\ traversals' = [traversals EXCEPT ![t] = Pop(t)] /\ UNCHANGED runs
    /\ UNCHANGED <<status, completedNodes, failedNodes, failures, paused>>

\* Every run counts its retries from 0.
fail(t) ==
    /\ Running(t)
    /\ failures < MaxFailures /\ failures' = failures + 1
    /\ failedNodes' = failedNodes \cup {Top(t).node}
    /\ traversals' = [traversals EXCEPT ![t] =
          IF stepRetries > 0 THEN Replace(t, [Top(t) EXCEPT !.pc = "retry"]) ELSE Pop(t)]
    /\ UNCHANGED <<status, completedNodes, runs, paused>>

retry(t) ==
    /\ traversals[t].stack # <<>> /\ Top(t).pc = "retry"
    /\ failedNodes' = failedNodes \ {Top(t).node}
    /\ LET n == Top(t).node
       IN  IF MayRun(n, failedNodes')
           THEN /\ traversals' = [traversals EXCEPT ![t] = Replace(t, [Top(t) EXCEPT !.pc = "run"])]
                /\ runs' = [runs EXCEPT ![n] = @ + 1]
           ELSE traversals' = [traversals EXCEPT ![t] = Pop(t)] /\ UNCHANGED runs
    /\ UNCHANGED <<status, completedNodes, failures, paused>>

finish(t) ==
    /\ traversals[t].pc = "walk" /\ traversals[t].stack = <<>> /\ traversals[t].left = {}
    /\ traversals' = [traversals EXCEPT ![t].pc = "done"]
    /\ status' = IF status = "running" /\ Step \subseteq completedNodes \cup failedNodes
                 THEN "completed" ELSE status
    /\ UNCHANGED <<completedNodes, failedNodes, failures, runs, paused>>

executeWorkflow(from) ==
    /\ status = from /\ status' = "running"
    /\ \E t \in Traversal : traversals[t] = Unused /\ traversals' = [traversals EXCEPT ![t] = Begun]
    /\ UNCHANGED <<completedNodes, failedNodes, failures, runs, paused>>

startWorkflow == executeWorkflow("none")

resumeExecution == executeWorkflow("paused")

cancelExecution ==
    /\ status = "running" /\ status' = "cancelled"
    /\ UNCHANGED <<completedNodes, failedNodes, traversals, failures, runs, paused>>

pauseExecution ==
    /\ status = "running" /\ status' = "paused" /\ paused' = TRUE
    /\ UNCHANGED <<completedNodes, failedNodes, traversals, failures, runs>>

Walk(t) == executeStartNode(t) \/ executeNext(t) \/ retry(t) \/ finish(t)

WorkflowNext ==
    \/ \E t \in Traversal : Walk(t) \/ complete(t) \/ fail(t)
    \/ startWorkflow \/ cancelExecution \/ pauseExecution \/ resumeExecution

WorkflowSpec == WorkflowInit /\ [][WorkflowNext]_workflowVars

\* The calls go on, and what a node waits for settles.
WorkflowFairness == \A t \in Traversal : WF_workflowVars(Walk(t)) /\ WF_workflowVars(complete(t) \/ fail(t))

WorkflowFairSpec == WorkflowSpec /\ WorkflowFairness

WorkflowTypeOK ==
    /\ status \in {"none", "running", "completed", "cancelled", "paused"}
    /\ completedNodes \subseteq Step /\ failedNodes \subseteq Step
    /\ failures \in 0..MaxFailures /\ paused \in BOOLEAN

\* However traversals overlap, a node completes after all it depends on.
PredecessorsFirst ==
    \A e \in Edge : e[2] \in completedNodes => e[1] \in completedNodes

\* Neither a retry nor a second traversal runs a node that is done.
DoneIsNotRepeated == [][\A n \in completedNodes : runs'[n] = runs[n]]_workflowVars

\* A cancellation is kept, and so is an end, while nodes that were running come back.
EndedStays == [][(status \in {"cancelled", "completed"}) => status' = status]_workflowVars

\* A workflow that nobody pauses, and where nothing fails, ends.
WorkflowEnds == status = "running" ~> status # "running" \/ paused \/ failures > 0

=============================================================================
