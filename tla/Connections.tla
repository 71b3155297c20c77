---------------------------- MODULE Connections -----------------------------
(***************************************************************************)
(* Websockets of the dashboard: the pool and the socket of a page. They    *)
(* share nothing; each has its own initial states, next-state relation and *)
(* properties.                                                             *)
(***************************************************************************)
EXTENDS Naturals, SequencesExt

(***************************************************************************)
(* src/lib/websocket-pool.ts: connections to one URL that are shared,      *)
(* closed when idle and opened again after a loss, with messages queued    *)
(* meanwhile.                                                              *)
(*                                                                         *)
(* The delays of reconnections and of idleness may end at any time.  A     *)
(* socket reports an error before it closes.  A connection that was closed *)
(* and still has subscriptions is opened again, outside the pool.          *)
(***************************************************************************)

CONSTANTS
    Connection, Message,
    maxConnections, maxReconnectAttempts

VARIABLES
    pool,            \* connections in the pool
    state,           \* "none" before a connection is created
    sockets,         \* sockets of a connection that are opening, open or closing
    failing,         \* those whose socket reported an error and is about to close
    poolTimers,      \* reconnections that wait for their delay
    poolReconnectAttempts,
    subscribed,      \* connections with a subscription
    poolMessageQueue, delivered,
    sent             \* history: what send() was given, in order

poolVars == <<pool, state, sockets, failing, poolTimers, poolReconnectAttempts, subscribed, poolMessageQueue, delivered, sent>>

PoolInit ==
    /\ pool = {}
    /\ state = [c \in Connection |-> "none"]
    /\ sockets = [c \in Connection |-> 0]
    /\ failing = {}
    /\ poolTimers = [c \in Connection |-> 0]
    /\ poolReconnectAttempts = [c \in Connection |-> 0]
    /\ subscribed = {}
    /\ poolMessageQueue = [c \in Connection |-> <<>>]
    /\ delivered = [c \in Connection |-> <<>>]
    /\ sent = [c \in Connection |-> <<>>]

messages == <<poolMessageQueue, delivered, sent>>
PoolOpen == {c \in pool : state[c] = "open"}

\* An open connection is shared; else a new one is made.
acquire(c, subscription) ==
    /\ \/ /\ c \in PoolOpen
          /\ UNCHANGED <<pool, state, sockets>>
       \/ /\ PoolOpen = {} /\ state[c] = "none" /\ Cardinality(pool) < maxConnections
          /\ pool' = pool \cup {c}
          /\ state' = [state EXCEPT ![c] = "connecting"]
          /\ sockets' = [sockets EXCEPT ![c] = @ + 1]
    /\ subscribed' = IF subscription THEN subscribed \cup {c} ELSE subscribed
    /\ UNCHANGED <<failing, poolTimers, poolReconnectAttempts, messages>>

\* Mutant: the last queued message is sent first.
mFlushed(q) == Reverse(q)

Flushed(q) == q

poolOnopen(c) ==
    /\ sockets[c] > 0 /\ c \notin failing /\ state[c] \in {"connecting", "closed"}
    /\ state' = [state EXCEPT ![c] = "open"]
    /\ poolReconnectAttempts' = [poolReconnectAttempts EXCEPT ![c] = 0]
    /\ delivered' = [delivered EXCEPT ![c] = @ \o Flushed(poolMessageQueue[c])]
    /\ poolMessageQueue' = [poolMessageQueue EXCEPT ![c] = <<>>]
    /\ UNCHANGED <<failing, pool, sockets, poolTimers, subscribed, sent>>

onerror(c) ==
    /\ sockets[c] > 0 /\ c \notin failing
    /\ failing' = failing \cup {c}
    /\ state' = [state EXCEPT ![c] = "closed"]
    /\ UNCHANGED <<pool, sockets, poolTimers, poolReconnectAttempts, subscribed, messages>>

\* handleDisconnect(): a delay, or the end of the connection.
poolOnclose(c) ==
    /\ sockets[c] > 0
    /\ failing' = failing \ {c}
    /\ sockets' = [sockets EXCEPT ![c] = @ - 1]
    /\ state' = [state EXCEPT ![c] = "closed"]
    /\ IF poolReconnectAttempts[c] < maxReconnectAttempts
       THEN /\ poolReconnectAttempts' = [poolReconnectAttempts EXCEPT ![c] = @ + 1]
            /\ poolTimers' = [poolTimers EXCEPT ![c] = @ + 1]
            /\ UNCHANGED pool
       ELSE pool' = pool \ {c} /\ UNCHANGED <<poolReconnectAttempts, poolTimers>>
    /\ UNCHANGED <<subscribed, messages>>

\* A connection without subscriptions stays in the pool as it is.
poolReconnect(c) ==
    /\ poolTimers[c] > 0
    /\ poolTimers' = [poolTimers EXCEPT ![c] = @ - 1]
    /\ sockets' = IF c \in subscribed THEN [sockets EXCEPT ![c] = @ + 1] ELSE sockets
    /\ UNCHANGED <<failing, pool, state, poolReconnectAttempts, subscribed, messages>>

poolSend(c, m) ==
        /\ c \in pool /\ ~Contains(sent[c], m)
        /\ sent' = [sent EXCEPT ![c] = Append(@, m)]
        /\ IF state[c] = "open"
           THEN delivered' = [delivered EXCEPT ![c] = Append(@, m)] /\ UNCHANGED poolMessageQueue
           ELSE poolMessageQueue' = [poolMessageQueue EXCEPT ![c] = Append(@, m)] /\ UNCHANGED delivered
        /\ UNCHANGED <<failing, pool, state, sockets, poolTimers, poolReconnectAttempts, subscribed>>

poolSubscribe(c) ==
    /\ c \in pool
    /\ subscribed' = subscribed \cup {c}
    /\ UNCHANGED <<failing, pool, state, sockets, poolTimers, poolReconnectAttempts, messages>>

poolUnsubscribe(c) ==
    /\ c \in pool \cap subscribed
    /\ subscribed' = subscribed \ {c}
    /\ UNCHANGED <<failing, pool, state, sockets, poolTimers, poolReconnectAttempts, messages>>

\* onclose follows.
closeConnection(c) ==
    /\ c \in pool
    /\ state' = [state EXCEPT ![c] = "closing"]
    /\ pool' = pool \ {c}
    /\ UNCHANGED <<failing, sockets, poolTimers, poolReconnectAttempts, subscribed, messages>>

cleanupIdleConnections(c) == c \in PoolOpen \ subscribed /\ closeConnection(c)

PoolNext ==
    \E c \in Connection :
        \/ poolOnopen(c) \/ onerror(c) \/ poolOnclose(c) \/ poolReconnect(c)
        \/ poolSubscribe(c) \/ poolUnsubscribe(c) \/ closeConnection(c) \/ cleanupIdleConnections(c)
        \/ \E m \in Message : poolSend(c, m)
        \/ \E subscription \in BOOLEAN : acquire(c, subscription)

PoolSpec == PoolInit /\ [][PoolNext]_poolVars

PoolTypeOK ==
    /\ \A c \in Connection :
          /\ state[c] \in {"none", "connecting", "open", "closing", "closed"}
          /\ poolReconnectAttempts[c] \in 0..maxReconnectAttempts
    /\ Cardinality(pool) <= maxConnections
    /\ subscribed \subseteq Connection

\* Whatever is lost, refused, closed and opened again, a connection has one socket or one
\* reconnection to come.
OneSocket == \A c \in Connection : sockets[c] + poolTimers[c] <= 1

\* Messages leave a connection in the order they were given to it, those that waited for it to
\* open too.
MessagesKeepOrder == \A c \in Connection : delivered[c] \o poolMessageQueue[c] = sent[c]

-----------------------------------------------------------------------------
(***************************************************************************)
(* src/lib/websocketClient.ts: the connection of a page to the backend.    *)
(* Each connect() makes a socket of its own, whose events are handled      *)
(* whether or not it is still the one in `ws`.                             *)
(*                                                                         *)
(* Sockets are those of a browser: a failure closes them in one event, a   *)
(* close may take any time.  Pings, and what handlers do, are left out.    *)
(***************************************************************************)

CONSTANTS
    Socket,                  \* sockets in the order in which they are made
    Channel,
    pageReconnects,
    MaxCalls                 \* bound on the calls of subscribe(), of its result and of disconnect()

VARIABLES
    readyState,          \* readyState[s]; "new" before it is made
    ws,                  \* the current socket; 0 if there is none
    isConnecting, pageReconnectAttempts,
    pageTimers,          \* how many reconnect timers are pending
    reconnectTimer,      \* the last of them is remembered
    pageMessageQueue, subscriptions,
    served,              \* served[s]: the channels the server serves on s
    overlapped,          \* history: a socket was made while another was closing
    hung,                \* the loop that empties the queue refills it
    calls

pageVars == <<readyState, ws, isConnecting, pageReconnectAttempts, pageTimers, reconnectTimer, pageMessageQueue,
              subscriptions, served, overlapped, hung, calls>>
timing == <<isConnecting, pageReconnectAttempts, pageTimers, reconnectTimer>>
content == <<pageMessageQueue, subscriptions, served>>

PageInit ==
    /\ readyState = [s \in Socket |-> "new"]
    /\ ws = 0 /\ isConnecting = FALSE /\ pageReconnectAttempts = 0
    /\ pageTimers = 0 /\ reconnectTimer = FALSE
    /\ pageMessageQueue = <<>> /\ subscriptions = {}
    /\ served = [s \in Socket |-> {}]
    /\ overlapped = FALSE /\ hung = FALSE /\ calls = 0

PageOpen == ws # 0 /\ readyState[ws] = "open"

New(s) == readyState[s] = "new" /\ \A t \in Socket : t < s => readyState[t] # "new"

\* A call that finds the client connecting only waits.
Connected == PageOpen \/ isConnecting

Connect ==
    IF Connected
    THEN UNCHANGED <<readyState, ws, isConnecting, overlapped>>
    ELSE \E s \in Socket :
            /\ New(s)
            /\ readyState' = [readyState EXCEPT ![s] = "connecting"]
            /\ ws' = s /\ isConnecting' = TRUE
            /\ overlapped' = (overlapped \/ \E t \in Socket : readyState[t] = "closing")

connect == Connect /\ UNCHANGED <<pageReconnectAttempts, pageTimers, reconnectTimer, content, hung, calls>>

pageReconnect ==
    /\ pageTimers > 0 /\ pageTimers' = pageTimers - 1
    /\ reconnectTimer' = (pageTimers > 1 /\ reconnectTimer)
    /\ Connect
    /\ UNCHANGED <<pageReconnectAttempts, content, hung, calls>>

After(channels, message) ==
    IF message.type = "subscribe" THEN channels \cup {message.channel} ELSE channels \ {message.channel}

\* Sockets that are not the current one are asked nothing.
pageSend(message) ==
        IF PageOpen
        THEN served' = [served EXCEPT ![ws] = After(@, message)] /\ UNCHANGED pageMessageQueue
        ELSE pageMessageQueue' = Append(pageMessageQueue, message) /\ UNCHANGED served

\* After the queue, all channels are asked for.
Asked(s) == subscriptions

\* If s is no longer the current socket, and that one is not open, what is taken from the queue
\* is put into it again, without end.
pageOnopen(s) ==
    LET open == [readyState EXCEPT ![s] = "open"]
        ready == ws # 0 /\ open[ws] = "open"
    IN  /\ readyState[s] = "connecting"
        /\ readyState' = open
        /\ isConnecting' = FALSE /\ pageReconnectAttempts' = 0
        /\ hung' = (pageMessageQueue # <<>> /\ ~ready)
        /\ served' = IF ready THEN [served EXCEPT ![ws] = FoldLeft(After, @, pageMessageQueue) \cup Asked(s)] ELSE served
        /\ pageMessageQueue' = IF ready THEN <<>>
                               ELSE pageMessageQueue \o [i \in 1..Cardinality(subscriptions) |->
                                        [type |-> "subscribe", channel |-> SetToSeq(subscriptions)[i]]]
        /\ UNCHANGED <<ws, pageTimers, reconnectTimer, subscriptions, overlapped, calls>>

closing(s) ==
    /\ readyState[s] = "open" /\ readyState' = [readyState EXCEPT ![s] = "closing"]
    /\ UNCHANGED <<ws, timing, content, overlapped, hung, calls>>

scheduleReconnect ==
    IF pageReconnectAttempts >= pageReconnects
    THEN UNCHANGED <<pageTimers, reconnectTimer, pageReconnectAttempts>>
    ELSE pageTimers' = pageTimers + 1 /\ reconnectTimer' = TRUE /\ pageReconnectAttempts' = pageReconnectAttempts + 1

\* The client is taken not to be connecting, whichever socket this is.
pageOnclose(s) ==
    /\ readyState[s] \in {"connecting", "open", "closing"}
    /\ readyState' = [readyState EXCEPT ![s] = "closed"]
    /\ isConnecting' = FALSE
    /\ scheduleReconnect
    /\ UNCHANGED <<ws, content, overlapped, hung, calls>>

Called == calls < MaxCalls /\ calls' = calls + 1

\* The first handler of a channel.
pageSubscribe(c) ==
    /\ Called /\ c \notin subscriptions
    /\ subscriptions' = subscriptions \cup {c}
    /\ pageSend([type |-> "subscribe", channel |-> c])
    /\ UNCHANGED <<readyState, ws, timing, overlapped, hung>>

\* The last handler of a channel.
pageUnsubscribe(c) ==
    /\ Called /\ c \in subscriptions
    /\ subscriptions' = subscriptions \ {c}
    /\ pageSend([type |-> "unsubscribe", channel |-> c])
    /\ UNCHANGED <<readyState, ws, timing, overlapped, hung>>

\* The close event of the socket, which follows, connects again.
disconnect ==
    /\ Called
    /\ pageTimers' = IF reconnectTimer THEN pageTimers - 1 ELSE pageTimers
    /\ reconnectTimer' = FALSE
    /\ ws' = 0
    /\ readyState' = IF ws # 0 /\ readyState[ws] # "closed" THEN [readyState EXCEPT ![ws] = "closing"] ELSE readyState
    /\ UNCHANGED <<isConnecting, pageReconnectAttempts, content, overlapped, hung>>

PageNext ==
    /\ ~hung
    /\ \/ connect \/ pageReconnect \/ disconnect
       \/ \E s \in Socket : pageOnopen(s) \/ closing(s) \/ pageOnclose(s)
       \/ \E c \in Channel : pageSubscribe(c) \/ pageUnsubscribe(c)

PageSpec == PageInit /\ [][PageNext]_pageVars

PageTypeOK ==
    /\ readyState \in [Socket -> {"new", "connecting", "open", "closing", "closed"}]
    /\ ws \in Socket \cup {0} /\ pageReconnectAttempts \in 0..pageReconnects
    /\ served \in [Socket -> SUBSET Channel] /\ subscriptions \subseteq Channel

\* An open connection serves the channels that have handlers and no others, whatever was asked for
\* and taken back while there was none, and whatever older sockets report.
ServedIsSubscribed == PageOpen => served[ws] = subscriptions

\* Only one socket connects or is open, whoever calls connect() and whatever timer fires, and the page
\* does not hang, as long as none is made while another is closing.
OneAtATime ==
    ~overlapped => ~hung /\ Cardinality({s \in Socket : readyState[s] \in {"connecting", "open", "closing"}}) <= 1

=============================================================================
