----------------------------- MODULE Monitoring -----------------------------
(***************************************************************************)
(* What tells operators of the system: websockets of the backend, the SLA  *)
(* monitor and the alert rules of the dashboard. They share nothing; each  *)
(* has its own initial states, next-state relation and properties.         *)
(***************************************************************************)
EXTENDS Integers, SequencesExt

(***************************************************************************)
(* backend/src/services/websocket-manager.ts: clients of several           *)
(* instances, their subscriptions to one channel, the heartbeat, and       *)
(* broadcasts within an instance and, over Redis, to the others.  Every    *)
(* connection is a client of its own; close() of an instance is the close  *)
(* of all its clients.                                                     *)
(***************************************************************************)

CONSTANTS
    Instance, Client, Broadcast

VARIABLES
    socketAt,    \* at[c]: the instance whose clients c is in, or "new" or "gone"
    isAlive, subscribed, isAuthenticated,
    responsive,  \* peers that still answer
    published,   \* broadcasts on their way from Redis: broadcast, sender, instance, receiver
    sent,        \* broadcasts that were begun, with the clients they exclude
    got,         \* got[c]: how often c was sent a broadcast
    silent       \* silent[c]: ticks of the heartbeat since c was heard of

socketVars == <<socketAt, isAlive, subscribed, isAuthenticated, responsive, published, sent, got, silent>>

clients(i) == {c \in Client : socketAt[c] = i}

SocketInit ==
    /\ socketAt = [c \in Client |-> "new"] /\ isAlive = {} /\ subscribed = {} /\ isAuthenticated = {}
    /\ responsive = {} /\ published = {} /\ sent = {}
    /\ got = [c \in Client |-> [b \in Broadcast |-> 0]] /\ silent = [c \in Client |-> 0]

handleConnection(c, i) ==
    /\ socketAt[c] = "new" /\ socketAt' = [socketAt EXCEPT ![c] = i]
    /\ isAlive' = isAlive \cup {c} /\ responsive' = responsive \cup {c}
    /\ UNCHANGED <<subscribed, isAuthenticated, published, sent, got, silent>>

\* The peer is gone without a close.
vanish(c) ==
    /\ c \in responsive /\ responsive' = responsive \ {c}
    /\ UNCHANGED <<socketAt, isAlive, subscribed, isAuthenticated, published, sent, got, silent>>

Heard(c) ==
    /\ socketAt[c] \in Instance /\ c \in responsive
    /\ isAlive' = isAlive \cup {c} /\ silent' = [silent EXCEPT ![c] = 0]
    /\ UNCHANGED <<responsive, published, sent, got>>

pong(c) == Heard(c) /\ UNCHANGED <<socketAt, subscribed, isAuthenticated>>

\* A client need not have authenticated.
handleSubscribe(c) == Heard(c) /\ subscribed' = subscribed \cup {c} /\ UNCHANGED <<socketAt, isAuthenticated>>

handleUnsubscribe(c) == Heard(c) /\ subscribed' = subscribed \ {c} /\ UNCHANGED <<socketAt, isAuthenticated>>

\* A token that is missing or wrong closes the socket; the close event takes the client out.
handleAuthenticate(c) ==
    /\ Heard(c) /\ UNCHANGED subscribed
    /\ \/ isAuthenticated' = isAuthenticated \cup {c} /\ UNCHANGED socketAt
       \/ socketAt' = [socketAt EXCEPT ![c] = "gone"] /\ UNCHANGED isAuthenticated

close(c) ==
    /\ socketAt[c] \in Instance /\ socketAt' = [socketAt EXCEPT ![c] = "gone"]
    /\ UNCHANGED <<isAlive, subscribed, isAuthenticated, responsive, published, sent, got, silent>>

\* HEARTBEAT_TIMEOUT is longer than two intervals: isAlive decides.
startHeartbeatCheck(i) ==
    /\ socketAt' = [c \in Client |-> IF c \in clients(i) \ isAlive THEN "gone" ELSE socketAt[c]]
    /\ isAlive' = isAlive \ clients(i)
    /\ silent' = [c \in Client |-> IF c \in clients(i) \cap isAlive THEN silent[c] + 1 ELSE silent[c]]
    /\ UNCHANGED <<subscribed, isAuthenticated, responsive, published, sent, got>>

broadcastLocally(i, b, sender) ==
    got' = [c \in Client |-> IF c \in (clients(i) \cap subscribed) \ sender
                             THEN [got[c] EXCEPT ![b] = @ + 1] ELSE got[c]]

\* A publication that fails is logged.
broadcast(i, b, sender) ==
    /\ \A x \in sent : x.b # b
    /\ sent' = sent \cup {[b |-> b, sender |-> sender]}
    /\ broadcastLocally(i, b, sender)
    /\ published' \in {published,
                       published \cup {[b |-> b, sender |-> sender, instance |-> i, receiver |-> j] : j \in Instance}}
    /\ UNCHANGED <<socketAt, isAlive, subscribed, isAuthenticated, responsive, silent>>

onMessage ==
    /\ \E m \in published :
          /\ published' = published \ {m}
          /\ IF m.instance = m.receiver THEN UNCHANGED got ELSE broadcastLocally(m.receiver, m.b, m.sender)
    /\ UNCHANGED <<socketAt, isAlive, subscribed, isAuthenticated, responsive, sent, silent>>

SocketNext ==
    \/ \E c \in Client :
          \/ \E i \in Instance : handleConnection(c, i)
          \/ vanish(c) \/ pong(c) \/ handleSubscribe(c) \/ handleUnsubscribe(c) \/ handleAuthenticate(c) \/ close(c)
    \/ \E i \in Instance :
          \/ startHeartbeatCheck(i)
          \/ \E b \in Broadcast : broadcast(i, b, {}) \/ \E c \in clients(i) : broadcast(i, b, {c})
    \/ onMessage

SocketSpec == SocketInit /\ [][SocketNext]_socketVars

SocketTypeOK ==
    /\ socketAt \in [Client -> Instance \cup {"new", "gone"}]
    /\ isAlive \subseteq Client /\ subscribed \subseteq Client /\ isAuthenticated \subseteq Client
    /\ responsive \subseteq Client
    /\ \A x \in sent : x.b \in Broadcast /\ x.sender \subseteq Client
    /\ \A m \in published : m.b \in Broadcast /\ m.sender \subseteq Client /\ {m.instance, m.receiver} \subseteq Instance

\* A client gets a broadcast at most once, although every instance hears the publication of its
\* own broadcast again and publications arrive in any order; its sender does not get it.
NoEcho ==
    \A c \in Client, x \in sent : got[c][x.b] <= IF c \in x.sender THEN 0 ELSE 1

\* A peer that vanished is out of the map by the second tick of the heartbeat, also if it
\* vanished right after it had answered.
VanishedIsDropped == \A c \in Client : socketAt[c] \in Instance => silent[c] <= 1

-----------------------------------------------------------------------------
(***************************************************************************)
(* backend/src/services/sla-monitor.ts: latencies recorded in a sorted set *)
(* of Redis and the status computed from them while others are recorded.   *)
(*                                                                         *)
(* The members of the set are texts of value and time: equal latencies of  *)
(* one moment are one member.  The other metrics count rows.               *)
(***************************************************************************)

CONSTANTS
    Latency, target,  \* values that are recorded, and the target of the percentile
    percentile,       \* 95 or 99
    window, retention, Horizon  \* Horizon: bound on the time

VARIABLES
    slaNow,
    entries,   \* sla:metrics:latency: value and time
    report,    \* getTargetStatus(): when it began, what it has computed
    recorded   \* history: all that was recorded

slaVars == <<slaNow, entries, report, recorded>>

Idle == [pc |-> "idle", at |-> 0, current |-> 0, status |-> "healthy", trend |-> "stable", seen |-> {}]

SlaInit == slaNow = 0 /\ entries = {} /\ report = Idle /\ recorded = {}

Tick ==
    /\ slaNow < Horizon /\ slaNow' = slaNow + 1
    /\ UNCHANGED <<entries, report, recorded>>

recordMetric(v) ==
    /\ recorded' = recorded \cup {[value |-> v, time |-> slaNow]}
    /\ entries' = {e \in entries : e.time + retention > slaNow} \cup {[value |-> v, time |-> slaNow]}
    /\ UNCHANGED <<slaNow, report>>

\* zrangebyscore of the k-th window before a moment: both ends belong to it.
SlaWindow(at, k) == {e \in entries : e.time + k * window >= at /\ e.time + (k - 1) * window <= at}

\* Math.ceil(percentile / 100 * n), from 1
index(n) == (percentile * n + 99) \div 100

\* The value at a place of the sorted list.
calculateLatency(S) ==
    IF S = {} THEN 0
    ELSE LET Below(v) == {e \in S : e.value < v}
             UpTo(v) == {e \in S : e.value <= v}
             at == {e \in S : Cardinality(Below(e.value)) < index(Cardinality(S))
                              /\ index(Cardinality(S)) <= Cardinality(UpTo(e.value))}
         IN  IF at = {} THEN 0 ELSE (CHOOSE e \in at : TRUE).value

StatusOf(v) == IF v <= target THEN "healthy" ELSE IF 2 * v <= 3 * target THEN "warning" ELSE "breach"

TrendOf(current, previous) ==
    IF current < previous THEN "improving" ELSE IF current > previous THEN "degrading" ELSE "stable"

getTargetStatus ==
    /\ report.pc = "idle"
    /\ report' = [Idle EXCEPT !.pc = "current", !.at = slaNow]
    /\ UNCHANGED <<slaNow, entries, recorded>>

readCurrent ==
    /\ report.pc = "current"
    /\ LET S == SlaWindow(report.at, 1)
       IN  report' = [report EXCEPT !.pc = "previous", !.current = calculateLatency(S), !.seen = S,
                                    !.status = StatusOf(calculateLatency(S))]
    /\ UNCHANGED <<slaNow, entries, recorded>>

readPrevious ==
    /\ report.pc = "previous"
    /\ LET previous == calculateLatency(SlaWindow(report.at, 2))
       IN  report' = [report EXCEPT !.pc = "done", !.trend = TrendOf(report.current, previous)]
    /\ UNCHANGED <<slaNow, entries, recorded>>

return ==
    /\ report.pc = "done" /\ report' = Idle
    /\ UNCHANGED <<slaNow, entries, recorded>>

SlaNext ==
    \/ Tick
    \/ \E v \in Latency : recordMetric(v)
    \/ getTargetStatus \/ readCurrent \/ readPrevious \/ return

SlaSpec == SlaInit /\ [][SlaNext]_slaVars

Sample == [value : Latency, time : 0..Horizon]

SlaTypeOK ==
    /\ slaNow \in 0..Horizon /\ entries \subseteq recorded /\ recorded \subseteq Sample
    /\ report \in [pc : {"idle", "current", "previous", "done"}, at : 0..Horizon, current : Latency \cup {0},
                   status : {"healthy", "warning", "breach"}, trend : {"improving", "degrading", "stable"},
                   seen : SUBSET Sample]

\* The value that is reported is the nearest rank of the percentile, by its definition: the
\* least latency that at least that share of the members of the window does not exceed.
PercentileIsNearestRank ==
    LET S == report.seen
        covers(v) == 100 * Cardinality({e \in S : e.value <= v}) >= percentile * Cardinality(S)
    IN  S # {} =>
          /\ covers(report.current)
          /\ \A e \in S : e.value < report.current => ~covers(e.value)

\* A report of a breach goes back to a latency of its window that is over the target, and a
\* healthy one had the share of the percentile within it, although members of the window may
\* have been trimmed or added since the report began.
BreachWasRecorded ==
    report.pc \in {"previous", "done"} =>
        /\ report.status = "breach" =>
              \E e \in recorded : 2 * e.value > 3 * target /\ e.time + window >= report.at /\ e.time <= report.at
        /\ report.status = "healthy" =>
              100 * Cardinality({e \in report.seen : e.value <= target}) >= percentile * Cardinality(report.seen)

-----------------------------------------------------------------------------
(***************************************************************************)
(* src/hooks/useAlerts.ts: rules on the metrics of nodes, looked at each   *)
(* time that nodes, rules or alerts change, and the alerts they raise.     *)
(*                                                                         *)
(* Minutes are steps.  What a metric was is kept per node and metric, not  *)
(* per rule: a rule that is not breached forgets it for the other rules on *)
(* the same metric.  Messages and severities are left out.                 *)
(***************************************************************************)

CONSTANTS
    Node, Metric,
    rules,               \* in their order; each has a metric, a threshold and a duration
    Level,               \* values of metrics
    AlertWindow, Silence, \* how long what a metric was is kept, and an alert is not repeated
    MaxAlerts,           \* alerts that are kept
    MaxTime              \* bound on the clock

VARIABLES
    alertNow,
    value,               \* value[n][m]
    on,                  \* rules that are enabled
    isEnabled,
    metricHistory,       \* metricHistory[n][m]: when it was found breached, at most twice for a time
    alerts,              \* the newest first
    due,                 \* something changed that the effect depends on
    calm                 \* calm[r][n]: when the rule was last looked at and not breached

alertVars == <<alertNow, value, on, isEnabled, metricHistory, alerts, due, calm>>

Rule == DOMAIN rules

AlertInit ==
    /\ alertNow = 0
    /\ value = [n \in Node |-> [m \in Metric |-> 0]]
    /\ on = Rule /\ isEnabled = TRUE
    /\ metricHistory = [n \in Node |-> [m \in Metric |-> <<>>]]
    /\ alerts = <<>> /\ due = TRUE
    /\ calm = [r \in Rule |-> [n \in Node |-> 0]]

Breached(r, n) == value[n][rules[r].metric] > rules[r].threshold

\* Two of a time say as much as any number of them.
Recorded(history) ==
    LET kept == SelectSeq(history, LAMBDA at : at > alertNow - AlertWindow)
    IN  IF Len(kept) >= 2 /\ kept[Len(kept) - 1] = alertNow THEN kept ELSE Append(kept, alertNow)

Sustained(history, duration) == Len(history) >= 2 /\ alertNow - history[1] >= duration

Existing(r, n) ==
    \E i \in DOMAIN alerts :
        /\ alerts[i].rule = r /\ alerts[i].node = n /\ ~alerts[i].acknowledged
        /\ alertNow - alerts[i].at < Silence

\* One rule on one node, after those before it.
Look(found, r, n) ==
    LET m == rules[r].metric
        history == Recorded(found.history[n][m])
        alert == [rule |-> r, node |-> n, at |-> alertNow, acknowledged |-> FALSE]
    IN  IF r \notin on THEN found
        ELSE IF ~Breached(r, n) THEN [found EXCEPT !.history[n][m] = <<>>]
        ELSE [history |-> [found.history EXCEPT ![n][m] = history],
              raised  |-> IF Sustained(history, rules[r].duration) /\ ~Existing(r, n)
                          THEN Append(found.raised, alert) ELSE found.raised]

Evaluated ==
    FoldLeft(LAMBDA found, r : FoldLeft(LAMBDA f, n : Look(f, r, n), found, SetToSeq(Node)),
             [history |-> metricHistory, raised |-> <<>>], [r \in Rule |-> r])

First(all) == SubSeq(all, 1, Min({Len(all), MaxAlerts}))

\* The effect; alerts that it raises make it run again.
evaluate ==
    /\ due
    /\ IF isEnabled
       THEN /\ metricHistory' = Evaluated.history
            /\ alerts' = IF Evaluated.raised = <<>> THEN alerts ELSE First(Evaluated.raised \o alerts)
            /\ due' = (Evaluated.raised # <<>>)
            /\ calm' = [r \in Rule |-> [n \in Node |-> IF r \in on /\ ~Breached(r, n) THEN alertNow ELSE calm[r][n]]]
       ELSE due' = FALSE /\ UNCHANGED <<metricHistory, alerts, calm>>
    /\ UNCHANGED <<alertNow, value, on, isEnabled>>

\* The effect runs before anything else is done in the page.
tick ==
    /\ ~due /\ alertNow < MaxTime /\ alertNow' = alertNow + 1
    /\ UNCHANGED <<value, on, isEnabled, metricHistory, alerts, due, calm>>

nodesChange ==
    /\ ~due /\ due' = TRUE
    /\ \E n \in Node, m \in Metric, v \in Level : value' = [value EXCEPT ![n][m] = v]
    /\ UNCHANGED <<alertNow, on, isEnabled, metricHistory, alerts, calm>>

\* updateRule(); a rule that is deleted, or is not added yet, is as one that is disabled.
updateRule(r) ==
    /\ ~due /\ due' = TRUE
    /\ on' = IF r \in on THEN on \ {r} ELSE on \cup {r}
    /\ UNCHANGED <<alertNow, value, isEnabled, metricHistory, alerts, calm>>

acknowledgeAlert(i) ==
    /\ ~due /\ due' = TRUE
    /\ alerts' = [alerts EXCEPT ![i].acknowledged = TRUE]
    /\ UNCHANGED <<alertNow, value, on, isEnabled, metricHistory, calm>>

clearAlerts ==
    /\ ~due /\ due' = TRUE
    /\ alerts' = <<>>
    /\ metricHistory' = [n \in Node |-> [m \in Metric |-> <<>>]]
    /\ UNCHANGED <<alertNow, value, on, isEnabled, calm>>

toggleEnabled ==
    /\ ~due /\ due' = TRUE
    /\ isEnabled' = ~isEnabled
    /\ UNCHANGED <<alertNow, value, on, metricHistory, alerts, calm>>

AlertNext ==
    \/ evaluate \/ tick \/ nodesChange \/ clearAlerts \/ toggleEnabled
    \/ \E r \in Rule : updateRule(r)
    \/ \E i \in DOMAIN alerts : acknowledgeAlert(i)

AlertSpec == AlertInit /\ [][AlertNext]_alertVars

AlertTypeOK ==
    /\ alertNow \in 0..MaxTime /\ on \subseteq Rule
    /\ \A n \in Node, m \in Metric : value[n][m] \in Level /\ \A i \in DOMAIN metricHistory[n][m] : metricHistory[n][m][i] \in 0..alertNow
    /\ Len(alerts) <= MaxAlerts

\* An alert that nobody has acknowledged is not repeated before its time: although the effect runs again
\* at once after it has raised one, and whatever rules and alerts are changed.
NotRepeated ==
    \A i, j \in DOMAIN alerts :
        i < j /\ alerts[i].rule = alerts[j].rule /\ alerts[i].node = alerts[j].node /\ ~alerts[j].acknowledged
            => alerts[i].at - alerts[j].at >= Silence

\* An alert is raised only if each look at its rule, for as long as the rule says, found it breached: also if
\* another rule on the same metric, which records and forgets for both of them, comes between.
BreachLasted ==
    [][\A i \in DOMAIN alerts' :
          (alerts'[i].at = alertNow /\ ~alerts'[i].acknowledged /\ alerts'[i] \notin ToSet(alerts))
              => calm[alerts'[i].rule][alerts'[i].node] <= alertNow - rules[alerts'[i].rule].duration]_alertVars

=============================================================================
