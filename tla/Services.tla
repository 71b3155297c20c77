------------------------------ MODULE Services ------------------------------
(***************************************************************************)
(* The services under apps/ with their task service and schedulers, and    *)
(* the accounts, sessions and API keys of the backend. They share nothing; *)
(* each has its own initial states, next-state relation and properties.    *)
(***************************************************************************)
EXTENDS Naturals, Sequences, FiniteSets

(***************************************************************************)
(* The services under apps/: the task service and its table, the node      *)
(* service, and scheduler services that hear of new tasks over the event   *)
(* bus, replicate what they decide and tell the task service.              *)
(*                                                                         *)
(* Leadership and replication are those of packages/raft-consensus; here a *)
(* scheduler may lose or win it at any time, two may hold it at once, and  *)
(* a decision whose replication reports failure may be in the log.  The    *)
(* scheduler sends no credentials: that its requests reach the routes of   *)
(* the task service is up to what lies between them.                       *)
(***************************************************************************)

CONSTANTS
    Task, Node, Scheduler,
    Request,     \* requests to the task service
    Authorised,  \* a proxy adds the service token to what the schedulers send
    MaxChanges   \* bound on changes of leadership and of nodes, and on requests to schedule

Statuses == {"PENDING", "SCHEDULED", "RUNNING", "COMPLETED", "FAILED", "CANCELLED"}
NoNode == "none"

VARIABLES
    statusOf, nodeId,  \* columns of a task; "none": no row
    calls,           \* calls[c]: the task whose event is still to be published, and the event
    events,          \* the topic tasks.events: a sequence for every key
    heard,            \* heard[s][t]: how much of events[t] the consumer of s has taken
    leader,          \* schedulers for which isLeader() holds
    work,            \* work[s]: the scheduleTask() that s is in
    decisions,       \* commands in the replicated log
    healthy,         \* what /internal/nodes/healthy returns
    changes          \* counts against MaxChanges

servicesVars == <<statusOf, nodeId, calls, events, heard, leader, work, decisions, healthy, changes>>
Outside == <<leader, healthy, changes>>
Schedulers == <<heard, work, decisions>>

Resting == [pc |-> "idle", task |-> 0, node |-> NoNode]

ServicesInit ==
    /\ statusOf = [t \in Task |-> "none"] /\ nodeId = [t \in Task |-> NoNode]
    /\ calls = [c \in Request |-> [pc |-> "idle", task |-> 0, event |-> ""]]
    /\ events = [t \in Task |-> <<>>]
    /\ heard = [s \in Scheduler |-> [t \in Task |-> 0]]
    /\ leader = {} /\ healthy = {} /\ decisions = {}
    /\ work = [s \in Scheduler |-> Resting]
    /\ changes = 0

\* The task service: TaskService over PostgresTaskRepository

\* updateStatus(): UPDATE ... WHERE id, whatever the status was.
updateStatus(t, s) == statusOf' = [statusOf EXCEPT ![t] = s]

\* A call writes the row first; its event is published in a step of its own.
Write(c, t, s, event) ==
    /\ calls[c].pc = "idle"
    /\ updateStatus(t, s)
    /\ calls' = [calls EXCEPT ![c] = [pc |-> "written", task |-> t, event |-> event]]
    /\ UNCHANGED <<events, Schedulers, Outside>>

createTask(c, t) == statusOf[t] = "none" /\ Write(c, t, "PENDING", "TaskCreated") /\ UNCHANGED nodeId

cancelTask(c, t) == statusOf[t] # "none" /\ Write(c, t, "CANCELLED", "TaskCancelled") /\ UNCHANGED nodeId

completeTask(c, t) == statusOf[t] # "none" /\ Write(c, t, "COMPLETED", "TaskCompleted") /\ UNCHANGED nodeId

\* A retry only resets the row: it is announced as a failure, and retryCount is the caller's.
failTask(c, t) ==
    /\ statusOf[t] # "none" /\ UNCHANGED nodeId
    /\ \E s \in {"FAILED", "PENDING"} : Write(c, t, s, "TaskFailed")

publish(c) ==
    /\ calls[c].pc = "written"
    /\ events' = [events EXCEPT ![calls[c].task] = Append(@, calls[c].event)]
    /\ calls' = [calls EXCEPT ![c].pc = "answered"]
    /\ UNCHANGED <<statusOf, nodeId, Schedulers, Outside>>

\* The scheduler service

Go(s, w) == work' = [work EXCEPT ![s] = w]
KeepTasks == UNCHANGED <<statusOf, nodeId, calls>>

\* The consumer takes the next event of a key; only a leader acts on it, and it is not
\* given again when the handler fails.
subscribeToEvents(s, t) ==
    /\ work[s].pc = "idle" /\ heard[s][t] < Len(events[t])
    /\ heard' = [heard EXCEPT ![s][t] = @ + 1]
    /\ IF events[t][heard'[s][t]] = "TaskCreated" /\ s \in leader
       THEN Go(s, [Resting EXCEPT !.pc = "getTask", !.task = t])
       ELSE UNCHANGED work
    /\ UNCHANGED <<events, decisions, Outside>> /\ KeepTasks

\* GET /tasks/:id, which throws without a token, and for a row that is gone.
getTask(s) ==
    /\ work[s].pc = "getTask"
    /\ IF Authorised /\ statusOf[work[s].task] = "PENDING" THEN Go(s, [work[s] EXCEPT !.pc = "getNodes"])
                                                       ELSE Go(s, Resting)
    /\ UNCHANGED <<events, heard, decisions, Outside>> /\ KeepTasks

getNodes(s) ==
    /\ work[s].pc = "getNodes"
    /\ \/ healthy = {} /\ Go(s, Resting)
       \/ \E n \in healthy : Go(s, [work[s] EXCEPT !.pc = "replicate", !.node = n])
    /\ UNCHANGED <<events, heard, decisions, Outside>> /\ KeepTasks

replicate(s) ==
    /\ work[s].pc = "replicate"
    /\ \/ /\ decisions' = decisions \cup {<<work[s].task, work[s].node>>}
          /\ Go(s, [work[s] EXCEPT !.pc = "post"])
       \/ decisions' = decisions \cup {<<work[s].task, work[s].node>>} /\ Go(s, Resting)
       \/ UNCHANGED decisions /\ Go(s, Resting)
    /\ UNCHANGED <<events, heard, Outside>> /\ KeepTasks

\* POST /internal/tasks/:id/schedule; the status that getTask() saw is not looked at again.
post(s) ==
    LET t == work[s].task
    IN  /\ work[s].pc = "post"
        /\ updateStatus(t, "SCHEDULED")
        /\ nodeId' = [nodeId EXCEPT ![t] = work[s].node]
        /\ Go(s, [work[s] EXCEPT !.pc = "publish"])
        /\ UNCHANGED <<calls, events, heard, decisions, Outside>>

\* TaskScheduled by the task service, and the decision by the scheduler on another topic.
publishScheduled(s) ==
    /\ work[s].pc = "publish"
    /\ events' = [events EXCEPT ![work[s].task] = Append(@, "TaskScheduled")]
    /\ Go(s, Resting)
    /\ UNCHANGED <<heard, decisions, Outside>> /\ KeepTasks

\* POST /schedule/:taskId
schedule(s, t) ==
    /\ work[s].pc = "idle" /\ s \in leader /\ changes < MaxChanges
    /\ Go(s, [Resting EXCEPT !.pc = "getTask", !.task = t])
    /\ changes' = changes + 1
    /\ UNCHANGED <<events, heard, decisions, leader, healthy>> /\ KeepTasks

\* Raft and the node service

becameLeader(s) ==
    /\ changes < MaxChanges /\ changes' = changes + 1
    /\ leader' = IF s \in leader THEN leader \ {s} ELSE leader \cup {s}
    /\ UNCHANGED <<statusOf, nodeId, calls, events, Schedulers, healthy>>

\* A node that registers is OFFLINE; a heartbeat makes it ONLINE, and it is left out when
\* its last one is 30 seconds old, when it is full or in maintenance.
heartbeat(n) ==
    /\ changes < MaxChanges /\ changes' = changes + 1
    /\ healthy' = IF n \in healthy THEN healthy \ {n} ELSE healthy \cup {n}
    /\ UNCHANGED <<statusOf, nodeId, calls, events, Schedulers, leader>>

ServicesNext ==
    \/ \E c \in Request : \/ publish(c)
                          \/ \E t \in Task : createTask(c, t) \/ cancelTask(c, t) \/ completeTask(c, t) \/ failTask(c, t)
    \/ \E s \in Scheduler : \/ getTask(s) \/ getNodes(s) \/ replicate(s) \/ post(s) \/ publishScheduled(s)
                            \/ becameLeader(s)
                            \/ \E t \in Task : subscribeToEvents(s, t) \/ schedule(s, t)
    \/ \E n \in Node : heartbeat(n)

ServicesSpec == ServicesInit /\ [][ServicesNext]_servicesVars

\* Properties

ServicesTypeOK ==
    /\ statusOf \in [Task -> Statuses \cup {"none"}] /\ nodeId \in [Task -> Node \cup {NoNode}]
    /\ leader \subseteq Scheduler /\ decisions \subseteq Task \X Node
    /\ \A s \in Scheduler, t \in Task : heard[s][t] <= Len(events[t])

\* The table knows no node for a task that the log does not, whichever schedulers hold
\* themselves for the leader (scheduler-service/src/index.ts:134-145).
OnlyDecidedIsScheduled == \A t \in Task : nodeId[t] # NoNode => <<t, nodeId[t]>> \in decisions

-----------------------------------------------------------------------------
(***************************************************************************)
(* backend/src/routes/auth.ts and plugins/auth.ts: accounts, sessions with *)
(* refresh tokens that rotate, and API keys.                               *)
(*                                                                         *)
(* Every handler is one step per statement that reaches the database; the  *)
(* unique columns of schema.prisma make a write throw.  A token is a       *)
(* number, passwords and roles are left out.  A session of the table keeps *)
(* its token for logout() and its refreshToken; 0: the row is gone.        *)
(***************************************************************************)

CONSTANTS
    Email, Register,   \* addresses, and calls of POST /register
    Refresh, KeyUse,   \* calls of POST /refresh, and requests with the API key
    MaxTokens          \* bound on the refresh tokens that are made

VARIABLES
    users,        \* rows of accounts: the email of each
    registers,
    sessions,     \* rows; the id of one is its first token
    issued, replaced, \* tokens made so far, and those that a refresh replaced
    refreshes,    \* late: the token presented had been replaced before
    key, keyUses  \* the row of the API key; late: it was deleted before the request

authVars == <<users, registers, sessions, issued, replaced, refreshes, key, keyUses>>
KeepAccounts == UNCHANGED <<users, registers>>
KeepSessions == UNCHANGED <<sessions, issued, replaced, refreshes>>
KeepKey == UNCHANGED <<key, keyUses>>

AuthInit ==
    /\ users = {} /\ registers = [r \in Register |-> [pc |-> "idle", email |-> ""]]
    /\ sessions = {} /\ issued = 0 /\ replaced = {}
    /\ refreshes = [r \in Refresh |-> [pc |-> "idle", session |-> 0, late |-> FALSE]]
    /\ key = "none" /\ keyUses = [u \in KeyUse |-> [pc |-> "idle", late |-> FALSE]]

\* POST /register

register(r, e) ==
    /\ registers[r].pc = "idle"
    /\ registers' = [registers EXCEPT ![r] =
           [pc |-> IF \E u \in users : u.email = e THEN "taken" ELSE "hashing", email |-> e]]
    /\ UNCHANGED users /\ KeepSessions /\ KeepKey

\* user.create, after the password was hashed: the email is unique.
createUser(r) ==
    LET e == registers[r].email
        free == \A u \in users : u.email # e
    IN  /\ registers[r].pc = "hashing"
        /\ users' = IF free THEN users \cup {[email |-> e, by |-> r]} ELSE users
        /\ registers' = [registers EXCEPT ![r].pc = IF free THEN "created" ELSE "failed"]
        /\ KeepSessions /\ KeepKey

\* Sessions

\* POST /login stores the refresh token as the token of the session, too.
login ==
    /\ users # {} /\ issued < MaxTokens
    /\ issued' = issued + 1
    /\ sessions' = sessions \cup
           {[id |-> issued', token |-> issued', refreshToken |-> issued']}
    /\ UNCHANGED <<replaced, refreshes>> /\ KeepAccounts /\ KeepKey

\* POST /refresh: session.findUnique of the token that is presented; the session may
\* have expired by now.
refresh(r, t) ==
    LET found == {s \in sessions : s.refreshToken = t}
    IN  /\ refreshes[r].pc = "idle"
        /\ \E expired \in BOOLEAN :
              refreshes' = [refreshes EXCEPT ![r] =
                  IF found = {} \/ expired
                  THEN [pc |-> "refused", session |-> 0, late |-> t \in replaced]
                  ELSE [pc |-> "found", session |-> (CHOOSE s \in found : TRUE).id,
                        late |-> t \in replaced]]
        /\ UNCHANGED <<sessions, issued, replaced>> /\ KeepAccounts /\ KeepKey

Rotated(s) == {[id |-> s.id, token |-> issued + 1, refreshToken |-> issued + 2]}

\* session.update by the id that was found, whatever its tokens are now; it throws
\* when the row is gone.  The answer holds the new tokens.
rotate(r) ==
    LET own == {s \in sessions : s.id = refreshes[r].session}
    IN  /\ refreshes[r].pc = "found" /\ issued + 2 <= MaxTokens
        /\ issued' = issued + 2
        /\ sessions' = (sessions \ own) \cup UNION {Rotated(s) : s \in own}
        /\ replaced' = replaced \cup {s.refreshToken : s \in own}
        /\ refreshes' = [refreshes EXCEPT ![r].pc = IF own = {} THEN "failed" ELSE "done"]
        /\ KeepAccounts /\ KeepKey

\* POST /logout, let in by the API key: it deletes the session whose token is the
\* Bearer token.  The token of a login is a JWT, which no row holds.
logout(t) ==
    /\ key = "live"
    /\ sessions' = {s \in sessions : s.token # t}
    /\ UNCHANGED <<issued, replaced, refreshes>> /\ KeepAccounts /\ KeepKey

\* API keys

createKey == users # {} /\ key = "none" /\ key' = "live" /\ UNCHANGED keyUses /\ KeepSessions /\ KeepAccounts
expireKey == key = "live" /\ key' = "expired" /\ UNCHANGED keyUses /\ KeepSessions /\ KeepAccounts
deleteKey == key \in {"live", "expired"} /\ key' = "deleted" /\ UNCHANGED keyUses /\ KeepSessions /\ KeepAccounts

\* authenticate(): apiKey.findUnique ...
findKey(u) ==
    /\ keyUses[u].pc = "idle" /\ key # "none"
    /\ keyUses' = [keyUses EXCEPT ![u].pc = IF key = "live" THEN "found" ELSE "refused"]
    /\ UNCHANGED key /\ KeepSessions /\ KeepAccounts

\* ... and lastUsedAt: the update of a row that is gone throws, which is a 401.
recordUse(u) ==
    /\ keyUses[u].pc = "found"
    /\ keyUses' = [keyUses EXCEPT ![u] =
           [pc |-> IF key = "deleted" THEN "refused" ELSE "in", late |-> key = "deleted"]]
    /\ UNCHANGED key /\ KeepSessions /\ KeepAccounts

AuthNext ==
    \/ \E r \in Register : createUser(r) \/ \E e \in Email : register(r, e)
    \/ login
    \/ \E r \in Refresh : rotate(r) \/ \E t \in 1..issued : refresh(r, t)
    \/ \E t \in 1..issued : logout(t)
    \/ createKey \/ expireKey \/ deleteKey
    \/ \E u \in KeyUse : findKey(u) \/ recordUse(u)

AuthSpec == AuthInit /\ [][AuthNext]_authVars

\* Properties

AuthTypeOK ==
    /\ users \subseteq [email : Email, by : Register] /\ issued \in 0..MaxTokens
    /\ sessions \subseteq [id : 1..MaxTokens, token : 1..MaxTokens,
                           refreshToken : 1..MaxTokens]
    /\ replaced \subseteq 1..issued
    /\ key \in {"none", "live", "expired", "deleted"}

\* Two calls that register an address at once both find it free: still it has one
\* account (auth.ts:49-58).
OneAccountPerEmail == \A u, v \in users : u.email = v.email => u = v

\* A refresh token that another request replaced is refused, and only requests that
\* found it before may still go through (auth.ts:188-204): no answer after that.
ReplacedTokenIsRefused == \A r \in Refresh : refreshes[r].late => refreshes[r].pc = "refused"

\* A key that was deleted while a request looked it up does not let that request in
\* (plugins/auth.ts:29-43).
DeletedKeyLetsNobodyIn == \A u \in KeyUse : keyUses[u].pc = "in" => ~keyUses[u].late

=============================================================================
