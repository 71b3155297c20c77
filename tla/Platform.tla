------------------------------ MODULE Platform ------------------------------
(***************************************************************************)
(* Platform packages: streams, experiments, the container of services, the *)
(* certificate authority and database transactions. They share nothing;    *)
(* each has its own initial states, next-state relation and properties.    *)
(***************************************************************************)
EXTENDS Naturals, Sequences, FiniteSets

(***************************************************************************)
(* packages/analytics/src/stream-processor.ts: events gathered in windows  *)
(* of time, whose aggregates a loop publishes when they have ended.        *)
(*                                                                         *)
(* The loop waits for each publication; the next one starts beside it.     *)
(* Events are counted, which is what every aggregate begins with.          *)
(***************************************************************************)

CONSTANTS
    Group, windowSize, windowHorizon,
    Loop,               \* runs of processWindows() that may overlap
    MaxEvents           \* bound on the events of a window

VARIABLES
    now,
    windows,            \* windows[k]: endTime and events, or NoWindow
    publishing,         \* publishing[l]: the window and count that loop l publishes
    added,              \* history: the events that came for a key
    published           \* history: the counts published for a key

streamVars == <<now, windows, publishing, added, published>>

Key == Group \X (0 .. windowHorizon \div windowSize)
NoWindow == [endTime |-> 0, events |-> 0]
Idle == [key |-> <<>>, count |-> 0]

StreamInit ==
    /\ now = 1
    /\ windows = [k \in Key |-> NoWindow]
    /\ publishing = [l \in Loop |-> Idle]
    /\ added = [k \in Key |-> 0]
    /\ published = [k \in Key |-> {}]

getWindowKey(g) == <<g, now \div windowSize>>

processEvent(g) ==
    LET k == getWindowKey(g)
        window == IF windows[k] = NoWindow THEN [endTime |-> now + windowSize, events |-> 0] ELSE windows[k]
    IN  /\ added[k] < MaxEvents
        /\ windows' = [windows EXCEPT ![k] = [window EXCEPT !.events = @ + 1]]
        /\ added' = [added EXCEPT ![k] = @ + 1]
        /\ UNCHANGED <<now, publishing, published>>

Ended(k) == windows[k] # NoWindow /\ windows[k].endTime <= now

\* A loop goes through the windows that have ended; one that another loop is
\* publishing is still there.
processWindows(l, k) ==
    /\ publishing[l] = Idle /\ Ended(k)
    /\ publishing' = [publishing EXCEPT ![l] = [key |-> k, count |-> windows[k].events]]
    /\ UNCHANGED <<now, windows, added, published>>

emitWindowResults(l) ==
    /\ publishing[l] # Idle
    /\ published' = [published EXCEPT ![publishing[l].key] = @ \cup {publishing[l].count}]
    /\ windows' = [windows EXCEPT ![publishing[l].key] = NoWindow]
    /\ publishing' = [publishing EXCEPT ![l] = Idle]
    /\ UNCHANGED <<now, added>>

\* The window stays and the loop ends; another run finds it.
publishFails(l) ==
    /\ publishing[l] # Idle
    /\ publishing' = [publishing EXCEPT ![l] = Idle]
    /\ UNCHANGED <<now, windows, added, published>>

tick == now < windowHorizon /\ now' = now + 1 /\ UNCHANGED <<windows, publishing, added, published>>

StreamNext ==
    \/ \E g \in Group : processEvent(g)
    \/ \E l \in Loop : emitWindowResults(l) \/ publishFails(l) \/ \E k \in Key : processWindows(l, k)
    \/ tick

StreamSpec == StreamInit /\ [][StreamNext]_streamVars

StreamTypeOK ==
    /\ now \in 1..windowHorizon
    /\ \A k \in Key : windows[k].events \in 0..MaxEvents /\ windows[k].endTime \in 0..(windowHorizon + windowSize)

\* What was published for a window counts all its events: none comes between the count and the
\* removal of the window, however long publishing takes, and none is in a window that is gone.
PublishedIsWhole == \A k \in Key : published[k] \subseteq {added[k]}

-----------------------------------------------------------------------------
(***************************************************************************)
(* packages/chaos/src/chaos-engine.ts: one experiment, which may be        *)
(* started again while it runs, and the timers that end it.                *)
(*                                                                         *)
(* A fault is an event that other services react to; another event ends    *)
(* it.  Which fault it is makes no difference here.                        *)
(***************************************************************************)

CONSTANTS
    Start,       \* the calls of startExperiment()
    MaxStops     \* bound on the calls of stopExperiment()

VARIABLES
    status,               \* of the record in `experiments`
    starts,               \* starts[s]: how far the call is
    timers,               \* the calls whose timer has not fired
    activeExperiments,    \* the call whose timer is remembered; 0 if there is none
    stops,                \* calls of stopExperiment() by hand
    completing,           \* how many of them, and of fired timers, are publishing
    injected,             \* history: the last event that was published is a fault
    lost                  \* history: the event that ends a fault could not be published

chaosVars == <<status, starts, timers, activeExperiments, stops, completing, injected, lost>>

ChaosInit ==
    /\ status = "none"
    /\ starts = [s \in Start |-> "idle"]
    /\ timers = {} /\ activeExperiments = 0
    /\ stops = 0 /\ completing = 0
    /\ injected = FALSE /\ lost = FALSE

\* A new record, whatever the old one says.
startExperiment(s) ==
    /\ starts[s] = "idle" /\ starts' = [starts EXCEPT ![s] = "publishing"]
    /\ status' = "running"
    /\ UNCHANGED <<timers, activeExperiments, stops, completing, injected, lost>>

inject(s) ==
    /\ starts[s] = "publishing" /\ starts' = [starts EXCEPT ![s] = "published"]
    /\ injected' = TRUE
    /\ UNCHANGED <<status, timers, activeExperiments, stops, completing, lost>>

\* The record stays as it is.
injectFails(s) ==
    /\ starts[s] = "publishing" /\ starts' = [starts EXCEPT ![s] = "failed"]
    /\ UNCHANGED <<status, timers, activeExperiments, stops, completing, injected, lost>>

Timed(s) == {s}

started(s) ==
    /\ starts[s] = "published" /\ starts' = [starts EXCEPT ![s] = "done"]
    /\ timers' = timers \cup Timed(s)
    /\ activeExperiments' = IF Timed(s) = {} THEN activeExperiments ELSE s
    /\ UNCHANGED <<status, stops, completing, injected, lost>>

\* Only the timer that is remembered is cleared.
Stop(pending) ==
    /\ timers' = pending \ {activeExperiments}
    /\ activeExperiments' = 0
    /\ status' = "completed"
    /\ completing' = completing + 1
    /\ UNCHANGED <<starts, injected, lost>>

stopExperiment == status # "none" /\ stops < MaxStops /\ stops' = stops + 1 /\ Stop(timers)

timeout(s) == s \in timers /\ Stop(timers \ {s}) /\ UNCHANGED stops

completed ==
    /\ completing > 0 /\ completing' = completing - 1
    /\ injected' = FALSE
    /\ UNCHANGED <<status, starts, timers, activeExperiments, stops, lost>>

completionFails ==
    /\ completing > 0 /\ completing' = completing - 1
    /\ lost' = TRUE
    /\ UNCHANGED <<status, starts, timers, activeExperiments, stops, injected>>

ChaosNext ==
    \/ \E s \in Start : startExperiment(s) \/ inject(s) \/ injectFails(s) \/ started(s) \/ timeout(s)
    \/ stopExperiment \/ completed \/ completionFails

ChaosSpec == ChaosInit /\ [][ChaosNext]_chaosVars

ChaosTypeOK ==
    /\ status \in {"none", "running", "completed"}
    /\ starts \in [Start -> {"idle", "publishing", "published", "done", "failed"}]
    /\ timers \subseteq Start /\ activeExperiments \in timers \cup {0}

\* No fault lasts for ever: as long as the last word on an experiment is its fault, something that
\* ends it is under way, also if it was stopped while it was starting or started twice; unless the
\* event that ends it could not be published.
FaultsEnd ==
    injected => timers # {} \/ completing > 0 \/ lost \/ \E s \in Start : starts[s] = "published"

-----------------------------------------------------------------------------
(***************************************************************************)
(* packages/integration/src/service-container.ts: calls of initialize()    *)
(* and shutdown(), which start and stop the parts of a service one after   *)
(* the other, and any of which may throw.                                  *)
(***************************************************************************)

CONSTANTS Starting, Stopping     \* calls of initialize() and of shutdown()

VARIABLES
    up,            \* parts that run
    at,            \* at[c]: the step that the call is at; 0 before and after
    called,        \* calls that have begun
    initialized,
    overlapped     \* history: an initialize() and a shutdown() were under way together

containerVars == <<up, at, called, initialized, overlapped>>

Parts == <<"eventBus", "vault", "tracing", "streamProcessor", "realTimeAnalytics", "mtls", "sandbox">>

\* Neither the analytics nor the sandbox are stopped.
Closing == <<"websocket", "tracing", "streamProcessor", "eventBus", "cache", "rateLimiter", "db", "vault">>

ContainerInit ==
    /\ up = {"cache", "rateLimiter", "db"}
    /\ at = [c \in Starting \cup Stopping |-> 0]
    /\ called = {} /\ initialized = FALSE /\ overlapped = FALSE

UnderWay(calls) == \E c \in calls : at[c] > 0

Begin(c, others) ==
    /\ c \notin called /\ called' = called \cup {c}
    /\ at' = [at EXCEPT ![c] = 1]
    /\ overlapped' = (overlapped \/ UnderWay(others))
    /\ UNCHANGED <<up, initialized>>

\* `initialized` is looked at once, and nothing ever resets it.
initialize(c) == ~initialized /\ Begin(c, Stopping)

shutdown(c) == Begin(c, Starting)

Last(c) == at[c] = Len(Parts)

start(c) ==
    /\ at[c] > 0 /\ up' = up \cup {Parts[at[c]]}
    /\ at' = [at EXCEPT ![c] = IF @ = Len(Parts) THEN 0 ELSE @ + 1]
    /\ initialized' = (initialized \/ Last(c))
    /\ UNCHANGED <<called, overlapped>>

\* Without a sandbox it goes on; what else throws ends the call and stops nothing.
startFails(c) ==
    /\ at[c] > 0 /\ at' = [at EXCEPT ![c] = 0]
    /\ initialized' = (initialized \/ Parts[at[c]] = "sandbox")
    /\ UNCHANGED <<up, called, overlapped>>

stop(c) ==
    /\ at[c] > 0 /\ up' = up \ {Closing[at[c]]}
    /\ at' = [at EXCEPT ![c] = IF @ = Len(Closing) THEN 0 ELSE @ + 1]
    /\ UNCHANGED <<called, initialized, overlapped>>

stopFails(c) ==
    /\ at[c] > 0 /\ at' = [at EXCEPT ![c] = 0]
    /\ UNCHANGED <<up, called, initialized, overlapped>>

connectWebSocket ==
    /\ "websocket" \notin up /\ up' = up \cup {"websocket"}
    /\ UNCHANGED <<at, called, initialized, overlapped>>

ContainerNext ==
    \/ \E c \in Starting : initialize(c) \/ start(c) \/ startFails(c)
    \/ \E c \in Stopping : shutdown(c) \/ stop(c) \/ stopFails(c)
    \/ connectWebSocket

ContainerSpec == ContainerInit /\ [][ContainerNext]_containerVars

ContainerTypeOK ==
    /\ up \subseteq {Parts[i] : i \in DOMAIN Parts} \cup {Closing[i] : i \in DOMAIN Closing}
    /\ at \in [Starting \cup Stopping -> 0..Len(Closing)] /\ called \subseteq DOMAIN at

\* A container that says it is initialized has everything up but, perhaps, the sandbox, whichever of
\* several calls was first and whichever failed: as long as nobody has shut it down.
InitializedIsUp ==
    initialized /\ called \cap Stopping = {} =>
        {"eventBus", "vault", "tracing", "streamProcessor", "realTimeAnalytics", "mtls"} \subseteq up

\* The stream processor has its event bus wherever a start or a stop breaks off, unless starts and
\* stops overlap.
ProcessorHasItsBus == ~overlapped => ("streamProcessor" \in up => "eventBus" \in up)

-----------------------------------------------------------------------------
(***************************************************************************)
(* packages/security/src/mtls.ts: a certificate authority whose key is on  *)
(* disk and whose requests, certificates and revocations are in memory, in *)
(* a process that may end at any time.                                     *)
(*                                                                         *)
(* Signatures are taken to be sound.  Time is left out: the expiry, read   *)
(* from JSON, is a string, and no date is greater than it.                 *)
(***************************************************************************)

CONSTANTS
    Request,        \* requests; the certificate of one has its name
    MaxRestarts     \* bound on the ends of the process

VARIABLES
    disk,           \* disk.cert and disk.key: which key pair each file is of; 0 if there is none
    ca,             \* the key pair in memory; 0 before initialize()
    writing,        \* the certificate of the CA is written and its key is not
    pairs,          \* how many key pairs were generated
    requests,       \* requests[r]: "none", "pending", "issued", "rejected", or "lost" in a restart
    certificates, crl,
    signer,         \* signer[r]: the key pair that signed the certificate of r; 0 if none did
    restarts

authorityVars == <<disk, ca, writing, pairs, requests, certificates, crl, signer, restarts>>
issuing == <<requests, certificates, crl, signer>>

AuthorityInit ==
    /\ disk = [cert |-> 0, key |-> 0]
    /\ ca = 0 /\ writing = FALSE /\ pairs = 0
    /\ requests = [r \in Request |-> "none"]
    /\ certificates = {} /\ crl = {}
    /\ signer = [r \in Request |-> 0]
    /\ restarts = 0

Loadable == disk.cert # 0 /\ disk.key # 0

loadCA ==
    /\ Loadable /\ ~writing
    /\ ca' = disk.key
    /\ UNCHANGED <<disk, writing, pairs, issuing, restarts>>

\* Two files, one after the other, with nothing in between but an end of the process.
generateCA ==
    /\ ~Loadable /\ ~writing
    /\ pairs' = pairs + 1 /\ ca' = pairs'
    /\ disk' = [disk EXCEPT !.cert = pairs'] /\ writing' = TRUE
    /\ UNCHANGED <<issuing, restarts>>

writeKey ==
    /\ writing /\ writing' = FALSE
    /\ disk' = [disk EXCEPT !.key = ca]
    /\ UNCHANGED <<ca, pairs, issuing, restarts>>

createCertificateRequest(r) ==
    /\ ~writing /\ requests[r] = "none"
    /\ requests' = [requests EXCEPT ![r] = "pending"]
    /\ UNCHANGED <<disk, ca, writing, pairs, certificates, crl, signer, restarts>>

signCertificate(r) == signer' = [signer EXCEPT ![r] = ca]

approveCertificate(r) ==
    /\ ~writing /\ requests[r] = "pending" /\ ca # 0
    /\ requests' = [requests EXCEPT ![r] = "issued"]
    /\ certificates' = certificates \cup {r}
    /\ signCertificate(r)
    /\ UNCHANGED <<disk, ca, writing, pairs, crl, restarts>>

rejectCertificate(r) ==
    /\ ~writing /\ requests[r] = "pending"
    /\ requests' = [requests EXCEPT ![r] = "rejected"]
    /\ UNCHANGED <<disk, ca, writing, pairs, certificates, crl, signer, restarts>>

\* Only certificates of this process are found.
revokeCertificate(r) ==
    /\ ~writing /\ r \in certificates
    /\ crl' = crl \cup {r}
    /\ UNCHANGED <<disk, ca, writing, pairs, requests, certificates, signer, restarts>>

\* The process ends: only the disk is left, and the certificates that others have.
restart ==
    /\ restarts < MaxRestarts /\ restarts' = restarts + 1
    /\ ca' = 0 /\ writing' = FALSE
    /\ requests' = [r \in Request |-> IF requests[r] = "pending" THEN "lost" ELSE requests[r]]
    /\ certificates' = {} /\ crl' = {}
    /\ UNCHANGED <<disk, pairs, signer>>

AuthorityNext ==
    \/ loadCA \/ generateCA \/ writeKey \/ restart
    \/ \E r \in Request : \/ createCertificateRequest(r) \/ approveCertificate(r) \/ rejectCertificate(r)
                          \/ revokeCertificate(r)

AuthoritySpec == AuthorityInit /\ [][AuthorityNext]_authorityVars

validateCertificate(r) == r \notin crl /\ ca # 0 /\ signer[r] = ca

AuthorityTypeOK ==
    /\ requests \in [Request -> {"none", "pending", "issued", "rejected", "lost"}]
    /\ disk.key \in 0..pairs /\ disk.cert \in 0..pairs /\ ca \in 0..pairs
    /\ certificates \subseteq Request /\ crl \subseteq certificates

\* Every certificate that was ever issued validates whenever there is an authority, unless it is
\* revoked: it is signed with the key on disk, whenever the process ended, also while it was writing
\* the two files.  Revocations do not outlive the process.
IssuedIsTrusted ==
    \A r \in Request :
        signer[r] # 0 =>
            /\ disk.key = signer[r] /\ disk.cert = signer[r]
            /\ ca # 0 => validateCertificate(r) \/ r \in crl

-----------------------------------------------------------------------------
(***************************************************************************)
(* src/lib/infrastructure/database-adapters.ts, PostgresAdapter: calls of  *)
(* transaction() and of query() over one pool of clients.  A statement of  *)
(* a transaction goes to the pool like any other, not to the client that   *)
(* the transaction holds.                                                  *)
(*                                                                         *)
(* The pool is external: it serves waiting calls in any order.             *)
(***************************************************************************)

CONSTANTS
    Transaction, Query,     \* calls
    poolSize,
    MaxStatements           \* bound on the statements of a transaction

VARIABLES
    inUse,          \* clients that the pool has given away
    pc,             \* pc[c]: "idle", "connect", "open", "waiting", "running", "ending" or "over"
    statements      \* statements[t]: how many have begun

databaseVars == <<inUse, pc, statements>>

DatabaseCall == Transaction \cup Query

DatabaseInit ==
    /\ inUse = 0
    /\ pc = [c \in DatabaseCall |-> "idle"]
    /\ statements = [t \in Transaction |-> 0]

Goto(c, from, to) == pc[c] = from /\ pc' = [pc EXCEPT ![c] = to]

Acquire == inUse < poolSize /\ inUse' = inUse + 1
Release == inUse' = inUse - 1

transaction(t) == Goto(t, "idle", "connect") /\ UNCHANGED <<inUse, statements>>

begin(t) == Goto(t, "connect", "open") /\ Acquire /\ UNCHANGED statements

statement(t) ==
    /\ statements[t] < MaxStatements /\ Goto(t, "open", "waiting")
    /\ statements' = [statements EXCEPT ![t] = @ + 1]
    /\ UNCHANGED inUse

query(q) == Goto(q, "idle", "waiting") /\ UNCHANGED <<inUse, statements>>

run(c) == Goto(c, "waiting", "running") /\ Acquire /\ UNCHANGED statements

\* Answered, or refused and caught by the callback.
ran(c) ==
    /\ Goto(c, "running", IF c \in Query THEN "over" ELSE "open")
    /\ Release /\ UNCHANGED statements

throws(t) == Goto(t, "running", "ending") /\ Release /\ UNCHANGED statements

commit(t) == Goto(t, "open", "ending") /\ UNCHANGED <<inUse, statements>>

Finally == Release

\* COMMIT or ROLLBACK, which may throw too, and the release after it.
release(t) == Goto(t, "ending", "over") /\ Finally /\ UNCHANGED statements

DatabaseNext ==
    \/ \E t \in Transaction : transaction(t) \/ begin(t) \/ statement(t) \/ throws(t) \/ commit(t) \/ release(t)
    \/ \E q \in Query : query(q)
    \/ \E c \in DatabaseCall : run(c) \/ ran(c)

DatabaseSpec == DatabaseInit /\ [][DatabaseNext]_databaseVars

DatabaseTypeOK == inUse \in 0..poolSize /\ pc \in [DatabaseCall -> {"idle", "connect", "open", "waiting", "running", "ending", "over"}]

Holding == {t \in Transaction : pc[t] \in {"open", "waiting", "running", "ending"}}

\* Calls wait for one another, each with a client that it gives back only after it has a second one,
\* only if there are as many transactions as clients; whatever has thrown before.
StuckOnlyIfFull ==
    (inUse = poolSize /\ \A c \in DatabaseCall : pc[c] \in {"idle", "connect", "waiting", "over"}) =>
        Cardinality(Holding) = poolSize

=============================================================================
