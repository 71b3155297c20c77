------------------------------ MODULE Messages ------------------------------
(***************************************************************************)
(* Events and messages on their way: the outbox, consumption exactly once, *)
(* and the two dead letter queues. They share nothing; each has its own    *)
(* initial states, next-state relation and properties.                     *)
(***************************************************************************)
EXTENDS Naturals, FiniteSets

(***************************************************************************)
(* packages/outbox/src/outbox-manager.ts: the pollers of several processes *)
(* take PENDING events from one table and send them to the broker.         *)
(*                                                                         *)
(* isProcessing keeps a process from polling while it works through a      *)
(* batch; nothing keeps two processes from taking the same event.  A       *)
(* poller goes by the rows as they were when it fetched them, attempts     *)
(* included.  Payloads, topics and headers are left out.                   *)
(***************************************************************************)

CONSTANTS
    Process,
    Event,        \* numbers, in the order of createdAt
    batchSize, maxAttempts,
    MaxRetryFailed, \* bound on calls of retryFailed()
    MaxMishaps    \* bound on crashes and on updates that throw

VARIABLES
    outbox,       \* outbox[e]: status and attempts of the row, due: nextRetryAt has passed
    pollers,      \* pollers[p]: processPendingEvents() in process p
    delivered,    \* history: events the broker has accepted
    retriesAsked, mishaps

outboxVars == <<outbox, pollers, delivered, retriesAsked, mishaps>>

OutboxNoRow == [status |-> "NONE", attempts |-> 0, due |-> TRUE]

\* batch: the events fetched and not yet worked through; read: their attempts as fetched.
Waiting == [pc |-> "wait", batch |-> {}, read |-> [e \in Event |-> 0]]

OutboxInit ==
    /\ outbox = [e \in Event |-> OutboxNoRow]
    /\ pollers = [p \in Process |-> Waiting]
    /\ delivered = {}
    /\ retriesAsked = 0 /\ mishaps = 0

Least(S) == CHOOSE e \in S : \A f \in S : e <= f
Current(p) == Least(pollers[p].batch)

storeEvent(e) ==
    /\ outbox[e].status = "NONE"
    /\ \A f \in Event : f < e => outbox[f].status # "NONE"
    /\ outbox' = [outbox EXCEPT ![e].status = "PENDING"]
    /\ UNCHANGED <<pollers, delivered, retriesAsked, mishaps>>

Due == {e \in Event : outbox[e].status = "PENDING" /\ outbox[e].due}

\* A tick of the interval: the oldest batchSize events that are due.
fetchPendingEvents(p) ==
    /\ pollers[p].pc = "wait"
    /\ Due # {}
    /\ \E batch \in SUBSET Due :
          /\ Cardinality(batch) = IF Cardinality(Due) < batchSize THEN Cardinality(Due)
                                                                  ELSE batchSize
          /\ \A e \in batch, f \in Due \ batch : e < f
          /\ pollers' = [pollers EXCEPT ![p] = [pc |-> "mark", batch |-> batch,
                                                read |-> [e \in Event |-> outbox[e].attempts]]]
    /\ UNCHANGED <<outbox, delivered, retriesAsked, mishaps>>

\* The loop goes on with the next event, or the batch is done.
Done(p) ==
    LET left == pollers[p].batch \ {Current(p)}
    IN  IF left = {} THEN Waiting ELSE [pollers[p] EXCEPT !.pc = "mark", !.batch = left]

OutboxMishap == mishaps < MaxMishaps /\ mishaps' = mishaps + 1

\* An update that throws where nothing catches it ends the batch.
OutboxWrite(p, row, next) ==
    \/ /\ outbox' = [outbox EXCEPT ![Current(p)] = row]
       /\ pollers' = [pollers EXCEPT ![p] = next]
       /\ UNCHANGED mishaps
    \/ /\ OutboxMishap
       /\ pollers' = [pollers EXCEPT ![p] = Waiting]
       /\ UNCHANGED outbox

outboxMarkProcessing(p) ==
    /\ pollers[p].pc = "mark"
    /\ OutboxWrite(p, [outbox[Current(p)] EXCEPT !.status = "PROCESSING"], [pollers[p] EXCEPT !.pc = "send"])
    /\ UNCHANGED <<delivered, retriesAsked>>

\* The broker takes the event or not, and the call may throw in either case.
outboxSend(p) ==
          /\ pollers[p].pc = "send"
          /\ delivered' \in {delivered, delivered \cup {Current(p)}}
          /\ \E pc \in {"publish", "fail"} :
                /\ pc = "publish" => Current(p) \in delivered'
                /\ pollers' = [pollers EXCEPT ![p].pc = pc]
          /\ UNCHANGED <<outbox, retriesAsked, mishaps>>

\* An update that throws here is caught as if the send had failed.
markPublished(p) ==
    /\ pollers[p].pc = "publish"
    /\ \/ /\ outbox' = [outbox EXCEPT ![Current(p)].status = "PUBLISHED"]
          /\ pollers' = [pollers EXCEPT ![p] = Done(p)]
          /\ UNCHANGED mishaps
       \/ /\ OutboxMishap
          /\ pollers' = [pollers EXCEPT ![p].pc = "fail"]
          /\ UNCHANGED outbox
    /\ UNCHANGED <<delivered, retriesAsked>>

\* Mutant: the attempt is not counted.
mhandlePublishError(p) ==
    /\ pollers[p].pc = "fail"
    /\ LET attempts == pollers[p].read[Current(p)]
       IN  OutboxWrite(p, IF attempts + 1 < maxAttempts
                          THEN [status |-> "PENDING", attempts |-> attempts, due |-> FALSE]
                          ELSE [outbox[Current(p)] EXCEPT !.status = "FAILED", !.attempts = attempts],
                       Done(p))
    /\ UNCHANGED <<delivered, retriesAsked>>

\* One attempt more than the row had when it was fetched.
handlePublishError(p) ==
    /\ pollers[p].pc = "fail"
    /\ LET attempts == pollers[p].read[Current(p)] + 1
       IN  OutboxWrite(p, IF attempts < maxAttempts
                          THEN [status |-> "PENDING", attempts |-> attempts, due |-> FALSE]
                          ELSE [outbox[Current(p)] EXCEPT !.status = "FAILED", !.attempts = attempts],
                       Done(p))
    /\ UNCHANGED <<delivered, retriesAsked>>

\* nextRetryAt passes: a back-off is at most retryMaxDelayMs and its jitter.
calculateBackoff(e) ==
    /\ ~outbox[e].due
    /\ outbox' = [outbox EXCEPT ![e].due = TRUE]
    /\ UNCHANGED <<pollers, delivered, retriesAsked, mishaps>>

\* An operator has failed events tried again.
retryFailed ==
    /\ retriesAsked < MaxRetryFailed
    /\ \E asked \in SUBSET Event :
          LET failed == {e \in asked : outbox[e].status = "FAILED"}
          IN  /\ failed # {}
              /\ outbox' = [e \in Event |-> IF e \in failed
                               THEN [status |-> "PENDING", attempts |-> 0, due |-> TRUE]
                               ELSE outbox[e]]
    /\ retriesAsked' = retriesAsked + 1
    /\ UNCHANGED <<pollers, delivered, mishaps>>

outboxCrash(p) ==
    /\ OutboxMishap
    /\ pollers' = [pollers EXCEPT ![p] = Waiting]
    /\ UNCHANGED <<outbox, delivered, retriesAsked>>

Poll(p) ==
    fetchPendingEvents(p) \/ outboxMarkProcessing(p) \/ outboxSend(p) \/ markPublished(p) \/ handlePublishError(p)

OutboxNext ==
    \/ \E e \in Event : storeEvent(e) \/ calculateBackoff(e)
    \/ \E p \in Process : Poll(p) \/ outboxCrash(p)
    \/ retryFailed

OutboxSpec == OutboxInit /\ [][OutboxNext]_outboxVars

\* The interval ticks, what a poller awaits settles, and time passes.
OutboxFairness ==
    /\ \A p \in Process : WF_outboxVars(Poll(p))
    /\ \A e \in Event : WF_outboxVars(calculateBackoff(e))

Row == [status : {"NONE", "PENDING", "PROCESSING", "PUBLISHED", "FAILED"},
        attempts : 0..maxAttempts, due : BOOLEAN]

OutboxTypeOK ==
    /\ outbox \in [Event -> Row]
    /\ pollers \in [Process -> [pc : {"wait", "mark", "send", "publish", "fail"},
                                batch : SUBSET Event, read : [Event -> 0..maxAttempts]]]
    /\ delivered \in SUBSET Event
    /\ retriesAsked \in 0..MaxRetryFailed /\ mishaps \in 0..MaxMishaps

\* An event that is marked PUBLISHED has reached the broker, whichever of the processes
\* that took it wrote last.
PublishedWasDelivered ==
    \A e \in Event : outbox[e].status = "PUBLISHED" => e \in delivered

\* A poller never gives up an event that it alone took before its attempts are used up: a
\* row that is FAILED has failed maxAttempts times.
FailedIsExhausted ==
    \A e \in Event : outbox[e].status = "FAILED" => outbox[e].attempts = maxAttempts

\* As long as processes and the database stay up, every event that is stored ends PUBLISHED
\* or FAILED, although two processes take it and set each other's attempts back.
EventEnds ==
    \A e \in Event :
        outbox[e].status = "PENDING" ~> outbox[e].status \in {"PUBLISHED", "FAILED"} \/ mishaps > 0

-----------------------------------------------------------------------------
(***************************************************************************)
(* backend/src/services/kafka-exactly-once.ts: the messages of one         *)
(* partition, each processed inside a transaction of the producer, and the *)
(* two records of what was processed, in Redis and in the database.        *)
(*                                                                         *)
(* The partition has one consumer at a time.  The broker may hand a        *)
(* message out again, processed or not, as long as the table may know its  *)
(* offset.  MaxMishaps bounds crashes and calls that throw behind the      *)
(* commit.  What the messages say is left out.                             *)
(***************************************************************************)

CONSTANT Message

VARIABLES
    current,     \* the message in hand and where processExactlyOnce() is
    cachedOffset, storedOffset,  \* messages whose offset Redis and the database hold
    committed,   \* committed[m]: transactions of m that were committed
    finished,    \* messages processExactlyOnce() returned true for
    retired,     \* messages older than the offsets of the table, which are not handed out
    eosMishaps

eosVars == <<current, cachedOffset, storedOffset, committed, finished, retired, eosMishaps>>

Nothing == [pc |-> "idle"]
EosAt(m, pc) == current = [pc |-> pc, message |-> m]
EosGoto(m, pc) == current' = [pc |-> pc, message |-> m]

EosInit ==
    /\ current = Nothing
    /\ cachedOffset = {} /\ storedOffset = {} /\ finished = {} /\ retired = {}
    /\ committed = [m \in Message |-> 0]
    /\ eosMishaps = 0

deliver(m) ==
    /\ current = Nothing /\ m \notin retired
    /\ EosGoto(m, "cache")
    /\ UNCHANGED <<cachedOffset, storedOffset, committed, finished, retired, eosMishaps>>

Return(m) == current' = Nothing /\ finished' = finished \cup {m}

getOffset(m) ==
    /\ EosAt(m, "cache")
    /\ \/ m \in cachedOffset /\ Return(m)
       \/ m \notin cachedOffset /\ EosGoto(m, "find") /\ UNCHANGED finished
    /\ UNCHANGED <<cachedOffset, storedOffset, committed, retired, eosMishaps>>

findOffset(m) ==
    /\ EosAt(m, "find")
    /\ \/ m \in storedOffset /\ Return(m) /\ cachedOffset' = cachedOffset \cup {m}
       \/ m \notin storedOffset /\ EosGoto(m, "transaction") /\ UNCHANGED <<finished, cachedOffset>>
    /\ UNCHANGED <<storedOffset, committed, retired, eosMishaps>>

\* Mutant: a message whose transaction aborted counts as processed.
mtransaction(m) ==
    /\ EosAt(m, "transaction")
    /\ \/ /\ committed' = [committed EXCEPT ![m] = @ + 1]
          /\ EosGoto(m, "store") /\ UNCHANGED finished
       \/ Return(m) /\ UNCHANGED committed
    /\ UNCHANGED <<cachedOffset, storedOffset, retired, eosMishaps>>

\* Handler, outputs, offsets and commit; an error aborts the transaction.
transaction(m) ==
    /\ EosAt(m, "transaction")
    /\ \/ /\ committed' = [committed EXCEPT ![m] = @ + 1]
          /\ EosGoto(m, "store")
       \/ current' = Nothing /\ UNCHANGED committed
    /\ UNCHANGED <<cachedOffset, storedOffset, finished, retired, eosMishaps>>

EosMishap == eosMishaps < MaxMishaps /\ eosMishaps' = eosMishaps + 1

\* Behind the commit an error aborts what is committed already: the call throws.
storeOffset(m) ==
    /\ EosAt(m, "store")
    /\ \/ storedOffset' = storedOffset \cup {m} /\ EosGoto(m, "setex") /\ UNCHANGED eosMishaps
       \/ EosMishap /\ current' = Nothing /\ UNCHANGED storedOffset
    /\ UNCHANGED <<cachedOffset, committed, finished, retired>>

cacheOffset(m) ==
    /\ EosAt(m, "setex")
    /\ \/ cachedOffset' = cachedOffset \cup {m} /\ Return(m) /\ UNCHANGED eosMishaps
       \/ EosMishap /\ current' = Nothing /\ UNCHANGED <<cachedOffset, finished>>
    /\ UNCHANGED <<storedOffset, committed, retired>>

eosCrash ==
    /\ current # Nothing /\ EosMishap
    /\ current' = Nothing
    /\ UNCHANGED <<cachedOffset, storedOffset, committed, finished, retired>>

\* Keys of Redis live for 24 hours, rows of the table for 7 days.
cacheExpires ==
    /\ \E m \in cachedOffset : cachedOffset' = cachedOffset \ {m}
    /\ UNCHANGED <<current, storedOffset, committed, finished, retired, eosMishaps>>

cleanupOldOffsets ==
    /\ current = Nothing
    /\ \E m \in storedOffset : storedOffset' = storedOffset \ {m} /\ retired' = retired \cup {m}
    /\ UNCHANGED <<current, cachedOffset, committed, finished, eosMishaps>>

processExactlyOnce(m) ==
    getOffset(m) \/ findOffset(m) \/ transaction(m) \/ storeOffset(m) \/ cacheOffset(m)

EosNext ==
    \/ \E m \in Message : deliver(m) \/ processExactlyOnce(m)
    \/ eosCrash \/ cacheExpires \/ cleanupOldOffsets

EosSpec == EosInit /\ [][EosNext]_eosVars

EosTypeOK ==
    /\ current \in {Nothing} \cup [pc : {"cache", "find", "transaction", "store", "setex"},
                                   message : Message]
    /\ cachedOffset \subseteq Message /\ storedOffset \subseteq Message
    /\ finished \subseteq Message /\ retired \subseteq Message
    /\ committed \in [Message -> 0..(MaxMishaps + 1)]
    /\ eosMishaps \in 0..MaxMishaps

\* Each transaction of a message beyond its first is owed to a crash or to an error between
\* the commit and the record in the database, however keys of Redis come and go.
CommittedOnceEach ==
    \A m \in Message : committed[m] <= 1 + eosMishaps

\* A message is passed over as processed only if a transaction of it was committed.
FinishedWasCommitted == \A m \in finished : committed[m] > 0

-----------------------------------------------------------------------------
(***************************************************************************)
(* backend/src/services/unified-dlq.ts: one dead letter, its row in the    *)
(* database, its place in the retry schedule in Redis, and the workers and *)
(* operators that schedule, fetch, replay and settle it.                   *)
(*                                                                         *)
(* No update looks at the status it overwrites, and a replay goes by the   *)
(* count it read before it sent.                                           *)
(***************************************************************************)

CONSTANTS Worker, maxRetries, MaxReplays  \* bound on replays that begin

VARIABLES
    letter,     \* row of the message: status and retryCount
    inTopic,    \* the message is in the DLQ topic
    scheduled,  \* the message is in dlq:retry:schedule
    workers,    \* workers[w]: the call w makes, found: what it read
    replays,    \* history: sends to the original topic
    replaysBegun

unifiedVars == <<letter, inTopic, scheduled, workers, replays, replaysBegun>>

Free == [pc |-> "free", found |-> 0]

UnifiedInit ==
    /\ letter = [status |-> "none", retryCount |-> 0]
    /\ inTopic = FALSE /\ scheduled = FALSE
    /\ workers = [w \in Worker |-> Free]
    /\ replays = 0 /\ replaysBegun = 0

Exists == letter.status # "none"
UnifiedAt(w, pc) == workers[w].pc = pc
UnifiedGoto(w, pc, found) == workers' = [workers EXCEPT ![w] = [pc |-> pc, found |-> found]]
UnifiedFinish(w) == workers' = [workers EXCEPT ![w] = Free]

\* The topic first, then the row: a call that throws leaves the first alone.
sendToTopic ==
    /\ ~inTopic /\ inTopic' = TRUE
    /\ UNCHANGED <<letter, scheduled, workers, replays, replaysBegun>>

\* retryCount is what the sender gives.
unifiedCreateRow ==
    /\ inTopic /\ ~Exists
    /\ letter' = [status |-> "pending", retryCount |-> 0]
    /\ UNCHANGED <<inTopic, scheduled, workers, replays, replaysBegun>>

scheduleRetry(w) ==
    /\ UnifiedAt(w, "free") /\ letter.status = "pending"
    /\ UnifiedGoto(w, "zadd", 0)
    /\ UNCHANGED <<letter, inTopic, scheduled, replays, replaysBegun>>

zadd(w) ==
    /\ UnifiedAt(w, "zadd") /\ UnifiedFinish(w)
    /\ scheduled' = TRUE
    /\ UNCHANGED <<letter, inTopic, replays, replaysBegun>>

\* The schedule names the message: its row is read, then the name is removed.
getRetryCandidates(w) ==
    /\ UnifiedAt(w, "free") /\ scheduled
    /\ UnifiedGoto(w, "zrem", 0)
    /\ UNCHANGED <<letter, inTopic, scheduled, replays, replaysBegun>>

zrem(w) ==
    /\ UnifiedAt(w, "zrem") /\ UnifiedFinish(w)
    /\ scheduled' = FALSE
    /\ UNCHANGED <<letter, inTopic, replays, replaysBegun>>

unifiedMarkProcessing ==
    /\ Exists /\ letter' = [letter EXCEPT !.status = "processing"]
    /\ UNCHANGED <<inTopic, scheduled, workers, replays, replaysBegun>>

\* The row, then the schedule; nothing else keeps a settled message out of it.
settle(w, status) ==
    /\ UnifiedAt(w, "free") /\ Exists /\ UnifiedGoto(w, "zrem", 0)
    /\ letter' = [letter EXCEPT !.status = status]
    /\ UNCHANGED <<inTopic, scheduled, replays, replaysBegun>>

markResolved(w) == settle(w, "resolved")
markExhausted(w) == settle(w, "exhausted")

replayMessage(w) ==
    /\ UnifiedAt(w, "free") /\ Exists /\ replaysBegun < MaxReplays
    /\ replaysBegun' = replaysBegun + 1
    /\ IF letter.retryCount + 1 > maxRetries
       THEN UnifiedGoto(w, "exhaust", 0) ELSE UnifiedGoto(w, "send", letter.retryCount)
    /\ UNCHANGED <<letter, inTopic, scheduled, replays>>

exhaust(w) ==
    /\ UnifiedAt(w, "exhaust") /\ UnifiedGoto(w, "zrem", 0)
    /\ letter' = [letter EXCEPT !.status = "exhausted"]
    /\ UNCHANGED <<inTopic, scheduled, replays, replaysBegun>>

unifiedSend(w) ==
           /\ UnifiedAt(w, "send")
           /\ \/ replays' = replays + 1 /\ UnifiedGoto(w, "count", workers[w].found)
              \/ UnifiedFinish(w) /\ UNCHANGED replays
           /\ UNCHANGED <<letter, inTopic, scheduled, replaysBegun>>

countReplay(w) ==
    /\ UnifiedAt(w, "count") /\ UnifiedFinish(w)
    /\ letter' = [status |-> "pending", retryCount |-> workers[w].found + 1]
    /\ UNCHANGED <<inTopic, scheduled, replays, replaysBegun>>

UnifiedNext ==
    \/ sendToTopic \/ unifiedCreateRow \/ unifiedMarkProcessing
    \/ \E w \in Worker :
          \/ scheduleRetry(w) \/ zadd(w) \/ getRetryCandidates(w) \/ zrem(w)
          \/ markResolved(w) \/ markExhausted(w)
          \/ replayMessage(w) \/ exhaust(w) \/ unifiedSend(w) \/ countReplay(w)

UnifiedSpec == UnifiedInit /\ [][UnifiedNext]_unifiedVars

UnifiedTypeOK ==
    /\ letter \in [status : {"none", "pending", "processing", "resolved", "exhausted"},
                   retryCount : 0..maxRetries]
    /\ inTopic \in BOOLEAN /\ scheduled \in BOOLEAN
    /\ workers \in [Worker -> [pc : {"free", "zadd", "zrem", "exhaust", "send", "count"},
                               found : 0..maxRetries]]
    /\ replays \in 0..MaxReplays /\ replaysBegun \in 0..MaxReplays

\* However replays overlap, the count of a message never exceeds maxRetries, and each of the
\* replays that it counts was sent to the original topic.
CountedReplaysWereSent == letter.retryCount <= maxRetries /\ letter.retryCount <= replays

-----------------------------------------------------------------------------
(***************************************************************************)
(* packages/event-bus/src/dead-letter-queue.ts: one failed event, its row, *)
(* and the callers that retry it.                                          *)
(*                                                                         *)
(* Only a row that is REPROCESSED is refused; two retries of one event run *)
(* side by side, and each writes the outcome of its own send.              *)
(***************************************************************************)

CONSTANTS Retrier, dlqMaxRetries, MaxSends  \* bound on retries that begin

VARIABLES
    dlqRow,     \* status and attempts of the row
    retriers,   \* retriers[r]: retryEvent() of r, seen: the attempts it read
    resent,     \* history: sends of the event to its original topic
    begun, deadTopic

dlqVars == <<dlqRow, retriers, resent, begun, deadTopic>>

DlqNoRow == [status |-> "NONE", attempts |-> 0]
Idle == [pc |-> "idle", seen |-> 0]

DlqInit ==
    /\ dlqRow = DlqNoRow /\ deadTopic = FALSE
    /\ retriers = [r \in Retrier |-> Idle]
    /\ resent = 0 /\ begun = 0

DlqAt(r, pc) == retriers[r].pc = pc
DlqGoto(r, pc) == retriers' = [retriers EXCEPT ![r].pc = pc]
DlqFinish(r) == retriers' = [retriers EXCEPT ![r] = Idle]
\* An update of a row that was purged throws.
DlqWrite(status) == dlqRow' = IF dlqRow = DlqNoRow THEN dlqRow ELSE [dlqRow EXCEPT !.status = status]

\* The row, with the default of the table for its attempts, then the topic of dead letters,
\* whose message says attempts: 1.
dlqCreateRow ==
    /\ dlqRow = DlqNoRow /\ ~deadTopic
    /\ dlqRow' = [status |-> "PENDING", attempts |-> 0]
    /\ UNCHANGED <<retriers, resent, begun, deadTopic>>

sendToDLQ ==
    /\ dlqRow # DlqNoRow /\ deadTopic' = TRUE
    /\ UNCHANGED <<dlqRow, retriers, resent, begun>>

retryEvent(r) ==
    /\ DlqAt(r, "idle") /\ begun < MaxSends
    /\ dlqRow # DlqNoRow /\ dlqRow.status # "REPROCESSED"
    /\ begun' = begun + 1
    /\ retriers' = [retriers EXCEPT ![r] = [pc |-> "mark", seen |-> dlqRow.attempts]]
    /\ UNCHANGED <<dlqRow, resent, deadTopic>>

\* attempts: { increment: 1 }
markRetrying(r) ==
    /\ DlqAt(r, "mark")
    /\ IF dlqRow = DlqNoRow THEN DlqFinish(r) /\ UNCHANGED dlqRow
       ELSE DlqGoto(r, "send") /\ dlqRow' = [status |-> "RETRYING", attempts |-> dlqRow.attempts + 1]
    /\ UNCHANGED <<resent, begun, deadTopic>>

dlqSend(r) ==
       /\ DlqAt(r, "send")
       /\ \/ resent' = resent + 1 /\ DlqGoto(r, "sent")
          \/ UNCHANGED resent /\ DlqGoto(r, "failed")
       /\ UNCHANGED <<dlqRow, begun, deadTopic>>

\* The update stands inside the try: if it throws, an event that was sent counts as failed.
markReprocessed(r) ==
    /\ DlqAt(r, "sent")
    /\ \/ DlqWrite("REPROCESSED") /\ DlqFinish(r)
       \/ UNCHANGED dlqRow /\ DlqGoto(r, "failed")
    /\ UNCHANGED <<resent, begun, deadTopic>>

\* By the attempts that were read before the send.
recordFailure(r) ==
    /\ DlqAt(r, "failed") /\ DlqFinish(r)
    /\ DlqWrite(IF retriers[r].seen + 1 >= dlqMaxRetries THEN "PERMANENTLY_FAILED" ELSE "PENDING")
    /\ UNCHANGED <<resent, begun, deadTopic>>

dlqCrash(r) ==
    /\ ~DlqAt(r, "idle") /\ DlqFinish(r)
    /\ UNCHANGED <<dlqRow, resent, begun, deadTopic>>

purgeOldEvents ==
    /\ dlqRow.status \in {"REPROCESSED", "PERMANENTLY_FAILED"}
    /\ dlqRow' = DlqNoRow /\ deadTopic' = TRUE
    /\ UNCHANGED <<retriers, resent, begun>>

DlqNext ==
    \/ dlqCreateRow \/ sendToDLQ \/ purgeOldEvents
    \/ \E r \in Retrier : retryEvent(r) \/ markRetrying(r) \/ dlqSend(r) \/ markReprocessed(r)
                          \/ recordFailure(r) \/ dlqCrash(r)

DlqSpec == DlqInit /\ [][DlqNext]_dlqVars

DlqTypeOK ==
    /\ dlqRow \in [status : {"NONE", "PENDING", "RETRYING", "REPROCESSED", "PERMANENTLY_FAILED"},
                   attempts : 0..MaxSends]
    /\ retriers \in [Retrier -> [pc : {"idle", "mark", "send", "sent", "failed"},
                                 seen : 0..MaxSends]]
    /\ resent \in 0..MaxSends /\ begun \in 0..MaxSends /\ deadTopic \in BOOLEAN

\* Every send of an event to its topic was counted as an attempt before it was made, also
\* when several callers retry the event at a time and processes end between the two.
SendsAreCounted == dlqRow # DlqNoRow => resent <= dlqRow.attempts

\* An event is given up for good only behind as many attempts as the limit allows.
GivenUpIsExhausted == dlqRow.status = "PERMANENTLY_FAILED" => dlqRow.attempts >= dlqMaxRetries

=============================================================================
