------------------------------ MODULE Requests ------------------------------
(***************************************************************************)
(* Requests that leave and that are shared: webhooks and the deduplication *)
(* of requests. They share nothing; each has its own initial states, next- *)
(* state relation and properties.                                          *)
(***************************************************************************)
EXTENDS Integers, SequencesExt

(***************************************************************************)
(* src/lib/webhook.ts: deliveries of events to webhooks, one loop over     *)
(* those that are pending or due, retries, and deliveries that are asked   *)
(* for again.                                                              *)
(*                                                                         *)
(* A loop works on the deliveries it found when it began.  A delivery that *)
(* is queued while it runs is left for a loop that somebody else starts.   *)
(* Delays of retries end in any order.                                     *)
(***************************************************************************)

CONSTANTS
    Delivery,
    retryCount,      \* of the webhook; at most MAX_RETRIES of the source
    MaxRetried       \* bound on retryDelivery()

VARIABLES
    status,          \* of the deliveries
    attemptCount,
    waiting,         \* deliveries whose nextRetryAt is not over
    loops,           \* the loops that run: what each has still to execute
    sending,         \* sending[d]: how many attempts are under way
    timers,          \* timers of processQueue() that run
    enabled,         \* whether the webhook is there and enabled
    retried          \* history: calls of retryDelivery()

webhookVars == <<status, attemptCount, waiting, loops, sending, timers, enabled, retried>>

WebhookInit ==
    /\ status = [d \in Delivery |-> "none"]
    /\ attemptCount = [d \in Delivery |-> 0]
    /\ waiting = {}
    /\ loops = <<>>
    /\ sending = [d \in Delivery |-> 0]
    /\ timers = 0
    /\ enabled = TRUE
    /\ retried = 0

\* isProcessing.
Free == loops = <<>>

Due(st) == {d \in Delivery : st[d] = "pending" \/ (st[d] = "retrying" /\ d \notin waiting)}

\* The pending ones first, then the due ones, each in their order in the cache.
processQueue(st) ==
    loops' = IF Free THEN Append(loops, SetToSortSeq({d \in Due(st) : st[d] = "pending"}, <)
                                        \o SetToSortSeq({d \in Due(st) : st[d] = "retrying"}, <))
             ELSE loops

\* One delivery for each enabled webhook that listens to the event.
triggerEvent(d) ==
    /\ status[d] = "none" /\ enabled
    /\ status' = [status EXCEPT ![d] = "pending"]
    /\ processQueue(status')
    /\ UNCHANGED <<attemptCount, waiting, sending, timers, enabled, retried>>

retryDelivery(d) ==
    /\ status[d] = "failed" /\ retried < MaxRetried
    /\ retried' = retried + 1
    /\ status' = [status EXCEPT ![d] = "pending"]
    /\ attemptCount' = [attemptCount EXCEPT ![d] = 0]
    /\ processQueue(status')
    /\ UNCHANGED <<waiting, sending, timers, enabled>>

timer ==
    /\ timers > 0
    /\ timers' = timers - 1
    /\ processQueue(status)
    /\ UNCHANGED <<status, attemptCount, waiting, sending, enabled, retried>>

nextRetryAt(d) ==
    /\ d \in waiting
    /\ waiting' = waiting \ {d}
    /\ UNCHANGED <<status, attemptCount, loops, sending, timers, enabled, retried>>

\* The next delivery of a loop is sent, or fails since its webhook is gone.
executeDelivery(l) ==
    /\ loops[l] # <<>>
    /\ LET d == Head(loops[l])
       IN  /\ sending[d] = 0 \/ Len(loops) > 1
           /\ IF enabled
              THEN /\ status' = [status EXCEPT ![d] = "retrying"]
                   /\ attemptCount' = [attemptCount EXCEPT ![d] = @ + 1]
                   /\ sending' = [sending EXCEPT ![d] = @ + 1]
                   /\ UNCHANGED loops
              ELSE /\ status' = [status EXCEPT ![d] = "failed"]
                   /\ loops' = [loops EXCEPT ![l] = Tail(@)]
                   /\ UNCHANGED <<attemptCount, sending>>
    /\ UNCHANGED <<waiting, timers, enabled, retried>>

MayRetry(d) == attemptCount[d] < retryCount

\* The webhook has answered, or did not in time.
answered(l) ==
    /\ loops[l] # <<>>
    /\ LET d == Head(loops[l])
       IN  /\ sending[d] > 0
           /\ sending' = [sending EXCEPT ![d] = @ - 1]
           /\ \/ status' = [status EXCEPT ![d] = "success"] /\ UNCHANGED waiting
              \/ /\ MayRetry(d)
                 /\ status' = [status EXCEPT ![d] = "retrying"]
                 /\ waiting' = waiting \cup {d}
              \/ ~MayRetry(d) /\ status' = [status EXCEPT ![d] = "failed"] /\ UNCHANGED waiting
    /\ loops' = [loops EXCEPT ![l] = Tail(@)]
    /\ UNCHANGED <<attemptCount, timers, enabled, retried>>

\* A loop that is done starts a timer if anything is retrying; timers add up.
finishLoop(l) ==
    /\ loops[l] = <<>>
    /\ loops' = RemoveAt(loops, l)
    /\ timers' = IF \E d \in Delivery : status[d] = "retrying" THEN timers + 1 ELSE timers
    /\ UNCHANGED <<status, attemptCount, waiting, sending, enabled, retried>>

updateWebhook ==
    /\ enabled' = ~enabled
    /\ UNCHANGED <<status, attemptCount, waiting, loops, sending, timers, retried>>

WebhookNext ==
    \/ \E d \in Delivery : triggerEvent(d) \/ retryDelivery(d) \/ nextRetryAt(d)
    \/ \E l \in DOMAIN loops : executeDelivery(l) \/ answered(l) \/ finishLoop(l)
    \/ timer \/ updateWebhook

WebhookSpec == WebhookInit /\ [][WebhookNext]_webhookVars

WebhookTypeOK ==
    /\ \A d \in Delivery : status[d] \in {"none", "pending", "retrying", "success", "failed"} /\ attemptCount[d] \in Nat
    /\ waiting \subseteq Delivery
    /\ timers \in Nat

\* A delivery is under way once, and one that succeeded stays so: events, timers and repetitions
\* start loops, but one at a time.
DeliveredByOneLoop ==
    [][\A d \in Delivery : /\ sending'[d] <= 1
                           /\ (status[d] = "success") => status'[d] = "success"]_webhookVars

\* Since it was queued or asked for again, a delivery was tried at most retryCount times, however
\* many timers ran.
AttemptsAreBounded == \A d \in Delivery : attemptCount[d] <= retryCount

-----------------------------------------------------------------------------
(***************************************************************************)
(* src/lib/deduplication.ts: calls for the same key share one request and, *)
(* for a while, its result.                                                *)
(*                                                                         *)
(* Requests end in any order.  One that ends removes the entry of its key, *)
(* whoever made that entry.                                                *)
(***************************************************************************)

CONSTANTS
    Key, Request,           \* a request is an execution of the factory
    ttl, requestCleanup, maxInFlight

VARIABLES
    requests,       \* requests[r]: status and key
    inFlight,       \* inFlight[k]: request and age, request 0 where there is none
    completed,      \* completed[k]: request and age, likewise
    sinceCleanup,
    displaced,      \* history: keys whose entry was removed before its request ended
    served          \* history: requests whose result was served, and its age then

requestVars == <<requests, inFlight, completed, sinceCleanup, displaced, served>>

None == [request |-> 0, age |-> 0]
Horizon == 2 * ttl + requestCleanup + 1

RequestInit ==
    /\ requests = [r \in Request |-> [status |-> "none", key |-> CHOOSE k \in Key : TRUE]]
    /\ inFlight = [k \in Key |-> None]
    /\ completed = [k \in Key |-> None]
    /\ sinceCleanup = 0
    /\ displaced = {}
    /\ served = {}

Entries(map) == {k \in Key : map[k] # None}

Oldest == {k \in Entries(inFlight) : \A l \in Entries(inFlight) : inFlight[k].age >= inFlight[l].age}

Fresh(k) == completed[k] # None /\ completed[k].age < ttl

\* The result is served from the cache.
fromCache(k) ==
    /\ Fresh(k)
    /\ served' = served \cup {completed[k].age}
    /\ UNCHANGED <<requests, inFlight, completed, sinceCleanup, displaced>>

Joins(k) == inFlight[k] # None

Full == Cardinality(Entries(inFlight)) >= maxInFlight

\* A new request; with too many under way the oldest entry is given up, not its
\* request.
deduplicate(k, r) ==
    /\ requests[r].status = "none"
    /\ ~Fresh(k) /\ ~Joins(k)
    /\ requests' = [requests EXCEPT ![r] = [status |-> "running", key |-> k]]
    /\ completed' = [completed EXCEPT ![k] = None]
    /\ \E evicted \in IF Full THEN {{e} : e \in Oldest} ELSE {{}} :
          /\ inFlight' = [l \in Key |-> CASE l = k -> [request |-> r, age |-> 0]
                                          [] l \in evicted -> None
                                          [] OTHER -> inFlight[l]]
          /\ displaced' = displaced \cup evicted
    /\ UNCHANGED <<sinceCleanup, served>>

executeRequest(r) ==
    /\ requests[r].status = "running"
    /\ LET k == requests[r].key
       IN  /\ \/ completed' = [completed EXCEPT ![k] = [request |-> r, age |-> 0]]
              \/ UNCHANGED completed
           /\ inFlight' = [inFlight EXCEPT ![k] = None]
    /\ requests' = [requests EXCEPT ![r].status = "over"]
    /\ UNCHANGED <<sinceCleanup, displaced, served>>

\* A request under way is not: its result will be cached.
invalidate(k) ==
    /\ inFlight[k] # None \/ completed[k] # None
    /\ displaced' = IF inFlight[k] = None THEN displaced ELSE displaced \cup {k}
    /\ inFlight' = [inFlight EXCEPT ![k] = None]
    /\ completed' = [completed EXCEPT ![k] = None]
    /\ UNCHANGED <<requests, sinceCleanup, served>>

cleanup ==
    LET late == {k \in Key : inFlight[k].age > 2 * ttl}
    IN  /\ sinceCleanup = requestCleanup
        /\ completed' = [k \in Key |-> IF completed[k].age > ttl THEN None ELSE completed[k]]
        /\ inFlight' = [k \in Key |-> IF k \in late THEN None ELSE inFlight[k]]
        /\ displaced' = displaced \cup late
        /\ sinceCleanup' = 0
        /\ UNCHANGED <<requests, served>>

Older(map) == [k \in Key |-> IF map[k] # None /\ map[k].age < Horizon THEN [map[k] EXCEPT !.age = @ + 1] ELSE map[k]]

tick ==
    /\ sinceCleanup < requestCleanup
    /\ sinceCleanup' = sinceCleanup + 1
    /\ inFlight' = Older(inFlight)
    /\ completed' = Older(completed)
    /\ UNCHANGED <<requests, displaced, served>>

RequestNext ==
    \/ \E k \in Key : fromCache(k) \/ invalidate(k) \/ \E r \in Request : deduplicate(k, r)
    \/ \E r \in Request : executeRequest(r)
    \/ cleanup \/ tick

RequestSpec == RequestInit /\ [][RequestNext]_requestVars

RequestTypeOK ==
    /\ \A k \in Key : inFlight[k].age \in 0..Horizon /\ completed[k].age \in 0..Horizon
    /\ \A r \in Request : requests[r].status \in {"none", "running", "over"}
    /\ Cardinality(Entries(inFlight)) <= maxInFlight

\* Two requests for a key run at once only after its entry was invalidated, or given up for its
\* age or for want of room; until then every call joins the first or gets its result.
OneRequestPerKey ==
    \A r, s \in Request :
        (r # s /\ requests[r].status = "running" /\ requests[s].status = "running" /\ requests[r].key = requests[s].key)
        => requests[r].key \in displaced

\* No result is served once it is as old as its time to live, also between two rounds of the
\* clean-up and when a second request for the key ended later.
ServedIsFresh == \A age \in served : age < ttl

=============================================================================
