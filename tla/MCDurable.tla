----------------------------- MODULE MCDurable ------------------------------
(***************************************************************************)
(* The components that keep their state in the tables of a database. They  *)
(* share nothing, so one of them moves in each behaviour, the one that     *)
(* `active` names, and their state spaces add up.                          *)
(***************************************************************************)
EXTENDS SagaOrchestrator

CONSTANTS
    p1, p2, Event, batchSize, maxAttempts, MaxRetryFailed, MaxMishaps, Message, Worker,
    maxRetries, MaxReplays, Retrier, dlqMaxRetries, MaxSends, Caller

VARIABLES
    active, outbox, pollers, delivered, retriesAsked, mishaps, current, cachedOffset,
    storedOffset, committed, finished, retired, eosMishaps, letter, inTopic, scheduled,
    workers, replays, replaysBegun, dlqRow, retriers, resent, begun, deadTopic, record,
    lock, cached, callers, told

outboxVars == <<outbox, pollers, delivered, retriesAsked, mishaps>>
eosVars == <<current, cachedOffset, storedOffset, committed, finished, retired, eosMishaps>>
unifiedVars == <<letter, inTopic, scheduled, workers, replays, replaysBegun>>
dlqVars == <<dlqRow, retriers, resent, begun, deadTopic>>
idempotencyVars == <<record, lock, cached, callers, told>>

\* The module of the proofs, so that its theorems are about the definitions used here.
Messages == INSTANCE MessagesProofs
IdempotencyService == INSTANCE IdempotencyService

DurableInit ==
    /\ active \in {"saga", "outbox", "idempotency", "eos", "unified", "dlq"}
    /\ Init
    /\ Messages!OutboxInit
    /\ IdempotencyService!Init
    /\ Messages!EosInit
    /\ Messages!UnifiedInit
    /\ Messages!DlqInit

DurableNext ==
    /\ UNCHANGED active
    /\ IF active = "saga" THEN Next ELSE UNCHANGED vars
    /\ IF active = "outbox" THEN Messages!OutboxNext ELSE UNCHANGED outboxVars
    /\ IF active = "idempotency" THEN IdempotencyService!Next ELSE UNCHANGED idempotencyVars
    /\ IF active = "eos" THEN Messages!EosNext ELSE UNCHANGED eosVars
    /\ IF active = "unified" THEN Messages!UnifiedNext ELSE UNCHANGED unifiedVars
    /\ IF active = "dlq" THEN Messages!DlqNext ELSE UNCHANGED dlqVars

DurableSpec ==
    /\ DurableInit /\ [][DurableNext]_<<active,
          vars, outboxVars, eosVars, unifiedVars, dlqVars, idempotencyVars>>
    /\ \A p \in Process :
           /\ WF_vars(active = "saga" /\ Run(p))
           /\ WF_vars(active = "saga" /\ findIncomplete(p))
           /\ WF_vars(active = "saga" /\ recover(p))
    /\ \A p \in Process : WF_outboxVars(active = "outbox" /\ Messages!Poll(p))
    /\ \A e \in Event : WF_outboxVars(active = "outbox" /\ Messages!calculateBackoff(e))

-----------------------------------------------------------------------------

\* Every component keeps its types.
TypesOK ==
    /\ TypeOK
    /\ Messages!OutboxTypeOK
    /\ IdempotencyService!TypeOK
    /\ Messages!EosTypeOK
    /\ Messages!UnifiedTypeOK
    /\ Messages!DlqTypeOK

\* What is recorded is what was done: an event that is PUBLISHED was delivered, and one
\* that FAILED had all its attempts; a message is committed once for each time its offset
\* was not stored, and one that finished was committed; replays and retries of dead letters
\* are counted no more often than they were sent, and what is given up had its attempts.
DurableSafe ==
    /\ TypesOK
    /\ Messages!PublishedWasDelivered
    /\ Messages!FailedIsExhausted
    /\ Messages!CommittedOnceEach
    /\ Messages!FinishedWasCommitted
    /\ Messages!CountedReplaysWereSent
    /\ Messages!SendsAreCounted
    /\ Messages!GivenUpIsExhausted

\* Stated in its own module.
EventEnds == Messages!EventEnds

\* Stated in its own module.
KeepsClaim == IdempotencyService!KeepsClaim
=============================================================================
