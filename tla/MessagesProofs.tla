--------------------------- MODULE MessagesProofs ---------------------------
(***************************************************************************)
(* Proofs about Messages: what the outbox, the consumer that processes     *)
(* exactly once and the two dead letter queues record is what was done,    *)
(* for any number of events, processes, workers and callers and any bound  *)
(* on what goes wrong.                                                     *)
(***************************************************************************)
EXTENDS Messages, FiniteSetTheorems, WellFoundedInduction, TLAPS

-----------------------------------------------------------------------------
\* The outbox

OutboxNumbers ==
    /\ Event \subseteq Nat /\ IsFiniteSet(Event)
    /\ batchSize \in Nat \ {0} /\ maxAttempts \in Nat \ {0}

Poller == [pc : {"wait", "mark", "send", "publish", "fail"},
           batch : SUBSET Event, read : [Event -> 0..maxAttempts]]

\* Attempts are used up exactly by those that FAILED; what is PUBLISHED was delivered.
RowOK(row, e, d) ==
    /\ row \in Row
    /\ row.status \in {"NONE", "PENDING"} => row.attempts < maxAttempts
    /\ row.status = "FAILED" => row.attempts = maxAttempts
    /\ row.status = "PUBLISHED" => e \in d

\* What was fetched had attempts left, and is being marked only if it was delivered.
PollerOK(r, d) ==
    /\ r \in Poller
    /\ r.pc # "wait" => r.batch # {}
    /\ \A e \in r.batch : r.read[e] < maxAttempts
    /\ r.pc = "publish" => Least(r.batch) \in d

OutboxInv ==
    /\ outbox \in [Event -> Row] /\ \A e \in Event : RowOK(outbox[e], e, delivered)
    /\ pollers \in [Process -> Poller] /\ \A p \in Process : PollerOK(pollers[p], delivered)
    /\ delivered \in SUBSET Event

\* There is a first event in what is left of a batch.
LEMMA LeastIsOne ==
    ASSUME OutboxNumbers, NEW S \in SUBSET Event, S # {}
    PROVE  Least(S) \in S
<1>1. S \subseteq Nat
  BY DEF OutboxNumbers
<1>2. PICK x \in S : \A y \in S : <<y, x>> \notin OpToRel(<, Nat)
  BY <1>1, NatLessThanWellFounded, WFMin, Zenon
<1>3. \A y \in S : ~(y < x)
  BY <1>1, <1>2 DEF OpToRel
<1>4. \A y \in S : x <= y
  BY <1>1, <1>3
<1>. QED  BY <1>4 DEF Least

LEMMA DeliveredGrows ==
    ASSUME NEW d, NEW f, d \subseteq f
    PROVE  /\ \A row, e : RowOK(row, e, d) => RowOK(row, e, f)
           /\ \A r : PollerOK(r, d) => PollerOK(r, f)
BY DEF RowOK, PollerOK

\* A poller moves on, and may write the row of one event.
LEMMA PollerMoves ==
    ASSUME OutboxInv, NEW p \in Process, NEW r,
           pollers' = [pollers EXCEPT ![p] = r], PollerOK(r, delivered'),
           \/ UNCHANGED outbox
           \/ \E e \in Event : \E row : /\ outbox' = [outbox EXCEPT ![e] = row]
                                       /\ RowOK(row, e, delivered'),
           delivered \subseteq delivered', delivered' \in SUBSET Event
    PROVE  OutboxInv'
<1>1. /\ \A e \in Event : RowOK(outbox[e], e, delivered')
      /\ \A q \in Process : PollerOK(pollers[q], delivered')
  BY DeliveredGrows DEF OutboxInv
<1>2. pollers' \in [Process -> Poller] /\ \A q \in Process : PollerOK(pollers'[q], delivered')
  BY <1>1 DEF OutboxInv, PollerOK
<1>3. outbox' \in [Event -> Row] /\ \A e \in Event : RowOK(outbox'[e], e, delivered')
  BY <1>1 DEF OutboxInv, RowOK
<1>. QED  BY <1>2, <1>3 DEF OutboxInv

\* No poller moves.
LEMMA RowsChange ==
    ASSUME OutboxInv, UNCHANGED <<pollers, delivered>>, outbox' \in [Event -> Row],
           \A e \in Event : RowOK(outbox'[e], e, delivered)
    PROVE  OutboxInv'
BY DEF OutboxInv

LEMMA WaitingOK == OutboxNumbers => \A d : PollerOK(Waiting, d)
BY DEF OutboxNumbers, Waiting, PollerOK, Poller

LEMMA DoneOK ==
    ASSUME OutboxNumbers, OutboxInv, NEW p \in Process
    PROVE  PollerOK(Done(p), delivered)
<1>. DEFINE left == pollers[p].batch \ {Current(p)}
            r == [pollers[p] EXCEPT !.pc = "mark", !.batch = left]
<1>1. PollerOK(pollers[p], delivered) /\ pollers[p] \in Poller
  BY DEF OutboxInv
<1>2. left # {} => PollerOK(r, delivered)
  <2>1. left \subseteq pollers[p].batch
    OBVIOUS
  <2>. HIDE DEF left
  <2>. QED  BY <1>1, <2>1 DEF PollerOK, Poller
<1>. QED  BY <1>2, WaitingOK DEF Done

\* The first of the batch of a poller that is at work.
LEMMA CurrentEvent ==
    ASSUME OutboxNumbers, OutboxInv, NEW p \in Process, pollers[p].pc # "wait"
    PROVE  /\ Current(p) \in Event /\ Current(p) \in pollers[p].batch
           /\ RowOK(outbox[Current(p)], Current(p), delivered)
           /\ outbox[Current(p)] \in Row
           /\ pollers[p].read[Current(p)] \in Nat /\ pollers[p].read[Current(p)] < maxAttempts
<1>1. PollerOK(pollers[p], delivered)
  BY DEF OutboxInv
<1>2. pollers[p].batch \in SUBSET Event /\ pollers[p].batch # {}
  BY <1>1 DEF PollerOK, Poller
<1>3. Current(p) \in pollers[p].batch
  BY <1>2, LeastIsOne DEF Current
<1>4. pollers[p].read[Current(p)] \in 0..maxAttempts
  BY <1>1, <1>2, <1>3 DEF PollerOK, Poller
<1>5. pollers[p].read[Current(p)] \in Nat
  BY <1>4
<1>6. pollers[p].read[Current(p)] < maxAttempts
  BY <1>1, <1>3 DEF PollerOK
<1>7. outbox[Current(p)] \in Row /\ RowOK(outbox[Current(p)], Current(p), delivered)
  BY <1>2, <1>3 DEF OutboxInv
<1>. QED  BY <1>2, <1>3, <1>5, <1>6, <1>7

LEMMA FetchStep ==
    ASSUME OutboxNumbers, OutboxInv, NEW p \in Process, fetchPendingEvents(p)
    PROVE  OutboxInv'
<1>1. PICK batch \in SUBSET Due :
         /\ Cardinality(batch) = IF Cardinality(Due) < batchSize THEN Cardinality(Due)
                                                                 ELSE batchSize
         /\ pollers' = [pollers EXCEPT ![p] = [pc |-> "mark", batch |-> batch,
                                               read |-> [e \in Event |-> outbox[e].attempts]]]
  BY DEF fetchPendingEvents
<1>2. Due # {} /\ Due \in SUBSET Event /\ UNCHANGED <<outbox, delivered>>
  BY DEF fetchPendingEvents, Due
<1>3. batch # {}
  <2>1. IsFiniteSet(Due) /\ Cardinality(Due) \in Nat /\ Cardinality(Due) # 0
    BY <1>2, FS_Subset, FS_CardinalityType, FS_EmptySet DEF OutboxNumbers
  <2>2. Cardinality(batch) # 0
    BY <1>1, <2>1 DEF OutboxNumbers
  <2>. QED  BY <2>2, FS_EmptySet
<1>. DEFINE r == [pc |-> "mark", batch |-> batch, read |-> [e \in Event |-> outbox[e].attempts]]
<1>4. [e \in Event |-> outbox[e].attempts] \in [Event -> 0..maxAttempts]
  BY DEF OutboxInv, Row
<1>5. \A e \in batch : outbox[e].attempts < maxAttempts /\ e \in Event
  BY DEF Due, OutboxInv, RowOK
<1>6. r \in Poller
  BY <1>2, <1>4 DEF Poller
<1>7. PollerOK(r, delivered)
  BY <1>3, <1>5, <1>6 DEF PollerOK
<1>. HIDE DEF r
<1>8. pollers' = [pollers EXCEPT ![p] = r]
  BY <1>1 DEF r
<1>. QED  BY <1>2, <1>7, <1>8, PollerMoves DEF OutboxInv

\* What is written is in order, or an update throws and the batch ends.
LEMMA WriteStep ==
    ASSUME OutboxNumbers, OutboxInv, NEW p \in Process, pollers[p].pc # "wait",
           NEW row, RowOK(row, Current(p), delivered),
           NEW next, PollerOK(next, delivered),
           OutboxWrite(p, row, next), UNCHANGED delivered
    PROVE  OutboxInv'
<1>1. CASE outbox' = [outbox EXCEPT ![Current(p)] = row] /\ pollers' = [pollers EXCEPT ![p] = next]
  BY <1>1, CurrentEvent, PollerMoves DEF OutboxInv
<1>2. CASE UNCHANGED outbox /\ pollers' = [pollers EXCEPT ![p] = Waiting]
  BY <1>2, WaitingOK, PollerMoves DEF OutboxInv
<1>. QED  BY <1>1, <1>2 DEF OutboxWrite

LEMMA MarkStep ==
    ASSUME OutboxNumbers, OutboxInv, NEW p \in Process, outboxMarkProcessing(p)
    PROVE  OutboxInv'
<1>. DEFINE row == [outbox[Current(p)] EXCEPT !.status = "PROCESSING"]
            next == [pollers[p] EXCEPT !.pc = "send"]
<1>1. RowOK(row, Current(p), delivered)
  BY CurrentEvent DEF RowOK, Row, outboxMarkProcessing
<1>2. PollerOK(next, delivered)
  BY DEF OutboxInv, PollerOK, Poller, outboxMarkProcessing
<1>3. OutboxWrite(p, row, next) /\ UNCHANGED delivered /\ pollers[p].pc # "wait"
  BY DEF outboxMarkProcessing
<1>. HIDE DEF row, next
<1>. QED  BY <1>1, <1>2, <1>3, WriteStep

LEMMA SendStep ==
    ASSUME OutboxNumbers, OutboxInv, NEW p \in Process, outboxSend(p)
    PROVE  OutboxInv'
<1>1. /\ UNCHANGED outbox /\ pollers[p].pc = "send"
      /\ delivered' \in {delivered, delivered \cup {Current(p)}}
  BY DEF outboxSend
<1>2. PICK pc \in {"publish", "fail"} : /\ pc = "publish" => Current(p) \in delivered'
                                       /\ pollers' = [pollers EXCEPT ![p].pc = pc]
  BY DEF outboxSend
<1>3. delivered \subseteq delivered' /\ delivered' \in SUBSET Event
  BY <1>1, CurrentEvent DEF OutboxInv
<1>. DEFINE r == [pollers[p] EXCEPT !.pc = pc]
<1>4. PollerOK(r, delivered')
  BY <1>1, <1>2 DEF OutboxInv, PollerOK, Poller, Current
<1>5. pollers' = [pollers EXCEPT ![p] = r]
  BY <1>2
<1>. HIDE DEF r
<1>. QED  BY <1>1, <1>3, <1>4, <1>5, PollerMoves

LEMMA PublishStep ==
    ASSUME OutboxNumbers, OutboxInv, NEW p \in Process, markPublished(p)
    PROVE  OutboxInv'
<1>1. pollers[p].pc = "publish" /\ UNCHANGED delivered
  BY DEF markPublished
<1>2. CASE outbox' = [outbox EXCEPT ![Current(p)].status = "PUBLISHED"]
           /\ pollers' = [pollers EXCEPT ![p] = Done(p)]
  <2>. DEFINE row == [outbox[Current(p)] EXCEPT !.status = "PUBLISHED"]
  <2>1. Current(p) \in delivered
    BY <1>1 DEF OutboxInv, PollerOK, Current
  <2>2. RowOK(row, Current(p), delivered)
    BY <1>1, <2>1, CurrentEvent DEF RowOK, Row
  <2>3. outbox' = [outbox EXCEPT ![Current(p)] = row]
    BY <1>2
  <2>. HIDE DEF row
  <2>. QED  BY <1>1, <1>2, <2>2, <2>3, CurrentEvent, DoneOK, PollerMoves DEF OutboxInv
<1>3. CASE UNCHANGED outbox /\ pollers' = [pollers EXCEPT ![p].pc = "fail"]
  <2>. DEFINE r == [pollers[p] EXCEPT !.pc = "fail"]
  <2>1. PollerOK(r, delivered)
    BY <1>1 DEF OutboxInv, PollerOK, Poller
  <2>2. pollers' = [pollers EXCEPT ![p] = r]
    BY <1>3
  <2>. HIDE DEF r
  <2>. QED  BY <1>1, <1>3, <2>1, <2>2, PollerMoves DEF OutboxInv
<1>. QED  BY <1>2, <1>3 DEF markPublished

LEMMA ErrorStep ==
    ASSUME OutboxNumbers, OutboxInv, NEW p \in Process, handlePublishError(p)
    PROVE  OutboxInv'
<1>. DEFINE attempts == pollers[p].read[Current(p)] + 1
            row == IF attempts < maxAttempts
                   THEN [status |-> "PENDING", attempts |-> attempts, due |-> FALSE]
                   ELSE [outbox[Current(p)] EXCEPT !.status = "FAILED", !.attempts = attempts]
<1>1. pollers[p].pc = "fail" /\ UNCHANGED delivered /\ OutboxWrite(p, row, Done(p))
  BY DEF handlePublishError
<1>2. attempts \in 1..maxAttempts
  BY <1>1, CurrentEvent DEF OutboxNumbers
<1>. HIDE DEF attempts
<1>3. RowOK(row, Current(p), delivered)
  <2>1. CASE attempts < maxAttempts
    BY <1>2, <2>1 DEF RowOK, Row
  <2>2. CASE ~(attempts < maxAttempts)
    <3>1. attempts = maxAttempts /\ maxAttempts \in 0..maxAttempts
      BY <1>2, <2>2 DEF OutboxNumbers
    <3>2. row = [outbox[Current(p)] EXCEPT !.status = "FAILED", !.attempts = maxAttempts]
      BY <2>2, <3>1
    <3>3. outbox[Current(p)] \in Row
      BY <1>1, CurrentEvent
    <3>. HIDE DEF row
    <3>. QED  BY <3>1, <3>2, <3>3 DEF RowOK, Row
  <2>. QED  BY <2>1, <2>2
<1>. HIDE DEF row
<1>. QED  BY <1>1, <1>3, DoneOK, WriteStep

LEMMA RowStep ==
    ASSUME OutboxNumbers, OutboxInv,
           \/ \E e \in Event : storeEvent(e) \/ calculateBackoff(e)
           \/ retryFailed
    PROVE  OutboxInv'
<1>1. ASSUME NEW e \in Event, storeEvent(e)  PROVE OutboxInv'
  BY <1>1, RowsChange DEF storeEvent, OutboxInv, RowOK, Row
<1>2. ASSUME NEW e \in Event, calculateBackoff(e)  PROVE OutboxInv'
  BY <1>2, RowsChange DEF calculateBackoff, OutboxInv, RowOK, Row
<1>3. CASE retryFailed
  <2>1. PICK failed : outbox' = [e \in Event |-> IF e \in failed
                                    THEN [status |-> "PENDING", attempts |-> 0, due |-> TRUE]
                                    ELSE outbox[e]]
    BY <1>3 DEF retryFailed
  <2>2. \A e \in Event :
            RowOK([status |-> "PENDING", attempts |-> 0, due |-> TRUE], e, delivered)
    BY DEF RowOK, Row, OutboxNumbers
  <2>3. UNCHANGED <<pollers, delivered>>
    BY <1>3 DEF retryFailed
  <2>4. \A e \in Event : RowOK(outbox'[e], e, delivered)
    BY <2>1, <2>2 DEF OutboxInv
  <2>5. outbox' \in [Event -> Row]
    BY <2>1, <2>4 DEF RowOK
  <2>. QED  BY <2>3, <2>4, <2>5, RowsChange
<1>. QED  BY <1>1, <1>2, <1>3

LEMMA OutboxAlways ==
    ASSUME OutboxNumbers
    PROVE  OutboxSpec => []OutboxInv
<1>1. OutboxInit => OutboxInv
  BY WaitingOK DEF OutboxInit, OutboxInv, OutboxNoRow, RowOK, Row, PollerOK, OutboxNumbers
<1>2. OutboxInv /\ [OutboxNext]_outboxVars => OutboxInv'
  <2>. SUFFICES ASSUME OutboxInv, [OutboxNext]_outboxVars  PROVE OutboxInv'
    OBVIOUS
  <2>1. ASSUME NEW p \in Process, outboxCrash(p)  PROVE OutboxInv'
    BY <2>1, WaitingOK, PollerMoves DEF outboxCrash, OutboxInv
  <2>2. ASSUME NEW p \in Process, Poll(p)  PROVE OutboxInv'
    BY <2>2, FetchStep, MarkStep, SendStep, PublishStep, ErrorStep DEF Poll
  <2>3. CASE UNCHANGED outboxVars
    BY <2>3 DEF outboxVars, OutboxInv
  <2>. QED  BY <2>1, <2>2, <2>3, RowStep DEF OutboxNext
<1>. QED  BY <1>1, <1>2, PTL DEF OutboxSpec

\* processPendingEvents() of several processes may take the same event, and each goes by
\* what it fetched; still no row says PUBLISHED of an event that the broker did not take.
THEOREM PublishedReachedTheBroker ==
    ASSUME OutboxNumbers
    PROVE  OutboxSpec => []PublishedWasDelivered
<1>1. OutboxInv => PublishedWasDelivered
  BY DEF OutboxInv, RowOK, PublishedWasDelivered
<1>. QED  BY <1>1, OutboxAlways, PTL

\* handlePublishError() gives an event up with maxAttempts attempts, no more and no less,
\* although processes set each other's attempts back.
THEOREM GivenUpAtMaxAttempts ==
    ASSUME OutboxNumbers
    PROVE  OutboxSpec => []FailedIsExhausted
<1>1. OutboxInv => FailedIsExhausted
  BY DEF OutboxInv, RowOK, FailedIsExhausted
<1>. QED  BY <1>1, OutboxAlways, PTL

-----------------------------------------------------------------------------
\* Consumption exactly once

InHand == [pc : {"cache", "find", "transaction", "store", "setex"}, message : Message]

\* A message that no record holds, and whose transaction is not just committed, has been
\* committed no more often than calls were cut off.
EosCounts ==
    /\ \A m \in Message : committed[m] <= 1 + eosMishaps
    /\ \A m \in Message :
          m \notin storedOffset \cup retired /\ ~EosAt(m, "store") => committed[m] <= eosMishaps
    /\ \A m \in Message : EosAt(m, "transaction") => m \notin storedOffset
    /\ current # Nothing => current.message \notin retired

\* Who says that a message was processed knows of a transaction.
EosRecords ==
    /\ \A m \in finished \cup cachedOffset \cup storedOffset : committed[m] > 0
    /\ \A m \in Message : EosAt(m, "store") \/ EosAt(m, "setex") => committed[m] > 0

EosInv ==
    /\ current \in {Nothing} \cup InHand
    /\ cachedOffset \subseteq Message /\ storedOffset \subseteq Message
    /\ finished \subseteq Message /\ retired \subseteq Message
    /\ committed \in [Message -> Nat]
    /\ eosMishaps \in Nat
    /\ EosCounts /\ EosRecords

\* Where the message in hand is.
LEMMA OneInHand ==
    /\ \A m, pc : ~([pc |-> pc, message |-> m] = Nothing /\ pc # "idle")
    /\ \A m, n, pc, qc : [pc |-> pc, message |-> m] = [pc |-> qc, message |-> n] => m = n /\ pc = qc
    /\ \A m, pc : [pc |-> pc, message |-> m].message = m
    /\ \A m \in Message, pc \in {"cache", "find", "transaction", "store", "setex"} :
          [pc |-> pc, message |-> m] \in InHand /\ [pc |-> pc, message |-> m] # Nothing
<1>1. ASSUME NEW m, NEW n, NEW pc, NEW qc,
             [pc |-> pc, message |-> m] = [pc |-> qc, message |-> n]
      PROVE  m = n /\ pc = qc
  <2>1. [pc |-> pc, message |-> m].message = [pc |-> qc, message |-> n].message
    BY <1>1
  <2>2. [pc |-> pc, message |-> m].pc = [pc |-> qc, message |-> n].pc
    BY <1>1
  <2>. QED  BY <2>1, <2>2
<1>2. \A m, pc : [pc |-> pc, message |-> m].pc = pc
  OBVIOUS
<1>3. Nothing.pc = "idle"
  BY DEF Nothing
<1>. QED  BY <1>1, <1>2, <1>3 DEF InHand

\* The step from one place of processExactlyOnce() to the next.
LEMMA EosQuiet ==
    ASSUME EosInv, NEW m \in Message, UNCHANGED <<storedOffset, committed, retired, eosMishaps>>,
           \/ current = Nothing /\ m \notin retired /\ EosGoto(m, "cache")
           \/ EosAt(m, "cache") /\ EosGoto(m, "find")
           \/ EosAt(m, "find") /\ m \notin storedOffset /\ EosGoto(m, "transaction")
           \/ EosAt(m, "find") /\ current' = Nothing
           \/ EosAt(m, "cache") /\ current' = Nothing
           \/ EosAt(m, "transaction") /\ current' = Nothing
           \/ EosAt(m, "setex") /\ current' = Nothing,
           finished' \in SUBSET Message, cachedOffset' \in SUBSET Message,
           \A n \in finished' \cup cachedOffset' : committed[n] > 0
    PROVE  EosInv'
<1>1. current' \in {Nothing} \cup InHand
  BY DEF EosGoto, InHand
<1>2. \A n \in Message : ~EosAt(n, "store") /\ ~EosAt(n, "store")' /\ ~EosAt(n, "setex")'
  BY OneInHand DEF EosAt, EosGoto
<1>3. \A n \in Message : EosAt(n, "transaction")' => n \notin storedOffset'
  BY OneInHand DEF EosAt, EosGoto
<1>4. current' # Nothing => current'.message \notin retired'
  <2>1. current' # Nothing => current'.message = m
    BY OneInHand DEF EosGoto
  <2>2. current # Nothing => current.message = m
    BY OneInHand DEF EosAt
  <2>. QED  BY <2>1, <2>2, OneInHand DEF EosInv, EosCounts, EosAt
<1>5. EosCounts'
  BY <1>2, <1>3, <1>4 DEF EosInv, EosCounts
<1>6. EosRecords'
  BY <1>2 DEF EosInv, EosRecords
<1>. QED  BY <1>1, <1>5, <1>6 DEF EosInv

LEMMA EosReads ==
    ASSUME EosInv, NEW m \in Message, deliver(m) \/ getOffset(m) \/ findOffset(m)
    PROVE  EosInv'
<1>1. UNCHANGED <<storedOffset, committed, retired, eosMishaps>>
  BY DEF deliver, getOffset, findOffset
<1>2. /\ finished' \in SUBSET Message /\ cachedOffset' \in SUBSET Message
      /\ \A n \in finished' \cup cachedOffset' : committed[n] > 0
  BY DEF deliver, getOffset, findOffset, Return, EosInv, EosRecords
<1>3. \/ current = Nothing /\ m \notin retired /\ EosGoto(m, "cache")
      \/ EosAt(m, "cache") /\ EosGoto(m, "find")
      \/ EosAt(m, "find") /\ m \notin storedOffset /\ EosGoto(m, "transaction")
      \/ EosAt(m, "find") /\ current' = Nothing
      \/ EosAt(m, "cache") /\ current' = Nothing
  BY DEF deliver, getOffset, findOffset, Return
<1>. QED  BY <1>1, <1>2, <1>3, EosQuiet

LEMMA TransactionStep ==
    ASSUME EosInv, NEW m \in Message, transaction(m)
    PROVE  EosInv'
<1>1. /\ EosAt(m, "transaction")
      /\ UNCHANGED <<cachedOffset, storedOffset, finished, retired, eosMishaps>>
  BY DEF transaction
<1>2. CASE current' = Nothing /\ UNCHANGED committed
  <2>1. \A n \in finished' \cup cachedOffset' : committed[n] > 0
    BY <1>1 DEF EosInv, EosRecords
  <2>. QED  BY <1>1, <1>2, <2>1, EosQuiet DEF EosInv
<1>3. CASE committed' = [committed EXCEPT ![m] = @ + 1] /\ EosGoto(m, "store")
  <2>1. m \notin storedOffset \cup retired /\ committed[m] <= eosMishaps
    BY <1>1, OneInHand DEF EosInv, EosCounts, EosAt
  <2>2. /\ committed' \in [Message -> Nat] /\ committed'[m] = committed[m] + 1
        /\ \A n \in Message : n # m => committed'[n] = committed[n]
    BY <1>3 DEF EosInv
  <2>3. current' \in InHand /\ EosAt(m, "store")' /\ current'.message = m
    BY <1>3, OneInHand DEF EosGoto, EosAt
  <2>4. \A n \in Message : /\ ~EosAt(n, "transaction")' /\ ~EosAt(n, "setex")'
                           /\ ~EosAt(n, "store") /\ (EosAt(n, "store")' => n = m)
    BY <1>1, <1>3, OneInHand DEF EosGoto, EosAt
  <2>5. EosCounts'
    BY <1>1, <2>1, <2>2, <2>3, <2>4 DEF EosInv, EosCounts
  <2>6. EosRecords'
    BY <1>1, <2>2, <2>4 DEF EosInv, EosRecords
  <2>. QED  BY <1>1, <2>2, <2>3, <2>5, <2>6 DEF EosInv
<1>. QED  BY <1>2, <1>3 DEF transaction

\* A call that is cut off, wherever it was.
LEMMA CutOff ==
    ASSUME EosInv, eosMishaps' = eosMishaps + 1, current' = Nothing,
           UNCHANGED <<cachedOffset, storedOffset, committed, finished, retired>>
    PROVE  EosInv'
<1>1. \A n \in Message, pc \in {"transaction", "store", "setex"} : ~EosAt(n, pc)'
  BY OneInHand DEF EosAt
<1>2. eosMishaps' \in Nat /\ \A n \in Message : committed[n] <= eosMishaps'
  BY DEF EosInv, EosCounts
<1>3. EosCounts'
  BY <1>1, <1>2 DEF EosInv, EosCounts
<1>4. EosRecords'
  BY <1>1 DEF EosInv, EosRecords
<1>. QED  BY <1>2, <1>3, <1>4 DEF EosInv

LEMMA StoreStep ==
    ASSUME EosInv, NEW m \in Message, storeOffset(m)
    PROVE  EosInv'
<1>1. EosAt(m, "store") /\ UNCHANGED <<cachedOffset, committed, finished, retired>>
  BY DEF storeOffset
<1>2. CASE EosMishap /\ current' = Nothing /\ UNCHANGED storedOffset
  BY <1>1, <1>2, CutOff DEF EosMishap
<1>3. CASE storedOffset' = storedOffset \cup {m} /\ EosGoto(m, "setex") /\ UNCHANGED eosMishaps
  <2>1. current # Nothing /\ current.message = m /\ committed[m] > 0
    BY <1>1, OneInHand DEF EosAt, EosInv, EosRecords
  <2>2. current' \in InHand /\ current'.message = m
    BY <1>3, OneInHand DEF EosGoto
  <2>3. \A n \in Message : /\ ~EosAt(n, "transaction")' /\ ~EosAt(n, "store")'
                           /\ EosAt(n, "store") => n = m
                           /\ EosAt(n, "setex")' => n = m
    BY <1>1, <1>3, OneInHand DEF EosGoto, EosAt
  <2>4. EosCounts'
    BY <1>1, <1>3, <2>1, <2>2, <2>3 DEF EosInv, EosCounts
  <2>5. EosRecords'
    BY <1>1, <1>3, <2>1, <2>3 DEF EosInv, EosRecords
  <2>. QED  BY <1>1, <1>3, <2>2, <2>4, <2>5 DEF EosInv
<1>. QED  BY <1>2, <1>3 DEF storeOffset

LEMMA CacheStep ==
    ASSUME EosInv, NEW m \in Message, cacheOffset(m)
    PROVE  EosInv'
<1>1. EosAt(m, "setex") /\ UNCHANGED <<storedOffset, committed, retired>>
  BY DEF cacheOffset
<1>2. CASE EosMishap /\ current' = Nothing /\ UNCHANGED <<cachedOffset, finished>>
  BY <1>1, <1>2, CutOff DEF EosMishap
<1>3. CASE cachedOffset' = cachedOffset \cup {m} /\ Return(m) /\ UNCHANGED eosMishaps
  <2>1. committed[m] > 0
    BY <1>1 DEF EosInv, EosRecords
  <2>2. \A n \in finished' \cup cachedOffset' : committed[n] > 0
    BY <1>3, <2>1 DEF EosInv, EosRecords, Return
  <2>. QED  BY <1>1, <1>3, <2>2, EosQuiet DEF Return, EosInv
<1>. QED  BY <1>2, <1>3 DEF cacheOffset

\* Records go: those of Redis, and those of the table with what they stand for.
LEMMA RecordsGo ==
    ASSUME EosInv, cacheExpires \/ cleanupOldOffsets
    PROVE  EosInv'
<1>1. CASE cacheExpires
  BY <1>1 DEF cacheExpires, EosInv, EosCounts, EosRecords, EosAt
<1>2. CASE cleanupOldOffsets
  <2>1. PICK m \in storedOffset : storedOffset' = storedOffset \ {m} /\ retired' = retired \cup {m}
    BY <1>2 DEF cleanupOldOffsets
  <2>2. current = Nothing /\ UNCHANGED <<current, cachedOffset, committed, finished, eosMishaps>>
    BY <1>2 DEF cleanupOldOffsets
  <2>3. \A n \in Message, pc \in {"transaction", "store", "setex"} : ~EosAt(n, pc) /\ ~EosAt(n, pc)'
    BY <2>2, OneInHand DEF EosAt
  <2>. QED  BY <2>1, <2>2, <2>3 DEF EosInv, EosCounts, EosRecords
<1>. QED  BY <1>1, <1>2

LEMMA EosAlways == EosSpec => []EosInv
<1>1. EosInit => EosInv
  BY OneInHand DEF EosInit, EosInv, EosCounts, EosRecords, EosAt
<1>2. EosInv /\ [EosNext]_eosVars => EosInv'
  <2>. SUFFICES ASSUME EosInv, [EosNext]_eosVars  PROVE EosInv'
    OBVIOUS
  <2>1. CASE eosCrash
    BY <2>1, CutOff DEF eosCrash, EosMishap
  <2>2. ASSUME NEW m \in Message, deliver(m) \/ processExactlyOnce(m)  PROVE EosInv'
    BY <2>2, EosReads, TransactionStep, StoreStep, CacheStep DEF processExactlyOnce
  <2>3. CASE UNCHANGED eosVars
    BY <2>3 DEF eosVars, EosInv, EosCounts, EosRecords, EosAt
  <2>. QED  BY <2>1, <2>2, <2>3, RecordsGo DEF EosNext
<1>. QED  BY <1>1, <1>2, PTL DEF EosSpec

\* processExactlyOnce() repeats the transaction of a message at most once for each call
\* that was cut off between the commit and the record in the database, whatever keys of
\* Redis expire and rows are cleaned up.
THEOREM RepeatsAreOwed == EosSpec => []CommittedOnceEach
<1>1. EosInv => CommittedOnceEach
  BY DEF EosInv, EosCounts, CommittedOnceEach
<1>. QED  BY <1>1, EosAlways, PTL

\* processExactlyOnce() passes no message over whose transaction was never committed.
THEOREM NothingIsPassedOver == EosSpec => []FinishedWasCommitted
<1>1. EosInv => FinishedWasCommitted
  BY DEF EosInv, EosRecords, FinishedWasCommitted
<1>. QED  BY <1>1, EosAlways, PTL

-----------------------------------------------------------------------------
\* The unified dead letter queue

Letter == [status : {"none", "pending", "processing", "resolved", "exhausted"}, retryCount : Nat]
Call == [pc : {"free", "zadd", "zrem", "exhaust", "send", "count"}, found : Nat]

\* What a worker found it may go by: a replay that is under way began below the limit, and
\* the send it counts was made.
FoundOK(w) ==
    /\ UnifiedAt(w, "send") => workers[w].found < maxRetries /\ workers[w].found <= replays
    /\ UnifiedAt(w, "count") => workers[w].found < maxRetries /\ workers[w].found < replays

UnifiedInv ==
    /\ letter \in Letter /\ replays \in Nat
    /\ workers \in [Worker -> Call]
    /\ CountedReplaysWereSent
    /\ \A w \in Worker : FoundOK(w)

\* The call of one worker moves on; what the others found stays true.
LEMMA WorkerMoves ==
    ASSUME UnifiedInv, NEW w \in Worker, NEW found \in Nat,
           NEW pc \in {"free", "zadd", "zrem", "exhaust", "send", "count"},
           UnifiedGoto(w, pc, found), replays' \in Nat, replays <= replays',
           pc = "send" => found < maxRetries /\ found <= replays',
           pc = "count" => found < maxRetries /\ found < replays',
           maxRetries \in Nat
    PROVE  /\ workers' \in [Worker -> Call]
           /\ \A v \in Worker : FoundOK(v)'
<1>1. workers' \in [Worker -> Call]
  BY DEF UnifiedInv, UnifiedGoto, Call
<1>2. ASSUME NEW v \in Worker  PROVE FoundOK(v)'
  <2>1. CASE v = w
    BY <2>1 DEF UnifiedInv, UnifiedGoto, FoundOK, UnifiedAt, Call
  <2>2. CASE v # w
    <3>1. workers'[v] = workers[v] /\ workers[v].found \in Nat
      BY <2>2 DEF UnifiedInv, UnifiedGoto, Call
    <3>. QED  BY <3>1 DEF UnifiedInv, FoundOK, UnifiedAt
  <2>. QED  BY <2>1, <2>2
<1>. QED  BY <1>1, <1>2

\* The steps that neither send nor count.
LEMMA UnifiedQuiet ==
    ASSUME UnifiedInv, maxRetries \in Nat, UNCHANGED replays,
           letter' \in Letter, letter'.retryCount = letter.retryCount,
           \/ UNCHANGED workers
           \/ \E w \in Worker, pc \in {"free", "zadd", "zrem", "exhaust"} : UnifiedGoto(w, pc, 0)
    PROVE  UnifiedInv'
<1>1. CASE UNCHANGED workers
  BY <1>1 DEF UnifiedInv, FoundOK, UnifiedAt, CountedReplaysWereSent
<1>2. CASE \E w \in Worker, pc \in {"free", "zadd", "zrem", "exhaust"} : UnifiedGoto(w, pc, 0)
  <2>1. PICK w \in Worker, pc \in {"free", "zadd", "zrem", "exhaust"} : UnifiedGoto(w, pc, 0)
    BY <1>2
  <2>2. replays' \in Nat /\ replays <= replays'
    BY DEF UnifiedInv
  <2>3. /\ workers' \in [Worker -> Call]
        /\ \A v \in Worker : FoundOK(v)'
    BY <2>1, <2>2, WorkerMoves
  <2>. QED  BY <2>3 DEF UnifiedInv, CountedReplaysWereSent
<1>. QED  BY <1>1, <1>2

LEMMA UnifiedRest ==
    ASSUME UnifiedInv, maxRetries \in Nat, NEW w \in Worker,
           \/ scheduleRetry(w) \/ zadd(w) \/ getRetryCandidates(w) \/ zrem(w)
           \/ markResolved(w) \/ markExhausted(w) \/ exhaust(w)
    PROVE  UnifiedInv'
<1>1. UNCHANGED replays /\ letter' \in Letter /\ letter'.retryCount = letter.retryCount
  BY DEF UnifiedInv, Letter, scheduleRetry, zadd, getRetryCandidates, zrem, markResolved,
         markExhausted, settle, exhaust
<1>2. \E pc \in {"free", "zadd", "zrem", "exhaust"} : UnifiedGoto(w, pc, 0)
  BY DEF scheduleRetry, zadd, getRetryCandidates, zrem, markResolved, markExhausted, settle,
         exhaust, UnifiedFinish, UnifiedGoto, Free
<1>. QED  BY <1>1, <1>2, UnifiedQuiet

LEMMA ReplayStep ==
    ASSUME UnifiedInv, maxRetries \in Nat, NEW w \in Worker, replayMessage(w)
    PROVE  UnifiedInv'
<1>1. UNCHANGED <<letter, replays>>
  BY DEF replayMessage
<1>2. CASE letter.retryCount + 1 > maxRetries
  BY <1>1, <1>2, UnifiedQuiet DEF replayMessage, UnifiedInv
<1>3. CASE ~(letter.retryCount + 1 > maxRetries)
  <2>1. UnifiedGoto(w, "send", letter.retryCount)
    BY <1>3 DEF replayMessage
  <2>2. letter.retryCount < maxRetries /\ letter.retryCount <= replays' /\ replays <= replays'
    BY <1>1, <1>3 DEF UnifiedInv, CountedReplaysWereSent, Letter
  <2>3. /\ workers' \in [Worker -> Call]
        /\ \A v \in Worker : FoundOK(v)'
    BY <1>1, <2>1, <2>2, WorkerMoves DEF UnifiedInv, Letter
  <2>. QED  BY <1>1, <2>3 DEF UnifiedInv, CountedReplaysWereSent
<1>. QED  BY <1>2, <1>3

LEMMA ResendStep ==
    ASSUME UnifiedInv, maxRetries \in Nat, NEW w \in Worker, unifiedSend(w)
    PROVE  UnifiedInv'
<1>1. UnifiedAt(w, "send") /\ UNCHANGED letter
  BY DEF unifiedSend
<1>2. CASE UnifiedFinish(w) /\ UNCHANGED replays
  BY <1>1, <1>2, UnifiedQuiet DEF UnifiedFinish, UnifiedGoto, Free, UnifiedInv
<1>3. CASE replays' = replays + 1 /\ UnifiedGoto(w, "count", workers[w].found)
  <2>1. /\ workers[w].found \in Nat /\ replays' \in Nat /\ replays <= replays'
        /\ workers[w].found < maxRetries /\ workers[w].found < replays'
    BY <1>1, <1>3 DEF UnifiedInv, FoundOK, Call
  <2>2. /\ workers' \in [Worker -> Call]
        /\ \A v \in Worker : FoundOK(v)'
    BY <1>3, <2>1, WorkerMoves
  <2>. QED  BY <1>1, <2>1, <2>2, <1>3 DEF UnifiedInv, CountedReplaysWereSent, Letter
<1>. QED  BY <1>2, <1>3 DEF unifiedSend, UnifiedFinish, UnifiedGoto

LEMMA CountStep ==
    ASSUME UnifiedInv, maxRetries \in Nat, NEW w \in Worker, countReplay(w)
    PROVE  UnifiedInv'
<1>1. /\ UnifiedAt(w, "count") /\ UNCHANGED replays /\ UnifiedGoto(w, "free", 0)
      /\ letter' = [status |-> "pending", retryCount |-> workers[w].found + 1]
  BY DEF countReplay, UnifiedFinish, UnifiedGoto, Free
<1>2. workers[w].found \in Nat /\ workers[w].found < maxRetries /\ workers[w].found < replays
  BY <1>1 DEF UnifiedInv, FoundOK, Call
<1>3. replays' \in Nat /\ replays <= replays'
  BY <1>1 DEF UnifiedInv
<1>4. /\ workers' \in [Worker -> Call]
      /\ \A v \in Worker : FoundOK(v)'
  BY <1>1, <1>3, WorkerMoves
<1>. QED  BY <1>1, <1>2, <1>3, <1>4 DEF UnifiedInv, CountedReplaysWereSent, Letter

LEMMA UnifiedAlways ==
    ASSUME maxRetries \in Nat
    PROVE  UnifiedSpec => []UnifiedInv
<1>1. UnifiedInit => UnifiedInv
  BY DEF UnifiedInit, UnifiedInv, Letter, Call, Free, FoundOK, UnifiedAt, CountedReplaysWereSent
<1>2. UnifiedInv /\ [UnifiedNext]_unifiedVars => UnifiedInv'
  <2>. SUFFICES ASSUME UnifiedInv, [UnifiedNext]_unifiedVars  PROVE UnifiedInv'
    OBVIOUS
  <2>1. CASE sendToTopic \/ unifiedMarkProcessing \/ UNCHANGED unifiedVars
    BY <2>1, UnifiedQuiet DEF sendToTopic, unifiedMarkProcessing, unifiedVars, UnifiedInv, Letter
  <2>2. CASE unifiedCreateRow
    BY <2>2 DEF unifiedCreateRow, UnifiedInv, Letter, FoundOK, UnifiedAt, CountedReplaysWereSent
  <2>3. ASSUME NEW w \in Worker,
               \/ scheduleRetry(w) \/ zadd(w) \/ getRetryCandidates(w) \/ zrem(w)
               \/ markResolved(w) \/ markExhausted(w)
               \/ replayMessage(w) \/ exhaust(w) \/ unifiedSend(w) \/ countReplay(w)
        PROVE  UnifiedInv'
    BY <2>3, UnifiedRest, ReplayStep, ResendStep, CountStep
  <2>. QED  BY <2>1, <2>2, <2>3 DEF UnifiedNext
<1>. QED  BY <1>1, <1>2, PTL DEF UnifiedSpec

\* replayMessage() counts no replay that it did not send, and never more than maxRetries of
\* them, however the replays of several workers overlap and write over each other's count.
THEOREM CountsHaveSends ==
    ASSUME maxRetries \in Nat
    PROVE  UnifiedSpec => []CountedReplaysWereSent
<1>1. UnifiedInv => CountedReplaysWereSent
  BY DEF UnifiedInv
<1>. QED  BY <1>1, UnifiedAlways, PTL

-----------------------------------------------------------------------------
\* The dead letter queue of the event bus

DeadRow == [status : {"NONE", "PENDING", "RETRYING", "REPROCESSED", "PERMANENTLY_FAILED"},
            attempts : Nat]
Retry == [pc : {"idle", "mark", "send", "sent", "failed"}, seen : Nat]

\* The retries that are counted and not yet sent.
Sending == {r \in Retrier : DlqAt(r, "send")}

\* Before its row is created an event was not retried; afterwards the attempts cover the
\* sends that were made and those that are about to be made.
DlqCounts ==
    IF dlqRow = DlqNoRow
    THEN ~deadTopic => resent = 0 /\ \A r \in Retrier : DlqAt(r, "idle")
    ELSE resent + Cardinality(Sending) <= dlqRow.attempts

\* What a retrier saw, its own mark has gone past.
DlqSeen ==
    dlqRow # DlqNoRow => \A r \in Retrier :
        /\ retriers[r].seen <= dlqRow.attempts
        /\ retriers[r].pc \in {"send", "sent", "failed"} => retriers[r].seen < dlqRow.attempts

DlqInv ==
    /\ dlqRow \in DeadRow
    /\ dlqRow.status = "NONE" => dlqRow = DlqNoRow
    /\ retriers \in [Retrier -> Retry]
    /\ \A r \in Retrier : DlqAt(r, "idle") => retriers[r].seen = 0
    /\ resent \in Nat /\ deadTopic \in BOOLEAN
    /\ DlqCounts /\ DlqSeen /\ GivenUpIsExhausted

\* r enters or leaves the sends that are outstanding.
LEMMA SendingChanges ==
    ASSUME IsFiniteSet(Retrier), NEW r \in Retrier
    PROVE  /\ Cardinality(Sending) \in Nat
           /\ Sending' = Sending \cup {r} => Cardinality(Sending') <= Cardinality(Sending) + 1
           /\ Sending' = Sending \ {r} => Cardinality(Sending') <= Cardinality(Sending)
           /\ Sending' = Sending \ {r} /\ r \in Sending
                 => Cardinality(Sending') = Cardinality(Sending) - 1
<1>1. IsFiniteSet(Sending)
  BY FS_Subset DEF Sending
<1>. QED  BY <1>1, FS_CardinalityType, FS_AddElement, FS_RemoveElement

\* A retrier moves on; the row stays as it is or takes one attempt more.
LEMMA RetrierMoves ==
    ASSUME IsFiniteSet(Retrier), dlqMaxRetries \in Nat, DlqInv, NEW r \in Retrier,
           NEW pc \in {"idle", "mark", "send", "sent", "failed"}, NEW seen \in Nat,
           pc = "idle" => seen = 0,
           retriers' = [retriers EXCEPT ![r] = [pc |-> pc, seen |-> seen]],
           dlqRow # DlqNoRow => seen <= dlqRow'.attempts,
           dlqRow # DlqNoRow /\ pc \in {"send", "sent", "failed"} => seen < dlqRow'.attempts,
           UNCHANGED deadTopic, resent' \in Nat,
           dlqRow' \in DeadRow, dlqRow'.status = "NONE" => dlqRow' = DlqNoRow,
           dlqRow' = DlqNoRow <=> dlqRow = DlqNoRow,
           dlqRow.attempts <= dlqRow'.attempts, GivenUpIsExhausted',
           DlqCounts'
    PROVE  DlqInv'
<1>1. retriers' \in [Retrier -> Retry]
  BY DEF DlqInv, Retry
<1>2. DlqSeen'
  <2>. SUFFICES ASSUME dlqRow # DlqNoRow, NEW q \in Retrier
                PROVE  /\ retriers'[q].seen <= dlqRow'.attempts
                       /\ retriers'[q].pc \in {"send", "sent", "failed"}
                             => retriers'[q].seen < dlqRow'.attempts
    BY DEF DlqSeen
  <2>1. CASE q = r
    BY <2>1 DEF DlqInv
  <2>2. CASE q # r
    <3>1. retriers'[q] = retriers[q] /\ retriers[q].seen \in Nat
      BY <2>2 DEF DlqInv, Retry
    <3>2. dlqRow.attempts \in Nat /\ dlqRow'.attempts \in Nat
      BY DEF DlqInv, DeadRow
    <3>. QED  BY <3>1, <3>2 DEF DlqInv, DlqSeen
  <2>. QED  BY <2>1, <2>2
<1>3. \A q \in Retrier : DlqAt(q, "idle")' => retriers'[q].seen = 0
  BY DEF DlqInv, DlqAt, Retry
<1>. QED  BY <1>1, <1>2, <1>3 DEF DlqInv, DlqNoRow


LEMMA GotoIs ==
    ASSUME DlqInv, NEW r \in Retrier, NEW pc, DlqGoto(r, pc)
    PROVE  retriers' = [retriers EXCEPT ![r] = [pc |-> pc, seen |-> retriers[r].seen]]
<1>1. retriers[r] \in Retry
  BY DEF DlqInv
<1>2. [retriers[r] EXCEPT !.pc = pc] = [pc |-> pc, seen |-> retriers[r].seen]
  BY <1>1 DEF Retry
<1>3. retriers' = [retriers EXCEPT ![r] = [retriers[r] EXCEPT !.pc = pc]]
  BY DEF DlqGoto
<1>. QED  BY <1>2, <1>3

\* A retrier stops, or goes on without sending: the row may change its status, and its
\* attempts stay.
LEMMA RetrierStops ==
    ASSUME IsFiniteSet(Retrier), dlqMaxRetries \in Nat, DlqInv, NEW r \in Retrier,
           ~DlqAt(r, "idle"),
           \/ DlqFinish(r)
           \/ ~DlqAt(r, "mark") /\ DlqGoto(r, "failed"),
           UNCHANGED <<resent, deadTopic>>,
           \/ UNCHANGED dlqRow
           \/ \E status \in {"PENDING", "REPROCESSED", "PERMANENTLY_FAILED"} :
                 /\ DlqWrite(status)
                 /\ status = "PERMANENTLY_FAILED" /\ dlqRow # DlqNoRow
                       => dlqRow.attempts >= dlqMaxRetries
    PROVE  DlqInv'
<1>1. retriers[r] \in Retry /\ retriers[r].seen \in Nat
  BY DEF DlqInv, Retry
<1>2. PICK pc \in {"idle", "failed"}, seen \in Nat :
         /\ retriers' = [retriers EXCEPT ![r] = [pc |-> pc, seen |-> seen]]
         /\ pc = "failed" => /\ retriers[r].pc \in {"send", "sent", "failed"}
                            /\ seen = retriers[r].seen
         /\ pc = "idle" => seen = 0
  <2>1. CASE DlqFinish(r)
    BY <2>1 DEF DlqFinish, Idle
  <2>2. CASE ~DlqAt(r, "mark") /\ DlqGoto(r, "failed")
    <3>1. retriers' = [retriers EXCEPT ![r] = [pc |-> "failed", seen |-> retriers[r].seen]]
      BY <2>2, GotoIs
    <3>2. retriers[r].pc \in {"send", "sent", "failed"}
      BY <1>1, <2>2 DEF DlqAt, Retry
    <3>. QED  BY <1>1, <3>1, <3>2
  <2>. QED  BY <2>1, <2>2
<1>3. /\ dlqRow' \in DeadRow /\ (dlqRow'.status = "NONE" => dlqRow' = DlqNoRow)
      /\ (dlqRow' = DlqNoRow <=> dlqRow = DlqNoRow)
      /\ dlqRow'.attempts = dlqRow.attempts /\ dlqRow.attempts \in Nat
      /\ GivenUpIsExhausted'
  BY DEF DlqInv, DeadRow, DlqWrite, DlqNoRow, GivenUpIsExhausted
<1>4. Sending' = Sending \ {r}
  BY <1>2 DEF Sending, DlqAt, DlqInv, Retry
<1>5. /\ Cardinality(Sending') \in Nat /\ Cardinality(Sending) \in Nat
      /\ Cardinality(Sending') <= Cardinality(Sending)
  <2>1. IsFiniteSet(Sending) /\ IsFiniteSet(Sending')
    BY <1>4, FS_Subset DEF Sending
  <2>. QED  BY <1>4, <2>1, FS_CardinalityType, SendingChanges
<1>6. DlqCounts'
  <2>1. CASE dlqRow = DlqNoRow
    BY <1>3, <2>1 DEF DlqInv, DlqCounts
  <2>2. CASE dlqRow # DlqNoRow
    BY <1>3, <1>5, <2>2 DEF DlqInv, DlqCounts
  <2>. QED  BY <2>1, <2>2
<1>7. /\ dlqRow # DlqNoRow => seen <= dlqRow'.attempts
      /\ dlqRow # DlqNoRow /\ pc \in {"send", "sent", "failed"} => seen < dlqRow'.attempts
  BY <1>1, <1>2, <1>3 DEF DlqInv, DlqSeen
<1>8. resent' \in Nat /\ dlqRow.attempts <= dlqRow'.attempts
  BY <1>3 DEF DlqInv
<1>. QED  BY <1>2, <1>3, <1>6, <1>7, <1>8, RetrierMoves

LEMMA RetryStep ==
    ASSUME IsFiniteSet(Retrier), dlqMaxRetries \in Nat, DlqInv, NEW r \in Retrier, retryEvent(r)
    PROVE  DlqInv'
<1>1. /\ DlqAt(r, "idle") /\ dlqRow # DlqNoRow /\ UNCHANGED <<dlqRow, resent, deadTopic>>
      /\ retriers' = [retriers EXCEPT ![r] = [pc |-> "mark", seen |-> dlqRow.attempts]]
      /\ dlqRow.attempts \in Nat
  BY DEF retryEvent, DlqInv, DeadRow
<1>2. Sending' = Sending
  BY <1>1 DEF Sending, DlqAt, DlqInv, Retry
<1>3. DlqCounts'
  BY <1>1, <1>2 DEF DlqInv, DlqCounts
<1>4. GivenUpIsExhausted'
  BY <1>1 DEF DlqInv, GivenUpIsExhausted
<1>5. /\ dlqRow' \in DeadRow /\ (dlqRow'.status = "NONE" => dlqRow' = DlqNoRow)
      /\ dlqRow.attempts <= dlqRow'.attempts /\ resent' \in Nat
  BY <1>1 DEF DlqInv
<1>. QED  BY <1>1, <1>3, <1>4, <1>5, RetrierMoves

LEMMA CountAttempt ==
    ASSUME IsFiniteSet(Retrier), dlqMaxRetries \in Nat, DlqInv, NEW r \in Retrier, markRetrying(r)
    PROVE  DlqInv'
<1>1. DlqAt(r, "mark") /\ UNCHANGED <<resent, deadTopic>>
  BY DEF markRetrying
<1>2. CASE dlqRow = DlqNoRow
  BY <1>1, <1>2, RetrierStops DEF markRetrying, DlqAt
<1>3. CASE dlqRow # DlqNoRow
  <2>. DEFINE seen == retriers[r].seen
  <2>1. /\ retriers[r] \in Retry /\ seen \in Nat /\ seen <= dlqRow.attempts
        /\ dlqRow.attempts \in Nat
    BY <1>3 DEF DlqInv, Retry, DlqSeen, DeadRow
  <2>2. /\ retriers' = [retriers EXCEPT ![r] = [pc |-> "send", seen |-> seen]]
        /\ dlqRow' = [status |-> "RETRYING", attempts |-> dlqRow.attempts + 1]
    BY <1>3, GotoIs DEF markRetrying
  <2>3. /\ dlqRow' \in DeadRow /\ dlqRow' # DlqNoRow /\ dlqRow'.status # "NONE"
        /\ dlqRow'.attempts = dlqRow.attempts + 1 /\ GivenUpIsExhausted'
        /\ seen < dlqRow'.attempts /\ seen <= dlqRow'.attempts
        /\ dlqRow.attempts <= dlqRow'.attempts
    BY <2>1, <2>2 DEF DeadRow, DlqNoRow, GivenUpIsExhausted
  <2>4. Sending' = Sending \cup {r}
    BY <2>2 DEF Sending, DlqAt, DlqInv, Retry
  <2>5. IsFiniteSet(Sending')
    BY <2>4, FS_Subset, FS_AddElement DEF Sending
  <2>6. /\ Cardinality(Sending) \in Nat /\ Cardinality(Sending') \in Nat
        /\ Cardinality(Sending') <= Cardinality(Sending) + 1
    BY <2>4, <2>5, SendingChanges, FS_CardinalityType
  <2>7. DlqCounts'
    BY <1>1, <1>3, <2>1, <2>3, <2>6 DEF DlqInv, DlqCounts
  <2>. HIDE DEF seen
  <2>8. resent' \in Nat
    BY <1>1 DEF DlqInv
  <2>. QED  BY <1>1, <1>3, <2>1, <2>2, <2>3, <2>7, <2>8, RetrierMoves
<1>. QED  BY <1>2, <1>3

LEMMA DlqSendStep ==
    ASSUME IsFiniteSet(Retrier), dlqMaxRetries \in Nat, DlqInv, NEW r \in Retrier, dlqSend(r)
    PROVE  DlqInv'
<1>1. DlqAt(r, "send") /\ UNCHANGED <<dlqRow, deadTopic>>
  BY DEF dlqSend
<1>2. CASE UNCHANGED resent /\ DlqGoto(r, "failed")
  BY <1>1, <1>2, RetrierStops DEF DlqAt
<1>3. CASE resent' = resent + 1 /\ DlqGoto(r, "sent")
  <2>. DEFINE seen == retriers[r].seen
  <2>1. retriers[r] \in Retry /\ seen \in Nat /\ (dlqRow # DlqNoRow => seen < dlqRow.attempts)
        /\ dlqRow.attempts \in Nat /\ resent \in Nat
    BY <1>1 DEF DlqInv, Retry, DlqSeen, DeadRow, DlqAt
  <2>2. retriers' = [retriers EXCEPT ![r] = [pc |-> "sent", seen |-> seen]]
    BY <1>3, GotoIs
  <2>3. Sending' = Sending \ {r} /\ r \in Sending
    BY <1>1, <2>2 DEF Sending, DlqAt, DlqInv, Retry
  <2>4. Cardinality(Sending) \in Nat /\ Cardinality(Sending') = Cardinality(Sending) - 1
    BY <2>3, SendingChanges
  <2>5. DlqCounts'
    <3>1. CASE dlqRow = DlqNoRow
      BY <1>1, <3>1 DEF DlqInv, DlqCounts, DlqAt
    <3>2. CASE dlqRow # DlqNoRow
      BY <1>1, <1>3, <2>1, <2>4, <3>2 DEF DlqInv, DlqCounts
    <3>. QED  BY <3>1, <3>2
  <2>6. GivenUpIsExhausted' /\ resent' \in Nat /\ dlqRow.attempts <= dlqRow'.attempts
        /\ (dlqRow # DlqNoRow => seen < dlqRow'.attempts /\ seen <= dlqRow'.attempts)
    BY <1>1, <1>3, <2>1 DEF DlqInv, GivenUpIsExhausted
  <2>7. dlqRow' \in DeadRow /\ (dlqRow'.status = "NONE" => dlqRow' = DlqNoRow)
    BY <1>1 DEF DlqInv
  <2>. HIDE DEF seen
  <2>. QED  BY <1>1, <2>1, <2>2, <2>5, <2>6, <2>7, RetrierMoves
<1>. QED  BY <1>2, <1>3 DEF dlqSend, DlqGoto


\* What a failed or a successful send leaves in the row.
LEMMA OutcomeStep ==
    ASSUME IsFiniteSet(Retrier), dlqMaxRetries \in Nat, DlqInv, NEW r \in Retrier,
           markReprocessed(r) \/ recordFailure(r) \/ dlqCrash(r)
    PROVE  DlqInv'
<1>1. CASE markReprocessed(r)
  BY <1>1, RetrierStops DEF markReprocessed, DlqAt
<1>2. CASE recordFailure(r)
  <2>1. PICK status \in {"PENDING", "PERMANENTLY_FAILED"} :
           /\ DlqWrite(status)
           /\ status = "PERMANENTLY_FAILED" => retriers[r].seen + 1 >= dlqMaxRetries
    BY <1>2 DEF recordFailure
  <2>2. dlqRow # DlqNoRow => /\ retriers[r].seen \in Nat /\ dlqRow.attempts \in Nat
                            /\ retriers[r].seen < dlqRow.attempts
    BY <1>2 DEF recordFailure, DlqAt, DlqInv, DlqSeen, DeadRow, Retry
  <2>3. status = "PERMANENTLY_FAILED" /\ dlqRow # DlqNoRow => dlqRow.attempts >= dlqMaxRetries
    BY <2>1, <2>2
  <2>. QED  BY <1>2, <2>1, <2>3, RetrierStops DEF recordFailure, DlqAt
<1>3. CASE dlqCrash(r)
  BY <1>3, RetrierStops DEF dlqCrash
<1>. QED  BY <1>1, <1>2, <1>3

\* A row comes, goes, or has its topic written.
LEMMA DeadRowStep ==
    ASSUME IsFiniteSet(Retrier), dlqMaxRetries \in Nat, DlqInv,
           dlqCreateRow \/ sendToDLQ \/ purgeOldEvents
    PROVE  DlqInv'
<1>1. CASE dlqCreateRow
  <2>1. /\ dlqRow' = [status |-> "PENDING", attempts |-> 0]
        /\ resent = 0 /\ \A r \in Retrier : DlqAt(r, "idle")
        /\ UNCHANGED <<retriers, resent, deadTopic>>
    BY <1>1 DEF dlqCreateRow, DlqInv, DlqCounts
  <2>2. Sending' = {}
    BY <2>1 DEF Sending, DlqAt
  <2>3. Cardinality(Sending') = 0
    BY <2>2, FS_EmptySet
  <2>4. /\ dlqRow'.status = "PENDING" /\ dlqRow'.attempts = 0
        /\ dlqRow' # DlqNoRow /\ dlqRow' \in DeadRow
    BY <2>1 DEF DlqNoRow, DeadRow
  <2>5. DlqSeen'
    BY <2>1, <2>4 DEF DlqSeen, DlqInv, DlqAt, Retry
  <2>6. DlqCounts'
    BY <2>1, <2>3, <2>4 DEF DlqCounts
  <2>. QED  BY <2>1, <2>4, <2>5, <2>6 DEF DlqInv, GivenUpIsExhausted
<1>2. CASE sendToDLQ
  <2>1. dlqRow # DlqNoRow /\ deadTopic' = TRUE /\ UNCHANGED <<dlqRow, retriers, resent>>
    BY <1>2 DEF sendToDLQ
  <2>2. Sending' = Sending
    BY <2>1 DEF Sending, DlqAt
  <2>. QED  BY <2>1, <2>2 DEF DlqInv, DlqCounts, DlqSeen, GivenUpIsExhausted, DlqAt
<1>3. CASE purgeOldEvents
  <2>1. dlqRow' = DlqNoRow /\ deadTopic' = TRUE /\ UNCHANGED <<retriers, resent>>
    BY <1>3 DEF purgeOldEvents
  <2>2. dlqRow' \in DeadRow /\ dlqRow'.status # "PERMANENTLY_FAILED"
    BY <2>1 DEF DlqNoRow, DeadRow
  <2>. QED  BY <2>1, <2>2 DEF DlqInv, DlqCounts, DlqSeen, GivenUpIsExhausted, DlqAt
<1>. QED  BY <1>1, <1>2, <1>3

LEMMA DlqAlways ==
    ASSUME IsFiniteSet(Retrier), dlqMaxRetries \in Nat
    PROVE  DlqSpec => []DlqInv
<1>1. DlqInit => DlqInv
  <2>. SUFFICES ASSUME DlqInit  PROVE DlqInv
    OBVIOUS
  <2>1. /\ DlqNoRow \in DeadRow /\ DlqNoRow.status = "NONE" /\ Idle \in Retry
        /\ Idle.pc = "idle" /\ Idle.seen = 0
    BY DEF DlqNoRow, DeadRow, Idle, Retry
  <2>2. /\ dlqRow = DlqNoRow /\ resent = 0 /\ deadTopic = FALSE
        /\ retriers = [r \in Retrier |-> Idle]
    BY DEF DlqInit
  <2>. QED  BY <2>1, <2>2 DEF DlqInv, DlqAt, DlqCounts, DlqSeen, GivenUpIsExhausted
<1>2. DlqInv /\ [DlqNext]_dlqVars => DlqInv'
  <2>. SUFFICES ASSUME DlqInv, [DlqNext]_dlqVars  PROVE DlqInv'
    OBVIOUS
  <2>1. ASSUME NEW r \in Retrier,
               \/ retryEvent(r) \/ markRetrying(r) \/ dlqSend(r) \/ markReprocessed(r)
               \/ recordFailure(r) \/ dlqCrash(r)
        PROVE  DlqInv'
    BY <2>1, RetryStep, CountAttempt, DlqSendStep, OutcomeStep
  <2>2. CASE UNCHANGED dlqVars
    BY <2>2 DEF dlqVars, DlqInv, DlqCounts, DlqSeen, GivenUpIsExhausted, Sending, DlqAt
  <2>. QED  BY <2>1, <2>2, DeadRowStep DEF DlqNext
<1>. QED  BY <1>1, <1>2, PTL DEF DlqSpec

\* retryEvent() counts every send before it makes it: as long as the row is there, neither
\* callers that retry the event at a time nor processes that end make a send that it misses.
THEOREM SendsWereCounted ==
    ASSUME IsFiniteSet(Retrier), dlqMaxRetries \in Nat
    PROVE  DlqSpec => []SendsAreCounted
<1>1. DlqInv => SendsAreCounted
  <2>. SUFFICES ASSUME DlqInv, dlqRow # DlqNoRow  PROVE resent <= dlqRow.attempts
    BY DEF SendsAreCounted
  <2>1. Cardinality(Sending) \in Nat
    BY FS_Subset, FS_CardinalityType DEF Sending
  <2>2. /\ resent \in Nat /\ dlqRow.attempts \in Nat
        /\ resent + Cardinality(Sending) <= dlqRow.attempts
    BY DEF DlqInv, DlqCounts, DeadRow
  <2>. QED  BY <2>1, <2>2
<1>. QED  BY <1>1, DlqAlways, PTL

\* recordFailure() goes by the attempts a caller read before it sent, and others may have
\* counted since; still no event is given up before its attempts reach the limit.
THEOREM GivenUpWasRetried ==
    ASSUME IsFiniteSet(Retrier), dlqMaxRetries \in Nat
    PROVE  DlqSpec => []GivenUpIsExhausted
<1>1. DlqInv => GivenUpIsExhausted
  BY DEF DlqInv
<1>. QED  BY <1>1, DlqAlways, PTL

-----------------------------------------------------------------------------
\* Types

\* One member more or less.
LEMMA OneMoves ==
    ASSUME NEW S, IsFiniteSet(S), NEW T, NEW r, T \subseteq S \cup {r}
    PROVE  /\ IsFiniteSet(T) /\ Cardinality(S) \in Nat /\ Cardinality(T) \in Nat
           /\ Cardinality(T) <= Cardinality(S) + 1
           /\ r \in S \/ r \notin T => Cardinality(T) <= Cardinality(S)
           /\ r \in S /\ r \notin T => Cardinality(T) <= Cardinality(S) - 1
<1>1. /\ IsFiniteSet(S \cup {r}) /\ Cardinality(S) \in Nat
      /\ Cardinality(S \cup {r}) = IF r \in S THEN Cardinality(S) ELSE Cardinality(S) + 1
  BY FS_AddElement, FS_CardinalityType
<1>2. /\ IsFiniteSet(T) /\ Cardinality(T) \in Nat
      /\ Cardinality(T) <= Cardinality(S \cup {r})
  BY <1>1, FS_Subset, FS_CardinalityType
<1>3. r \notin T => Cardinality(T) <= Cardinality(S)
  BY FS_Subset
<1>4. r \in S /\ r \notin T => Cardinality(T) <= Cardinality(S) - 1
  <2>. SUFFICES ASSUME r \in S, r \notin T  PROVE Cardinality(T) <= Cardinality(S) - 1
    OBVIOUS
  <2>1. IsFiniteSet(S \ {r}) /\ Cardinality(S \ {r}) = Cardinality(S) - 1
    BY FS_RemoveElement
  <2>2. T \subseteq S \ {r}
    OBVIOUS
  <2>. QED  BY <2>1, <2>2, FS_Subset
<1>. QED  BY <1>1, <1>2, <1>3, <1>4

\* The rows of the outbox, its pollers and the counts of its operators and mishaps.
LEMMA OutboxTyped ==
    ASSUME OutboxNumbers, MaxRetryFailed \in Nat, MaxMishaps \in Nat
    PROVE  OutboxSpec => []OutboxTypeOK
<1>. DEFINE Counts == retriesAsked \in 0..MaxRetryFailed /\ mishaps \in 0..MaxMishaps
<1>1. OutboxInit => Counts
  BY DEF OutboxInit
<1>2. Counts /\ [OutboxNext]_outboxVars => Counts'
  <2>. SUFFICES ASSUME Counts, [OutboxNext]_outboxVars  PROVE Counts'
    OBVIOUS
  <2>1. CASE OutboxMishap /\ UNCHANGED retriesAsked
    BY <2>1 DEF OutboxMishap
  <2>2. CASE UNCHANGED <<mishaps, retriesAsked>>
    BY <2>2
  <2>3. CASE retryFailed
    BY <2>3 DEF retryFailed
  <2>4. ASSUME NEW p \in Process, Poll(p) \/ outboxCrash(p)  PROVE Counts'
    BY <2>1, <2>2, <2>4 DEF Poll, outboxCrash, fetchPendingEvents, outboxMarkProcessing,
       outboxSend, markPublished, handlePublishError, OutboxWrite
  <2>5. ASSUME NEW e \in Event, storeEvent(e) \/ calculateBackoff(e)  PROVE Counts'
    BY <2>2, <2>5 DEF storeEvent, calculateBackoff
  <2>6. CASE UNCHANGED outboxVars
    BY <2>2, <2>6 DEF outboxVars
  <2>. QED  BY <2>3, <2>4, <2>5, <2>6 DEF OutboxNext
<1>3. OutboxInv /\ Counts => OutboxTypeOK
  BY DEF OutboxInv, OutboxTypeOK, Poller
<1>. HIDE DEF Counts
<1>. QED  BY <1>1, <1>2, <1>3, OutboxAlways, PTL DEF OutboxSpec

\* The message in hand, the offsets, and the counts of transactions and mishaps.
LEMMA EosTyped ==
    ASSUME MaxMishaps \in Nat
    PROVE  EosSpec => []EosTypeOK
<1>. DEFINE Counts == eosMishaps \in 0..MaxMishaps
<1>1. EosInit => Counts
  BY DEF EosInit
<1>2. Counts /\ [EosNext]_eosVars => Counts'
  <2>. SUFFICES ASSUME Counts, [EosNext]_eosVars  PROVE Counts'
    OBVIOUS
  <2>1. CASE EosMishap
    BY <2>1 DEF EosMishap
  <2>2. CASE UNCHANGED eosMishaps
    BY <2>2
  <2>. QED  BY <2>1, <2>2 DEF EosNext, eosVars, deliver, processExactlyOnce, getOffset, findOffset,
       transaction, storeOffset, cacheOffset, eosCrash, cacheExpires, cleanupOldOffsets
<1>3. EosInv /\ Counts => EosTypeOK
  <2>. SUFFICES ASSUME EosInv, Counts  PROVE EosTypeOK
    OBVIOUS
  <2>1. ASSUME NEW m \in Message  PROVE committed[m] \in 0..(MaxMishaps + 1)
    BY DEF EosInv, EosCounts
  <2>2. committed \in [Message -> 0..(MaxMishaps + 1)]
    BY <2>1 DEF EosInv
  <2>. QED  BY <2>2 DEF EosInv, EosTypeOK, InHand
<1>. HIDE DEF Counts
<1>. QED  BY <1>1, <1>2, <1>3, EosAlways, PTL DEF EosSpec

\* The replays that have begun and may still send.
Replaying == {w \in Worker : UnifiedAt(w, "send")}

\* A send is made by a replay that began, and only replays hold a count.
UnifiedCounts ==
    /\ inTopic \in BOOLEAN /\ scheduled \in BOOLEAN
    /\ replaysBegun \in 0..MaxReplays
    /\ \A w \in Worker : workers[w].pc \in {"send", "count"} \/ workers[w].found = 0
    /\ replays + Cardinality(Replaying) <= replaysBegun

\* The call of one worker moves on: it begins a replay, sends, or does neither.
LEMMA WorkerCounts ==
    ASSUME IsFiniteSet(Worker), MaxReplays \in Nat, UnifiedInv, UnifiedCounts, NEW w \in Worker, NEW pc, NEW found,
           UnifiedGoto(w, pc, found), pc \in {"send", "count"} \/ found = 0,
           inTopic' \in BOOLEAN, scheduled' \in BOOLEAN,
           \/ UNCHANGED <<replays, replaysBegun>> /\ pc # "send"
           \/ UNCHANGED replays /\ replaysBegun < MaxReplays /\ replaysBegun' = replaysBegun + 1
           \/ /\ replays' = replays + 1 /\ UNCHANGED replaysBegun
              /\ UnifiedAt(w, "send") /\ pc # "send"
    PROVE  UnifiedCounts'
<1>1. /\ workers'[w] = [pc |-> pc, found |-> found]
      /\ \A v \in Worker : v # w => workers'[v] = workers[v]
  BY DEF UnifiedInv, UnifiedGoto
<1>2. /\ Replaying' \subseteq Replaying \cup {w}
      /\ w \in Replaying <=> UnifiedAt(w, "send")
      /\ w \in Replaying' <=> pc = "send"
  BY <1>1 DEF Replaying, UnifiedAt
<1>3. /\ IsFiniteSet(Replaying)
      /\ Cardinality(Replaying) \in Nat /\ Cardinality(Replaying') \in Nat
      /\ Cardinality(Replaying') <= Cardinality(Replaying) + 1
      /\ pc # "send" => Cardinality(Replaying') <= Cardinality(Replaying)
      /\ UnifiedAt(w, "send") /\ pc # "send"
            => Cardinality(Replaying') <= Cardinality(Replaying) - 1
  <2>1. IsFiniteSet(Replaying)
    BY FS_Subset DEF Replaying
  <2>. QED  BY <1>2, <2>1, OneMoves
<1>4. \A v \in Worker : workers'[v].pc \in {"send", "count"} \/ workers'[v].found = 0
  BY <1>1 DEF UnifiedCounts
<1>5. replays \in Nat /\ replaysBegun \in 0..MaxReplays
      /\ replays + Cardinality(Replaying) <= replaysBegun
  BY DEF UnifiedInv, UnifiedCounts
<1>6. replaysBegun' \in 0..MaxReplays /\ replays' + Cardinality(Replaying') <= replaysBegun'
  <2>1. CASE UNCHANGED <<replays, replaysBegun>> /\ pc # "send"
    BY <1>3, <1>5, <2>1
  <2>2. CASE UNCHANGED replays /\ replaysBegun < MaxReplays /\ replaysBegun' = replaysBegun + 1
    BY <1>3, <1>5, <2>2
  <2>3. CASE /\ replays' = replays + 1 /\ UNCHANGED replaysBegun
             /\ UnifiedAt(w, "send") /\ pc # "send"
    BY <1>3, <1>5, <2>3
  <2>. QED  BY <2>1, <2>2, <2>3
<1>. QED  BY <1>4, <1>6 DEF UnifiedCounts

\* The row of the unified queue, its schedule, the calls of the workers, and the replays,
\* which are no more than were begun.
LEMMA UnifiedTyped ==
    ASSUME maxRetries \in Nat, MaxReplays \in Nat, IsFiniteSet(Worker)
    PROVE  UnifiedSpec => []UnifiedTypeOK
<1>1. UnifiedInit => UnifiedCounts
  <2>. SUFFICES ASSUME UnifiedInit  PROVE UnifiedCounts
    OBVIOUS
  <2>1. \A w \in Worker : workers[w].pc = "free" /\ workers[w].found = 0
    BY DEF UnifiedInit, Free
  <2>2. Cardinality(Replaying) = 0
    <3>1. Replaying = {}
      BY <2>1 DEF Replaying, UnifiedAt
    <3>. QED  BY <3>1, FS_EmptySet
  <2>3. replays + Cardinality(Replaying) <= replaysBegun
    BY <2>2 DEF UnifiedInit
  <2>4. inTopic \in BOOLEAN /\ scheduled \in BOOLEAN
    BY DEF UnifiedInit
  <2>5. replaysBegun \in 0..MaxReplays
    BY DEF UnifiedInit
  <2>. QED  BY <2>1, <2>3, <2>4, <2>5 DEF UnifiedCounts
<1>2. UnifiedInv /\ UnifiedCounts /\ [UnifiedNext]_unifiedVars => UnifiedCounts'
  <2>. SUFFICES ASSUME UnifiedInv, UnifiedCounts, [UnifiedNext]_unifiedVars  PROVE UnifiedCounts'
    OBVIOUS
  <2>1. CASE UNCHANGED <<workers, replays, replaysBegun, scheduled>> /\ inTopic' \in BOOLEAN
    <3>1. Replaying' = Replaying
      BY <2>1 DEF Replaying, UnifiedAt
    <3>. QED  BY <2>1, <3>1 DEF UnifiedCounts
  <2>2. CASE sendToTopic \/ unifiedCreateRow \/ unifiedMarkProcessing \/ UNCHANGED unifiedVars
    BY <2>1, <2>2 DEF sendToTopic, unifiedCreateRow, unifiedMarkProcessing, unifiedVars,
       UnifiedCounts
  <2>3. ASSUME NEW w \in Worker,
               \/ scheduleRetry(w) \/ zadd(w) \/ getRetryCandidates(w) \/ zrem(w)
               \/ markResolved(w) \/ markExhausted(w) \/ exhaust(w) \/ countReplay(w)
        PROVE  UnifiedCounts'
    <3>1. /\ UNCHANGED <<replays, replaysBegun, inTopic>> /\ scheduled' \in BOOLEAN
          /\ inTopic \in BOOLEAN
      BY <2>3 DEF scheduleRetry, zadd, getRetryCandidates, zrem, markResolved, markExhausted,
         settle, exhaust, countReplay, UnifiedCounts
    <3>2. \E pc \in {"free", "zadd", "zrem"} : UnifiedGoto(w, pc, 0)
      BY <2>3 DEF scheduleRetry, zadd, getRetryCandidates, zrem, markResolved, markExhausted,
         settle, exhaust, countReplay, UnifiedFinish, UnifiedGoto, Free
    <3>. QED  BY <3>1, <3>2, WorkerCounts
  <2>4. ASSUME NEW w \in Worker, replayMessage(w)  PROVE UnifiedCounts'
    <3>1. /\ UNCHANGED <<replays, inTopic, scheduled>> /\ replaysBegun < MaxReplays
          /\ replaysBegun' = replaysBegun + 1
          /\ \/ UnifiedGoto(w, "exhaust", 0)
             \/ UnifiedGoto(w, "send", letter.retryCount)
      BY <2>4 DEF replayMessage
    <3>2. inTopic' \in BOOLEAN /\ scheduled' \in BOOLEAN
      BY <3>1 DEF UnifiedCounts
    <3>. QED  BY <3>1, <3>2, WorkerCounts
  <2>5. ASSUME NEW w \in Worker, unifiedSend(w)  PROVE UnifiedCounts'
    <3>1. /\ UNCHANGED <<replaysBegun, inTopic, scheduled>> /\ UnifiedAt(w, "send")
          /\ \/ replays' = replays + 1 /\ UnifiedGoto(w, "count", workers[w].found)
             \/ UnifiedGoto(w, "free", 0) /\ UNCHANGED replays
      BY <2>5 DEF unifiedSend, UnifiedFinish, UnifiedGoto, Free
    <3>2. inTopic' \in BOOLEAN /\ scheduled' \in BOOLEAN
      BY <3>1 DEF UnifiedCounts
    <3>. QED  BY <3>1, <3>2, WorkerCounts
  <2>. QED  BY <2>2, <2>3, <2>4, <2>5 DEF UnifiedNext
<1>3. UnifiedInv /\ UnifiedCounts => UnifiedTypeOK
  <2>. SUFFICES ASSUME UnifiedInv, UnifiedCounts  PROVE UnifiedTypeOK
    OBVIOUS
  <2>1. /\ letter \in Letter /\ letter.retryCount <= maxRetries /\ replays \in Nat
        /\ workers \in [Worker -> Call]
    BY DEF UnifiedInv, CountedReplaysWereSent
  <2>2. letter \in [status : {"none", "pending", "processing", "resolved", "exhausted"},
                    retryCount : 0..maxRetries]
    BY <2>1 DEF Letter
  <2>3. ASSUME NEW w \in Worker
        PROVE  workers[w] \in [pc : {"free", "zadd", "zrem", "exhaust", "send", "count"},
                               found : 0..maxRetries]
    <3>1. workers[w] \in Call /\ workers[w].found <= maxRetries
      BY <2>1 DEF UnifiedInv, UnifiedCounts, FoundOK, UnifiedAt, Call
    <3>. QED  BY <3>1 DEF Call
  <2>4. replays \in 0..MaxReplays
    <3>1. Cardinality(Replaying) \in Nat
      BY FS_Subset, FS_CardinalityType DEF Replaying
    <3>. QED  BY <2>1, <3>1 DEF UnifiedCounts
  <2>5. workers \in [Worker -> [pc : {"free", "zadd", "zrem", "exhaust", "send", "count"},
                                found : 0..maxRetries]]
    BY <2>1, <2>3
  <2>. QED  BY <2>2, <2>4, <2>5 DEF UnifiedCounts, UnifiedTypeOK
<1>. QED  BY <1>1, <1>2, <1>3, UnifiedAlways, PTL DEF UnifiedSpec

\* The retries that are not counted yet, and those that have not sent yet.
Marking == {r \in Retrier : DlqAt(r, "mark")}
Owing == {r \in Retrier : DlqAt(r, "mark") \/ DlqAt(r, "send")}

\* What is counted, and what is sent, was begun.
DlqBounds ==
    /\ begun \in 0..MaxSends
    /\ dlqRow.attempts + Cardinality(Marking) <= begun
    /\ resent + Cardinality(Owing) <= begun
    /\ \A r \in Retrier : retriers[r].seen <= begun

\* One retrier moves on: it begins, is counted, sends, or ends.
LEMMA RetrierCounts ==
    ASSUME IsFiniteSet(Retrier), MaxSends \in Nat, DlqInv, DlqInv', DlqBounds, NEW r \in Retrier,
           \A q \in Retrier : q # r => retriers'[q] = retriers[q],
           retriers'[r].seen <= begun',
           \/ /\ begun < MaxSends /\ begun' = begun + 1
              /\ dlqRow'.attempts <= dlqRow.attempts /\ UNCHANGED resent
           \/ /\ UNCHANGED begun /\ ~DlqAt(r, "mark")'
              /\ \/ dlqRow'.attempts <= dlqRow.attempts
                 \/ DlqAt(r, "mark") /\ dlqRow'.attempts <= dlqRow.attempts + 1
              /\ \/ UNCHANGED resent /\ (r \in Owing' => r \in Owing)
                 \/ resent' = resent + 1 /\ r \in Owing /\ r \notin Owing'
    PROVE  DlqBounds'
<1>1. /\ Marking' \subseteq Marking \cup {r} /\ Owing' \subseteq Owing \cup {r}
      /\ r \in Marking <=> DlqAt(r, "mark")
      /\ r \in Marking' <=> DlqAt(r, "mark")'
  BY DEF Marking, Owing, DlqAt
<1>2. IsFiniteSet(Marking) /\ IsFiniteSet(Owing)
  BY FS_Subset DEF Marking, Owing
<1>3. /\ Cardinality(Marking) \in Nat /\ Cardinality(Marking') \in Nat
      /\ Cardinality(Marking') <= Cardinality(Marking) + 1
      /\ ~DlqAt(r, "mark")' => Cardinality(Marking') <= Cardinality(Marking)
      /\ DlqAt(r, "mark") /\ ~DlqAt(r, "mark")'
            => Cardinality(Marking') <= Cardinality(Marking) - 1
  BY <1>1, <1>2, OneMoves
<1>4. /\ Cardinality(Owing) \in Nat /\ Cardinality(Owing') \in Nat
      /\ Cardinality(Owing') <= Cardinality(Owing) + 1
      /\ (r \in Owing' => r \in Owing) => Cardinality(Owing') <= Cardinality(Owing)
      /\ r \in Owing /\ r \notin Owing' => Cardinality(Owing') <= Cardinality(Owing) - 1
  BY <1>1, <1>2, OneMoves
<1>5. /\ dlqRow.attempts \in Nat /\ dlqRow'.attempts \in Nat /\ resent \in Nat
      /\ begun \in 0..MaxSends
      /\ dlqRow.attempts + Cardinality(Marking) <= begun
      /\ resent + Cardinality(Owing) <= begun
  BY DEF DlqInv, DeadRow, DlqBounds
<1>6. begun' \in 0..MaxSends /\ begun <= begun'
  BY <1>5
<1>7. dlqRow'.attempts + Cardinality(Marking') <= begun'
  BY <1>3, <1>5
<1>8. resent' + Cardinality(Owing') <= begun'
  BY <1>4, <1>5
<1>9. ASSUME NEW q \in Retrier  PROVE retriers'[q].seen <= begun'
  <2>1. CASE q = r
    BY <2>1
  <2>2. CASE q # r
    <3>1. retriers'[q] = retriers[q] /\ retriers[q].seen \in Nat /\ retriers[q].seen <= begun
      BY <2>2 DEF DlqInv, Retry, DlqBounds
    <3>. QED  BY <1>5, <1>6, <3>1
  <2>. QED  BY <2>1, <2>2
<1>. QED  BY <1>6, <1>7, <1>8, <1>9 DEF DlqBounds

\* The row of a dead event, its retriers, and the sends, which are no more than were begun.
LEMMA DlqTyped ==
    ASSUME IsFiniteSet(Retrier), dlqMaxRetries \in Nat, MaxSends \in Nat
    PROVE  DlqSpec => []DlqTypeOK
<1>1. DlqInit => DlqBounds
  <2>. SUFFICES ASSUME DlqInit  PROVE DlqBounds
    OBVIOUS
  <2>1. \A r \in Retrier : retriers[r].pc = "idle" /\ retriers[r].seen = 0
    BY DEF DlqInit, Idle
  <2>2. Cardinality(Marking) = 0 /\ Cardinality(Owing) = 0
    <3>1. Marking = {} /\ Owing = {}
      BY <2>1 DEF Marking, Owing, DlqAt
    <3>. QED  BY <3>1, FS_EmptySet
  <2>3. dlqRow.attempts = 0
    BY DEF DlqInit, DlqNoRow
  <2>. QED  BY <2>1, <2>2, <2>3 DEF DlqInit, DlqBounds
<1>2. DlqInv /\ DlqInv' /\ DlqBounds /\ [DlqNext]_dlqVars => DlqBounds'
  <2>. SUFFICES ASSUME DlqInv, DlqInv', DlqBounds, [DlqNext]_dlqVars  PROVE DlqBounds'
    OBVIOUS
  <2>1. /\ retriers \in [Retrier -> Retry] /\ dlqRow.attempts \in Nat /\ begun \in Nat
        /\ \A r \in Retrier : retriers[r].seen \in Nat
    BY DEF DlqInv, DeadRow, Retry, DlqBounds
  <2>2. CASE UNCHANGED <<retriers, resent, begun>> /\ dlqRow'.attempts <= dlqRow.attempts
    <3>1. Marking' = Marking /\ Owing' = Owing
      BY <2>2 DEF Marking, Owing, DlqAt
    <3>2. Cardinality(Marking) \in Nat /\ dlqRow'.attempts \in Nat
      BY FS_Subset, FS_CardinalityType DEF Marking, DlqInv, DeadRow
    <3>. QED  BY <2>1, <2>2, <3>1, <3>2 DEF DlqBounds
  <2>3. CASE dlqCreateRow \/ sendToDLQ \/ purgeOldEvents \/ UNCHANGED dlqVars
    BY <2>1, <2>2, <2>3 DEF dlqCreateRow, sendToDLQ, purgeOldEvents, dlqVars, DlqNoRow
  <2>4. ASSUME NEW r \in Retrier, retryEvent(r)  PROVE DlqBounds'
    <3>1. /\ retriers' = [retriers EXCEPT ![r] = [pc |-> "mark", seen |-> dlqRow.attempts]]
          /\ begun < MaxSends /\ begun' = begun + 1 /\ UNCHANGED <<dlqRow, resent>>
      BY <2>4 DEF retryEvent
    <3>2. dlqRow.attempts <= begun'
      <4>1. Cardinality(Marking) \in Nat
        BY FS_Subset, FS_CardinalityType DEF Marking
      <4>. QED  BY <2>1, <3>1, <4>1 DEF DlqBounds
    <3>. QED  BY <2>1, <3>1, <3>2, RetrierCounts
  <2>5. ASSUME NEW r \in Retrier, DlqFinish(r), ~DlqAt(r, "idle"), UNCHANGED <<resent, begun>>,
               dlqRow'.attempts = dlqRow.attempts
        PROVE  DlqBounds'
    <3>1. /\ \A q \in Retrier : q # r => retriers'[q] = retriers[q]
          /\ retriers'[r].pc = "idle" /\ retriers'[r].seen = 0
      BY <2>1, <2>5 DEF DlqFinish, Idle
    <3>2. ~DlqAt(r, "mark")' /\ r \notin Owing'
      BY <3>1 DEF DlqAt, Owing
    <3>. QED  BY <2>1, <2>5, <3>1, <3>2, RetrierCounts
  <2>6. ASSUME NEW r \in Retrier, NEW pc \in {"send", "sent", "failed"}, DlqGoto(r, pc),
               UNCHANGED begun,
               \/ dlqRow'.attempts = dlqRow.attempts
               \/ DlqAt(r, "mark") /\ dlqRow'.attempts = dlqRow.attempts + 1,
               \/ UNCHANGED resent /\ (pc = "send" => DlqAt(r, "mark"))
               \/ resent' = resent + 1 /\ DlqAt(r, "send") /\ pc # "send"
        PROVE  DlqBounds'
    <3>1. retriers' = [retriers EXCEPT ![r] = [pc |-> pc, seen |-> retriers[r].seen]]
      BY <2>6, GotoIs
    <3>2. /\ \A q \in Retrier : q # r => retriers'[q] = retriers[q]
          /\ retriers'[r].pc = pc /\ retriers'[r].seen = retriers[r].seen
      BY <2>1, <3>1
    <3>3. /\ ~DlqAt(r, "mark")'
          /\ r \in Owing <=> DlqAt(r, "mark") \/ DlqAt(r, "send")
          /\ r \in Owing' <=> pc = "send"
      BY <3>2 DEF DlqAt, Owing
    <3>4. retriers'[r].seen <= begun'
      BY <2>6, <3>2 DEF DlqBounds
    <3>5. \/ dlqRow'.attempts <= dlqRow.attempts
          \/ DlqAt(r, "mark") /\ dlqRow'.attempts <= dlqRow.attempts + 1
      BY <2>1, <2>6
    <3>. QED  BY <2>6, <3>2, <3>3, <3>4, <3>5, RetrierCounts
  <2>7. ASSUME NEW r \in Retrier, markRetrying(r)  PROVE DlqBounds'
    <3>1. CASE dlqRow = DlqNoRow
      BY <2>5, <2>7, <3>1 DEF markRetrying, DlqAt
    <3>2. CASE dlqRow # DlqNoRow
      <4>1. /\ DlqAt(r, "mark") /\ DlqGoto(r, "send") /\ UNCHANGED <<resent, begun>>
            /\ dlqRow'.attempts = dlqRow.attempts + 1
        BY <2>7, <3>2 DEF markRetrying
      <4>. QED  BY <2>6, <4>1
    <3>. QED  BY <3>1, <3>2
  <2>8. ASSUME NEW r \in Retrier, dlqSend(r)  PROVE DlqBounds'
    BY <2>6, <2>8 DEF dlqSend
  <2>9. ASSUME NEW r \in Retrier, markReprocessed(r) \/ recordFailure(r) \/ dlqCrash(r)
        PROVE  DlqBounds'
    <3>1. dlqRow'.attempts = dlqRow.attempts /\ UNCHANGED <<resent, begun>>
      BY <2>9 DEF markReprocessed, recordFailure, dlqCrash, DlqWrite, DlqInv, DeadRow
    <3>2. /\ ~DlqAt(r, "idle")
          /\ DlqFinish(r) \/ DlqGoto(r, "failed")
      BY <2>9 DEF markReprocessed, recordFailure, dlqCrash, DlqAt
    <3>. QED  BY <2>5, <2>6, <3>1, <3>2
  <2>. QED  BY <2>3, <2>4, <2>7, <2>8, <2>9 DEF DlqNext
<1>3. DlqInv /\ DlqBounds => DlqTypeOK
  <2>. SUFFICES ASSUME DlqInv, DlqBounds  PROVE DlqTypeOK
    OBVIOUS
  <2>1. /\ Cardinality(Marking) \in Nat /\ Cardinality(Owing) \in Nat
        /\ dlqRow \in DeadRow /\ dlqRow.attempts \in Nat /\ resent \in Nat
        /\ retriers \in [Retrier -> Retry]
    BY FS_Subset, FS_CardinalityType DEF Marking, Owing, DlqInv, DeadRow
  <2>2. dlqRow.attempts \in 0..MaxSends /\ resent \in 0..MaxSends
    BY <2>1 DEF DlqBounds
  <2>3. dlqRow \in [status : {"NONE", "PENDING", "RETRYING", "REPROCESSED", "PERMANENTLY_FAILED"},
                    attempts : 0..MaxSends]
    BY <2>1, <2>2 DEF DeadRow
  <2>4. \A r \in Retrier : retriers[r] \in [pc : {"idle", "mark", "send", "sent", "failed"},
                                            seen : 0..MaxSends]
    <3>1. ASSUME NEW r \in Retrier  PROVE retriers[r] \in Retry /\ retriers[r].seen \in 0..MaxSends
      BY <2>1 DEF DlqBounds, Retry
    <3>. QED  BY <3>1 DEF Retry
  <2>5. retriers \in [Retrier -> [pc : {"idle", "mark", "send", "sent", "failed"},
                                  seen : 0..MaxSends]]
    BY <2>1, <2>4
  <2>. QED  BY <2>2, <2>3, <2>5 DEF DlqInv, DlqBounds, DlqTypeOK
<1>. QED  BY <1>1, <1>2, <1>3, DlqAlways, PTL DEF DlqSpec

=============================================================================
