------------------------- MODULE IdempotencyService -------------------------
(***************************************************************************)
(* backend/src/services/idempotency-service.ts: callers that use one       *)
(* idempotency key, its record in the database, and its lock and its       *)
(* cached result in Redis.                                                 *)
(*                                                                         *)
(* The lock bears no name, runs out after 5 s, and a caller that waited    *)
(* for it goes on without it and deletes it all the same: the key of the   *)
(* table is what decides.                                                  *)
(***************************************************************************)
EXTENDS Naturals, TLAPS

CONSTANT Caller

VARIABLES
    record,   \* row of the key; result: it holds one
    lock,     \* the lock's key exists
    cached,   \* the cache holds a result
    callers,  \* callers[c]: where checkAndRecord() is, "work" once c may go ahead
    told      \* told[c]: what checkAndRecord() answers

vars == <<record, lock, cached, callers, told>>

NoRecord == [status |-> "NONE", result |-> FALSE]
Exists == record.status # "NONE"

Init ==
    /\ record = NoRecord /\ lock = FALSE /\ cached = FALSE
    /\ callers = [c \in Caller |-> "start"]
    /\ told = [c \in Caller |-> "none"]

Step(c, from, to) == callers[c] = from /\ callers' = [callers EXCEPT ![c] = to]
Tell(c, what) == told' = [told EXCEPT ![c] = what]

getCached(c) ==
    /\ \/ cached /\ Step(c, "start", "over") /\ Tell(c, "duplicate")
       \/ ~cached /\ Step(c, "start", "lock") /\ UNCHANGED told
    /\ UNCHANGED <<record, lock, cached>>

\* Mutant: who does not get the lock is told that the request is a duplicate.
macquireLock(c) ==
    /\ \/ ~lock /\ Step(c, "lock", "find") /\ UNCHANGED told
       \/ lock /\ Step(c, "lock", "over") /\ Tell(c, "duplicate")
    /\ lock' = TRUE
    /\ UNCHANGED <<record, cached>>

acquireLock(c) ==
    /\ Step(c, "lock", IF lock THEN "wait" ELSE "find")
    /\ lock' = TRUE
    /\ UNCHANGED <<record, cached, told>>

\* The lock is gone, or maxWaitMs have passed.
waitForLockRelease(c) ==
    /\ Step(c, "wait", "look")
    /\ UNCHANGED <<record, lock, cached, told>>

\* A record without a result counts as none.
findExisting(c) ==
    /\ \/ record.result /\ Step(c, "look", "over") /\ Tell(c, "duplicate")
       \/ ~record.result /\ Step(c, "look", "find") /\ UNCHANGED told
    /\ UNCHANGED <<record, lock, cached>>

findUnique(c) ==
    /\ \/ ~Exists /\ Step(c, "find", "create") /\ UNCHANGED told
       \/ Exists /\ Step(c, "find", IF record.result THEN "cache" ELSE "release")
                 /\ Tell(c, "duplicate")
    /\ UNCHANGED <<record, lock, cached>>

cacheExisting(c) ==
    /\ Step(c, "cache", "release")
    /\ cached' = TRUE
    /\ UNCHANGED <<record, lock, told>>

\* idempotencyKey is unique: the second create() throws.
create(c) ==
    /\ Step(c, "create", "release")
    /\ \/ ~Exists /\ record' = [status |-> "PROCESSING", result |-> FALSE] /\ Tell(c, "first")
       \/ Exists /\ UNCHANGED <<record, told>>
    /\ UNCHANGED <<lock, cached>>

\* finally: whoever holds the lock.
releaseLock(c) ==
    /\ Step(c, "release", IF told[c] = "first" THEN "work" ELSE "over")
    /\ lock' = FALSE
    /\ UNCHANGED <<record, cached, told>>

\* update() throws if the record has expired.
complete(c) ==
    /\ Step(c, "work", IF Exists THEN "store" ELSE "over")
    /\ record' = IF Exists THEN [status |-> "COMPLETED", result |-> TRUE] ELSE record
    /\ UNCHANGED <<lock, cached, told>>

cacheResult(c) ==
    /\ Step(c, "store", "over")
    /\ cached' = TRUE
    /\ UNCHANGED <<record, lock, told>>

fail(c) ==
    /\ Step(c, "work", "over")
    /\ \E error \in BOOLEAN :
          record' = IF Exists THEN [status |-> "FAILED", result |-> error] ELSE record
    /\ UNCHANGED <<lock, cached, told>>

crash(c) ==
    /\ callers[c] \notin {"start", "over"}
    /\ callers' = [callers EXCEPT ![c] = "over"]
    /\ UNCHANGED <<record, lock, cached, told>>

\* The keys of Redis run out, and cleanupExpired() deletes a record 24 hours after its
\* creation, whatever its status.
lockExpires == lock /\ lock' = FALSE /\ UNCHANGED <<record, cached, callers, told>>
cacheExpires == cached /\ cached' = FALSE /\ UNCHANGED <<record, lock, callers, told>>
cleanupExpired == Exists /\ record' = NoRecord /\ UNCHANGED <<lock, cached, callers, told>>

checkAndRecord(c) ==
    \/ getCached(c) \/ acquireLock(c) \/ waitForLockRelease(c) \/ findExisting(c)
    \/ findUnique(c) \/ cacheExisting(c) \/ create(c) \/ releaseLock(c)

Next ==
    \/ \E c \in Caller : checkAndRecord(c) \/ complete(c) \/ cacheResult(c) \/ fail(c) \/ crash(c)
    \/ lockExpires \/ cacheExpires \/ cleanupExpired

Spec == Init /\ [][Next]_vars

-----------------------------------------------------------------------------

\* The state has its type, and a record without a status has no result.
TypeOK ==
    /\ record \in [status : {"NONE", "PROCESSING", "COMPLETED", "FAILED"}, result : BOOLEAN]
    /\ record.result => Exists
    /\ lock \in BOOLEAN /\ cached \in BOOLEAN
    /\ callers \in [Caller -> {"start", "lock", "wait", "look", "find", "cache", "create",
                               "release", "work", "store", "over"}]
    /\ told \in [Caller -> {"none", "first", "duplicate"}]

Contract == INSTANCE Claim WITH claimed <- Exists, answer <- told

\* Whatever locks and caches expire or are deleted by others, checkAndRecord() keeps what
\* Claim promises: one caller goes ahead as long as its record exists, and nobody is told
\* of a duplicate of a request that nobody was ever told to serve.
KeepsClaim == Contract!Spec

-----------------------------------------------------------------------------
\* Proof that the service keeps the contract, for any number of callers.  It rests on who
\* may have been told what: nothing that shows a request as known (a record, a result in the
\* cache, a caller that is about to store one) exists unless some caller went ahead, and a
\* caller that has not decided yet was told nothing.

Served == \E d \in Caller : told[d] = "first"
Undecided == {"start", "lock", "wait", "look", "find", "create"}

IInv ==
    /\ TypeOK
    /\ Exists \/ cached \/ (\E c \in Caller : callers[c] \in {"cache", "store"}) => Served
    /\ \A c \in Caller : callers[c] \in Undecided => told[c] = "none"

\* The callers move, and the lock comes and goes; what they were told stays, and nothing that
\* shows a request as known appears unless one is.
LEMMA QuietStep ==
    ASSUME IInv, TypeOK', UNCHANGED told,
           Exists' \/ cached' \/ (\E c \in Caller : callers'[c] \in {"cache", "store"}) => Served,
           \A c \in Caller : callers'[c] \in Undecided => callers[c] \in Undecided
    PROVE  IInv'
  BY DEF IInv, Served

\* A caller that had not decided is told something and has decided.
LEMMA TellStep ==
    ASSUME IInv, TypeOK', NEW c \in Caller, callers[c] \in Undecided,
           NEW what \in {"first", "duplicate"}, Tell(c, what),
           NEW to, to \notin Undecided, callers' = [callers EXCEPT ![c] = to],
           what = "first" \/ Served
    PROVE  IInv'
<1>1. told \in [Caller -> {"none", "first", "duplicate"}] /\ told[c] = "none"
  BY DEF IInv, TypeOK
<1>2. Served'
  BY <1>1 DEF Tell, Served
<1>3. \A d \in Caller : callers'[d] \in Undecided => told'[d] = "none"
  BY <1>1 DEF IInv, TypeOK, Tell
<1>. QED  BY <1>2, <1>3 DEF IInv

Row == [status : {"NONE", "PROCESSING", "COMPLETED", "FAILED"}, result : BOOLEAN]

LEMMA Typing ==
    ASSUME TypeOK, [Next]_vars
    PROVE  TypeOK'
<1>1. record' \in Row /\ (record'.result => record'.status # "NONE")
  <2>1. record \in Row /\ (record.result => record.status # "NONE")
    BY DEF TypeOK, Row, Exists
  <2>2. CASE UNCHANGED record
    BY <2>1, <2>2
  <2>3. ASSUME NEW c \in Caller, create(c) \/ complete(c) \/ fail(c)
        PROVE  record' \in Row /\ (record'.result => record'.status # "NONE")
    <3>1. ASSUME NEW st \in {"PROCESSING", "COMPLETED", "FAILED"}, NEW res \in BOOLEAN,
                 record' = [status |-> st, result |-> res]
          PROVE  record' \in Row /\ (record'.result => record'.status # "NONE")
      BY <3>1 DEF Row
    <3>. QED  BY <2>1, <2>3, <3>1 DEF create, complete, fail
  <2>4. CASE cleanupExpired
    BY <2>4 DEF cleanupExpired, NoRecord, Row
  <2>. QED
    BY <2>2, <2>3, <2>4 DEF Next, checkAndRecord, vars, getCached, acquireLock, waitForLockRelease,
       findExisting, findUnique, cacheExisting, releaseLock, cacheResult, crash, lockExpires,
       cacheExpires
<1>2. lock' \in BOOLEAN /\ cached' \in BOOLEAN
  BY DEF TypeOK, Next, checkAndRecord, vars, getCached, acquireLock, waitForLockRelease,
     findExisting, findUnique, cacheExisting, create, releaseLock, complete, cacheResult, fail,
     crash, lockExpires, cacheExpires, cleanupExpired
<1>3. callers' \in [Caller -> {"start", "lock", "wait", "look", "find", "cache", "create",
                               "release", "work", "store", "over"}]
  BY DEF TypeOK, Next, checkAndRecord, vars, getCached, acquireLock, waitForLockRelease,
     findExisting, findUnique, cacheExisting, create, releaseLock, complete, cacheResult, fail,
     crash, lockExpires, cacheExpires, cleanupExpired, Step
<1>4. told' \in [Caller -> {"none", "first", "duplicate"}]
  BY DEF TypeOK, Next, checkAndRecord, vars, getCached, acquireLock, waitForLockRelease,
     findExisting, findUnique, cacheExisting, create, releaseLock, complete, cacheResult, fail,
     crash, lockExpires, cacheExpires, cleanupExpired, Tell
<1>. QED  BY <1>1, <1>2, <1>3, <1>4 DEF TypeOK, Row, Exists

\* One case for each action that changes what IInv speaks of.
LEMMA NextStep ==
    ASSUME IInv, [Next]_vars
    PROVE  IInv'
<1>1. TypeOK /\ TypeOK'
  BY Typing DEF IInv
<1>2. CASE UNCHANGED vars
  BY <1>1, <1>2 DEF IInv, vars, Exists, Served
<1>3. ASSUME NEW c \in Caller, getCached(c)
      PROVE  IInv'
  <2>1. CASE cached /\ Step(c, "start", "over") /\ Tell(c, "duplicate")
    BY <1>1, <1>3, <2>1, TellStep DEF IInv, Step, Undecided
  <2>2. CASE ~cached /\ Step(c, "start", "lock") /\ UNCHANGED told
    BY <1>1, <1>3, <2>2, QuietStep DEF getCached, IInv, TypeOK, Step, Undecided, Exists
  <2>. QED  BY <1>3, <2>1, <2>2 DEF getCached
<1>4. ASSUME NEW c \in Caller, acquireLock(c) \/ waitForLockRelease(c)
      PROVE  IInv'
  BY <1>1, <1>4, QuietStep
     DEF acquireLock, waitForLockRelease, IInv, TypeOK, Step, Undecided, Exists
<1>5. ASSUME NEW c \in Caller, findExisting(c)
      PROVE  IInv'
  <2>1. CASE record.result /\ Step(c, "look", "over") /\ Tell(c, "duplicate")
    BY <1>1, <1>5, <2>1, TellStep DEF IInv, TypeOK, Step, Undecided
  <2>2. CASE Step(c, "look", "find") /\ UNCHANGED told
    BY <1>1, <1>5, <2>2, QuietStep DEF findExisting, IInv, TypeOK, Step, Undecided, Exists
  <2>. QED  BY <1>5, <2>1, <2>2 DEF findExisting
<1>6. ASSUME NEW c \in Caller, findUnique(c)
      PROVE  IInv'
  <2>1. CASE Step(c, "find", "create") /\ UNCHANGED told
    BY <1>1, <1>6, <2>1, QuietStep DEF findUnique, IInv, TypeOK, Step, Undecided, Exists
  <2>2. CASE /\ Exists /\ Step(c, "find", IF record.result THEN "cache" ELSE "release")
             /\ Tell(c, "duplicate")
    BY <1>1, <1>6, <2>2, TellStep DEF IInv, TypeOK, Step, Undecided
  <2>. QED  BY <1>6, <2>1, <2>2 DEF findUnique
<1>7. ASSUME NEW c \in Caller, create(c)
      PROVE  IInv'
  <2>1. CASE Tell(c, "first")
    BY <1>1, <1>7, <2>1, TellStep DEF create, Step, Undecided
  <2>2. CASE Exists /\ UNCHANGED <<record, told>>
    BY <1>1, <1>7, <2>2, QuietStep DEF create, IInv, TypeOK, Step, Undecided, Exists
  <2>. QED  BY <1>7, <2>1, <2>2 DEF create
<1>8. ASSUME NEW c \in Caller, cacheExisting(c) \/ releaseLock(c) \/ cacheResult(c) \/ crash(c)
      PROVE  IInv'
  BY <1>1, <1>8, QuietStep
     DEF cacheExisting, releaseLock, cacheResult, crash, IInv, TypeOK, Step, Undecided, Exists
<1>9. ASSUME NEW c \in Caller, complete(c) \/ fail(c)
      PROVE  IInv'
  BY <1>1, <1>9, QuietStep DEF complete, fail, IInv, TypeOK, Step, Undecided, Exists
<1>10. CASE lockExpires \/ cacheExpires \/ cleanupExpired
  BY <1>1, <1>10, QuietStep
     DEF lockExpires, cacheExpires, cleanupExpired, NoRecord, IInv, Exists, Undecided
<1>. QED  BY <1>2, <1>3, <1>4, <1>5, <1>6, <1>7, <1>8, <1>9, <1>10 DEF Next, checkAndRecord

LEMMA InitHolds == Init => IInv
<1>. SUFFICES ASSUME Init  PROVE IInv
  OBVIOUS
<1>1. NoRecord \in Row /\ ~NoRecord.result /\ NoRecord.status = "NONE"
  BY DEF NoRecord, Row
<1>2. TypeOK
  BY <1>1 DEF Init, TypeOK, Row
<1>3. ~Exists /\ ~cached /\ \A c \in Caller : callers[c] = "start" /\ told[c] = "none"
  BY <1>1 DEF Init, Exists
<1>. QED  BY <1>2, <1>3 DEF IInv

\* A step of the service is a step of the contract or leaves it alone.
LEMMA StepRefines ==
    ASSUME IInv, [Next]_vars
    PROVE  [Contract!Next]_<<Exists, told>>
<1>1. CASE UNCHANGED vars
  BY <1>1 DEF vars, Exists
<1>2. ASSUME NEW c \in Caller, callers[c] \in Undecided, Tell(c, "duplicate"), UNCHANGED record,
             Served
      PROVE  Contract!Repeats(c)
  BY <1>2 DEF IInv, Tell, Contract!Repeats, Served, Exists
<1>3. ASSUME NEW c \in Caller, getCached(c) \/ findExisting(c) \/ findUnique(c)
      PROVE  Contract!Repeats(c) \/ UNCHANGED <<Exists, told>>
  BY <1>2, <1>3 DEF getCached, findExisting, findUnique, IInv, TypeOK, Step, Undecided, Exists
<1>4. ASSUME NEW c \in Caller, create(c)
      PROVE  Contract!GoAhead(c) \/ UNCHANGED <<Exists, told>>
  <2>1. told[c] = "none"
    BY <1>4 DEF create, Step, IInv, Undecided
  <2>. QED  BY <1>4, <2>1 DEF create, Contract!GoAhead, Tell, Exists
<1>5. ASSUME NEW c \in Caller,
             acquireLock(c) \/ waitForLockRelease(c) \/ cacheExisting(c) \/ releaseLock(c)
               \/ complete(c) \/ cacheResult(c) \/ fail(c) \/ crash(c)
      PROVE  UNCHANGED <<Exists, told>>
  BY <1>5 DEF acquireLock, waitForLockRelease, cacheExisting, releaseLock, complete, cacheResult,
              fail, crash, Exists
<1>6. CASE lockExpires \/ cacheExpires
  BY <1>6 DEF lockExpires, cacheExpires, Exists
<1>7. CASE cleanupExpired
  BY <1>7 DEF cleanupExpired, NoRecord, Exists, Contract!Next, Contract!Expire
<1>. QED  BY <1>1, <1>3, <1>4, <1>5, <1>6, <1>7 DEF Next, checkAndRecord, Contract!Next

\* Whatever callers overlap, crash and come late, and whatever locks, cached results and
\* records run out (checkAndRecord), the service keeps the contract of Claim.
THEOREM ContractIsKept == Spec => KeepsClaim
<1>1. Init => Contract!Init
  BY DEF Init, Contract!Init, NoRecord, Exists
<1>2. IInv /\ [Next]_vars => IInv'
  BY NextStep
<1>3. IInv /\ [Next]_vars => [Contract!Next]_<<Exists, told>>
  BY StepRefines
<1>. QED  BY <1>1, <1>2, <1>3, InitHolds, PTL DEF Spec, KeepsClaim, Contract!Spec
=============================================================================
