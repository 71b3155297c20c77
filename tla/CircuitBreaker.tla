--------------------------- MODULE CircuitBreaker ---------------------------
(***************************************************************************)
(* The circuit breaker of packages/circuit-breaker/src/circuit-breaker.ts. *)
(*                                                                         *)
(* execute() awaits the caller's promise, so any number of calls are in    *)
(* flight while the state of the breaker moves under them: a call is       *)
(* admitted in one state and reports its outcome in another.  The model    *)
(* keeps, for every call slot, whether its call was admitted as a trial of *)
(* the current HALF_OPEN episode ("trial") or before it ("early").         *)
(*                                                                         *)
(* failures and consecutiveSuccesses are read only through >= comparisons  *)
(* with their thresholds; they saturate there.  totalCalls, rejectedCalls, *)
(* successes and lastFailureTime are metrics no decision reads.            *)
(***************************************************************************)
EXTENDS Integers, FiniteSets, FiniteSetTheorems, TLAPS

CONSTANTS
    Calls,              \* concurrent calls: a slot is one call of execute() at a time
    failureThreshold,   \* config.failureThreshold (default 5)
    halfOpenMaxCalls,   \* config.halfOpenMaxCalls (default 3)
    successThreshold    \* config.successThreshold (default 2)

ASSUME CallsAssumption == IsFiniteSet(Calls)

ASSUME ConfigAssumption ==
    /\ failureThreshold \in Nat \ {0}
    /\ halfOpenMaxCalls \in Nat \ {0}
    /\ successThreshold \in Nat \ {0}

\* The constructor does not compare the two; its defaults satisfy it (3 and 2).
TrialsSuffice == successThreshold <= halfOpenMaxCalls

VARIABLES
    state,                 \* "CLOSED", "OPEN" or "HALF_OPEN"
    failures,              \* saturates at failureThreshold
    consecutiveSuccesses,  \* saturates at successThreshold
    halfOpenCalls,         \* trials admitted since the breaker became HALF_OPEN
    resetTimer,            \* the handle field: "undefined", "pending" or "fired"
    timers,                \* reset timeouts the event loop still holds
    calls                  \* what each call slot is doing

vars == <<state, failures, consecutiveSuccesses, halfOpenCalls, resetTimer,
          timers, calls>>

CircuitState == {"CLOSED", "OPEN", "HALF_OPEN"}

TypeOK ==
    /\ state \in CircuitState
    /\ failures \in 0..failureThreshold
    /\ consecutiveSuccesses \in 0..successThreshold
    /\ halfOpenCalls \in 0..halfOpenMaxCalls
    /\ resetTimer \in {"undefined", "pending", "fired"}
    /\ timers \in Nat
    /\ calls \in [Calls -> {"idle", "early", "trial"}]

Init ==
    /\ state = "CLOSED"
    /\ failures = 0
    /\ consecutiveSuccesses = 0
    /\ halfOpenCalls = 0
    /\ resetTimer = "undefined"
    /\ timers = 0
    /\ calls = [c \in Calls |-> "idle"]

Saturate(n, bound) == IF n < bound THEN n ELSE bound

-----------------------------------------------------------------------------

\* Mutant: openCircuit without its early return.
mOpenCircuitAgain ==
    /\ state' = "OPEN"
    /\ timers' = timers + 1
    /\ resetTimer' = "pending"

\* Mutant: a new timeout only when the handle field is still undefined.
mOpenCircuitReusesTimer ==
    IF state = "OPEN"
    THEN UNCHANGED <<state, timers, resetTimer>>
    ELSE /\ state' = "OPEN"
         /\ timers' = IF resetTimer = "undefined" THEN timers + 1 ELSE timers
         /\ resetTimer' = "pending"

\* openCircuit(): a no-op when already OPEN; otherwise it overwrites the handle
\* with that of a new timeout and clears nothing.
openCircuit ==
    IF state = "OPEN"
    THEN UNCHANGED <<state, timers, resetTimer>>
    ELSE /\ state' = "OPEN"
         /\ timers' = timers + 1
         /\ resetTimer' = "pending"

\* Mutant: closeCircuit that keeps the failures counted before.
mCloseKeepsFailures ==
    IF state = "CLOSED"
    THEN UNCHANGED <<state, failures, consecutiveSuccesses, halfOpenCalls,
                     timers, resetTimer>>
    ELSE /\ state' = "CLOSED"
         /\ halfOpenCalls' = 0
         /\ consecutiveSuccesses' = 0
         /\ timers' = IF resetTimer = "pending" THEN timers - 1 ELSE timers
         /\ resetTimer' = "undefined"
         /\ UNCHANGED failures

\* closeCircuit(): a no-op when already CLOSED.
closeCircuit ==
    IF state = "CLOSED"
    THEN UNCHANGED <<state, failures, consecutiveSuccesses, halfOpenCalls,
                     timers, resetTimer>>
    ELSE /\ state' = "CLOSED"
         /\ failures' = 0
         /\ halfOpenCalls' = 0
         /\ consecutiveSuccesses' = 0
         /\ timers' = IF resetTimer = "pending" THEN timers - 1 ELSE timers
         /\ resetTimer' = "undefined"

\* The prologue of execute(c), up to its await: CLOSED admits every call,
\* HALF_OPEN at most halfOpenMaxCalls of them.  A rejection changes only metrics.
execute(c) ==
    /\ calls[c] = "idle"
    /\ \/ /\ state = "CLOSED"
          /\ calls' = [calls EXCEPT ![c] = "early"]
          /\ UNCHANGED halfOpenCalls
       \/ /\ state = "HALF_OPEN"
          /\ halfOpenCalls < halfOpenMaxCalls
          /\ halfOpenCalls' = halfOpenCalls + 1
          /\ calls' = [calls EXCEPT ![c] = "trial"]
    /\ UNCHANGED <<state, failures, consecutiveSuccesses, resetTimer, timers>>

\* fn() resolves: whatever state the breaker is in by then counts the success.
onSuccess(c) ==
    LET successes == Saturate(consecutiveSuccesses + 1, successThreshold)
    IN  /\ calls[c] # "idle"
        /\ calls' = [calls EXCEPT ![c] = "idle"]
        /\ IF state = "HALF_OPEN" /\ successes >= successThreshold
           THEN closeCircuit
           ELSE /\ consecutiveSuccesses' = successes
                /\ UNCHANGED <<state, failures, halfOpenCalls, resetTimer, timers>>

\* Mutant: onFailure that, while HALF_OPEN, waits for the threshold like CLOSED does.
mFailureIgnoresHalfOpen(c) ==
    /\ calls[c] # "idle"
    /\ calls' = [calls EXCEPT ![c] = "idle"]
    /\ failures' = Saturate(failures + 1, failureThreshold)
    /\ consecutiveSuccesses' = 0
    /\ IF failures' >= failureThreshold
       THEN openCircuit
       ELSE UNCHANGED <<state, timers, resetTimer>>
    /\ UNCHANGED halfOpenCalls

\* fn() rejects: HALF_OPEN reopens at once, otherwise the threshold decides.
onFailure(c) ==
    /\ calls[c] # "idle"
    /\ calls' = [calls EXCEPT ![c] = "idle"]
    /\ failures' = Saturate(failures + 1, failureThreshold)
    /\ consecutiveSuccesses' = 0
    /\ IF state = "HALF_OPEN" \/ failures' >= failureThreshold
       THEN openCircuit
       ELSE UNCHANGED <<state, timers, resetTimer>>
    /\ UNCHANGED halfOpenCalls

\* Mutant: halfOpenCircuit that does not reset halfOpenCalls.
mHalfOpenKeepsCalls ==
    /\ timers > 0
    /\ timers' = timers - 1
    /\ resetTimer' = "fired"
    /\ IF state = "OPEN"
       THEN /\ state' = "HALF_OPEN"
            /\ consecutiveSuccesses' = 0
            /\ calls' = [c \in Calls |-> IF calls[c] = "idle" THEN "idle" ELSE "early"]
       ELSE UNCHANGED <<state, consecutiveSuccesses, calls>>
    /\ UNCHANGED <<failures, halfOpenCalls>>

\* A reset timeout fires: halfOpenCircuit().  Calls still running from before
\* are not trials of the episode that begins.
halfOpenCircuit ==
    /\ timers > 0
    /\ timers' = timers - 1
    /\ resetTimer' = "fired"
    /\ IF state = "OPEN"
       THEN /\ state' = "HALF_OPEN"
            /\ halfOpenCalls' = 0
            /\ consecutiveSuccesses' = 0
            /\ calls' = [c \in Calls |-> IF calls[c] = "idle" THEN "idle" ELSE "early"]
       ELSE UNCHANGED <<state, halfOpenCalls, consecutiveSuccesses, calls>>
    /\ UNCHANGED failures

forceOpen ==
    /\ openCircuit
    /\ UNCHANGED <<failures, consecutiveSuccesses, halfOpenCalls, calls>>

\* forceClose(), also what CircuitBreakerRegistry.resetAll() calls on each breaker.
forceClose ==
    /\ closeCircuit
    /\ UNCHANGED calls

Next ==
    \/ \E c \in Calls : execute(c) \/ onSuccess(c) \/ onFailure(c)
    \/ halfOpenCircuit
    \/ forceOpen
    \/ forceClose

\* setTimeout fires, and the promise a caller passes in settles.
Fairness ==
    /\ WF_vars(halfOpenCircuit)
    /\ \A c \in Calls : WF_vars(onSuccess(c) \/ onFailure(c))

Spec == Init /\ [][Next]_vars

FairSpec == Spec /\ Fairness

-----------------------------------------------------------------------------

Trials == {c \in Calls : calls[c] = "trial"}

\* An OPEN breaker has exactly one pending reset timeout and no other state has
\* any: it can neither stay OPEN for want of a timer nor have the timer of an
\* earlier opening, which openCircuit never clears, end a later one early.
OneTimerWhileOpen ==
    /\ timers = IF state = "OPEN" THEN 1 ELSE 0
    /\ state = "OPEN" => resetTimer = "pending"
    /\ state # "OPEN" => resetTimer # "pending"

\* A CLOSED breaker is always below its failure threshold, whatever failures of
\* earlier episodes it still carried when it was reopened or force-closed.
ClosedBelowThreshold == state = "CLOSED" => failures < failureThreshold

\* While HALF_OPEN, every trial admitted in this episode is still running or was
\* counted as a consecutive success, and the successes are still short of closing
\* the circuit: the bookkeeping HalfOpenNeverWedged rests on.
TrialsAccounted ==
    state = "HALF_OPEN" =>
        /\ halfOpenCalls <= consecutiveSuccesses + Cardinality(Trials)
        /\ consecutiveSuccesses < successThreshold

\* A HALF_OPEN breaker that has used up its trials, and so rejects every further
\* call with no timer left to run, always has a trial in flight that will decide it.
HalfOpenNeverWedged ==
    (state = "HALF_OPEN" /\ halfOpenCalls = halfOpenMaxCalls) => Trials # {}

\* The reset timeout ends every OPEN period.
OpenEnds == state = "OPEN" ~> state # "OPEN"

\* Once its trials are used up, a HALF_OPEN breaker is decided by their outcomes.
ExhaustedTrialsDecide ==
    (state = "HALF_OPEN" /\ halfOpenCalls = halfOpenMaxCalls) ~> state # "HALF_OPEN"

-----------------------------------------------------------------------------
(***************************************************************************)
(* The proofs, for every number of concurrent calls and every              *)
(* configuration of the breaker.                                           *)
(***************************************************************************)

\* The inductive invariant.  OneTimerWhileOpen is part of it because TypeOK
\* (timers never negative in closeCircuit) depends on it.
IInv == TypeOK /\ OneTimerWhileOpen /\ ClosedBelowThreshold /\ TrialsAccounted

USE CallsAssumption, ConfigAssumption

\* The trials are finitely many, and a call that starts or ends moves their
\* number by at most one.
LEMMA TrialsFinite ==
    IsFiniteSet(Trials) /\ Cardinality(Trials) \in Nat
BY FS_Subset, FS_CardinalityType DEF Trials

LEMMA TrialStarts ==
    ASSUME TypeOK, NEW c \in Calls, calls[c] = "idle",
           calls' = [calls EXCEPT ![c] = "trial"]
    PROVE  Cardinality(Trials') = Cardinality(Trials) + 1
<1>1. Trials' = Trials \cup {c} /\ c \notin Trials
  BY DEF Trials, TypeOK
<1>. QED  BY <1>1, TrialsFinite, FS_AddElement

LEMMA CallEnds ==
    ASSUME TypeOK, NEW c \in Calls, calls' = [calls EXCEPT ![c] = "idle"]
    PROVE  /\ Cardinality(Trials') \in Nat
           /\ Cardinality(Trials') >= Cardinality(Trials) - 1
<1>1. Trials' = Trials \ {c}
  BY DEF Trials, TypeOK
<1>2. Cardinality(Trials \ {c}) =
        IF c \in Trials THEN Cardinality(Trials) - 1 ELSE Cardinality(Trials)
  BY TrialsFinite, FS_RemoveElement
<1>3. Cardinality(Trials \ {c}) \in Nat
  BY TrialsFinite, FS_RemoveElement, FS_CardinalityType
<1>. QED  BY <1>1, <1>2, <1>3, TrialsFinite

-----------------------------------------------------------------------------

LEMMA InitIInv == Init => IInv
BY DEF Init, IInv, TypeOK, CircuitState, OneTimerWhileOpen,
       ClosedBelowThreshold, TrialsAccounted

LEMMA ExecuteIInv ==
    ASSUME IInv, NEW c \in Calls, execute(c)
    PROVE  IInv'
<1>1. CASE state = "CLOSED" /\ calls' = [calls EXCEPT ![c] = "early"]
           /\ UNCHANGED halfOpenCalls
  BY <1>1 DEF IInv, TypeOK, CircuitState, OneTimerWhileOpen,
              ClosedBelowThreshold, TrialsAccounted, execute
<1>2. CASE /\ state = "HALF_OPEN" /\ halfOpenCalls < halfOpenMaxCalls
           /\ halfOpenCalls' = halfOpenCalls + 1
           /\ calls' = [calls EXCEPT ![c] = "trial"]
  <2>1. TypeOK' /\ OneTimerWhileOpen' /\ ClosedBelowThreshold'
    BY <1>2 DEF IInv, TypeOK, CircuitState, OneTimerWhileOpen,
                ClosedBelowThreshold, execute
  <2>2. Cardinality(Trials') = Cardinality(Trials) + 1
    BY <1>2, TrialStarts DEF IInv, execute
  <2>3. TrialsAccounted'
    BY <1>2, <2>2, TrialsFinite DEF IInv, TypeOK, TrialsAccounted, execute
  <2>. QED  BY <2>1, <2>3 DEF IInv
<1>. QED  BY <1>1, <1>2 DEF execute

LEMMA OnSuccessIInv ==
    ASSUME IInv, NEW c \in Calls, onSuccess(c)
    PROVE  IInv'
<1>1. /\ Cardinality(Trials') \in Nat
      /\ Cardinality(Trials') >= Cardinality(Trials) - 1
  BY CallEnds DEF IInv, onSuccess
<1>2. TypeOK' /\ OneTimerWhileOpen' /\ ClosedBelowThreshold'
  BY DEF IInv, TypeOK, CircuitState, OneTimerWhileOpen, ClosedBelowThreshold,
         onSuccess, closeCircuit, Saturate
<1>3. TrialsAccounted'
  BY <1>1, TrialsFinite
     DEF IInv, TypeOK, TrialsAccounted, onSuccess, closeCircuit, Saturate
<1>. QED  BY <1>2, <1>3 DEF IInv

LEMMA OnFailureIInv ==
    ASSUME IInv, NEW c \in Calls, onFailure(c)
    PROVE  IInv'
<1>1. TypeOK'
  BY DEF IInv, TypeOK, CircuitState, onFailure, openCircuit, Saturate
<1>2. OneTimerWhileOpen' /\ ClosedBelowThreshold' /\ TrialsAccounted'
  BY DEF IInv, TypeOK, CircuitState, OneTimerWhileOpen, ClosedBelowThreshold,
         TrialsAccounted, onFailure, openCircuit, Saturate
<1>. QED  BY <1>1, <1>2 DEF IInv

LEMMA HalfOpenIInv == IInv /\ halfOpenCircuit => IInv'
<1>. SUFFICES ASSUME IInv, halfOpenCircuit PROVE IInv'
  OBVIOUS
<1>1. state = "OPEN" /\ timers = 1
  BY DEF IInv, OneTimerWhileOpen, halfOpenCircuit, TypeOK
<1>2. TypeOK' /\ OneTimerWhileOpen' /\ ClosedBelowThreshold'
  BY <1>1 DEF IInv, TypeOK, CircuitState, OneTimerWhileOpen,
              ClosedBelowThreshold, halfOpenCircuit
<1>3. Trials' = {}
  BY <1>1 DEF Trials, halfOpenCircuit, IInv, TypeOK
<1>4. TrialsAccounted'
  BY <1>1, <1>3, FS_EmptySet DEF TrialsAccounted, halfOpenCircuit, IInv, TypeOK
<1>. QED  BY <1>2, <1>4 DEF IInv

LEMMA ForcedIInv == IInv /\ (forceOpen \/ forceClose) => IInv'
<1>. SUFFICES ASSUME IInv, forceOpen \/ forceClose PROVE IInv'
  OBVIOUS
<1>1. Trials' = Trials
  BY DEF forceOpen, forceClose, Trials
<1>2. CASE forceOpen
  BY <1>1, <1>2 DEF IInv, TypeOK, CircuitState, OneTimerWhileOpen,
     ClosedBelowThreshold, TrialsAccounted, forceOpen, openCircuit
<1>3. CASE forceClose
  BY <1>1, <1>3 DEF IInv, TypeOK, CircuitState, OneTimerWhileOpen,
     ClosedBelowThreshold, TrialsAccounted, forceClose, closeCircuit
<1>. QED  BY <1>2, <1>3

LEMMA NextIInv == IInv /\ [Next]_vars => IInv'
<1>. SUFFICES ASSUME IInv, [Next]_vars PROVE IInv'
  OBVIOUS
<1>1. CASE \E c \in Calls : execute(c) \/ onSuccess(c) \/ onFailure(c)
  BY <1>1, ExecuteIInv, OnSuccessIInv, OnFailureIInv
<1>2. CASE halfOpenCircuit
  BY <1>2, HalfOpenIInv
<1>3. CASE forceOpen \/ forceClose
  BY <1>3, ForcedIInv
<1>4. CASE UNCHANGED vars
  BY <1>4 DEF vars, IInv, TypeOK, OneTimerWhileOpen, ClosedBelowThreshold,
     TrialsAccounted, Trials
<1>. QED  BY <1>1, <1>2, <1>3, <1>4 DEF Next

LEMMA SpecIInv == Spec => []IInv
BY InitIInv, NextIInv, PTL DEF Spec

-----------------------------------------------------------------------------

\* The variables keep their types; in particular clearing the reset timer never
\* takes the number of pending timeouts below zero.
THEOREM TypeCorrect == Spec => []TypeOK
<1>1. IInv => TypeOK
  BY DEF IInv
<1>. QED  BY SpecIInv, <1>1, PTL

\* An OPEN breaker has exactly one pending reset timeout, any other state none,
\* although openCircuit overwrites the handle without clearing it.
THEOREM OneTimer == Spec => []OneTimerWhileOpen
<1>1. IInv => OneTimerWhileOpen
  BY DEF IInv
<1>. QED  BY SpecIInv, <1>1, PTL

\* A CLOSED breaker is below its failure threshold.
THEOREM ClosedBelow == Spec => []ClosedBelowThreshold
<1>1. IInv => ClosedBelowThreshold
  BY DEF IInv
<1>. QED  BY SpecIInv, <1>1, PTL

\* Every trial that execute() admitted while HALF_OPEN is still running or was counted
\* by onSuccess(), whatever calls of older episodes end in between.
THEOREM TrialsAdd == Spec => []TrialsAccounted
<1>1. IInv => TrialsAccounted
  BY DEF IInv
<1>. QED  BY SpecIInv, <1>1, PTL

\* When the configuration allows at least as many trials as it wants successes,
\* a HALF_OPEN breaker that rejects every further call has a trial in flight.
THEOREM NeverWedged ==
    ASSUME TrialsSuffice
    PROVE  Spec => []HalfOpenNeverWedged
<1>1. IInv => HalfOpenNeverWedged
  <2>. SUFFICES ASSUME IInv, state = "HALF_OPEN",
                       halfOpenCalls = halfOpenMaxCalls
                PROVE  Trials # {}
    BY DEF HalfOpenNeverWedged
  <2>1. Cardinality(Trials) > 0
    BY TrialsFinite DEF IInv, TypeOK, TrialsAccounted, TrialsSuffice
  <2>. QED  BY <2>1, FS_EmptySet
<1>. QED  BY SpecIInv, <1>1, PTL

=============================================================================
