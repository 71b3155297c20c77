--------------------------- MODULE DurableProofs ---------------------------
(***************************************************************************)
(* Proofs about the components that keep their state in the tables of a    *)
(* database, for any numbers of processes, steps, events, workers and      *)
(* callers.                                                                *)
(*                                                                         *)
(* First the saga orchestrator: the progress it records was made and       *)
(* nothing is compensated that was not done, however many calls fail and   *)
(* processes crash.  A run at step k began at a currentStep up to which    *)
(* all steps were done and did the others itself, and done only grows. So  *)
(* it does not matter what other runs write to the rows in the meantime.   *)
(*                                                                         *)
(* Then those of MCDurable side by side: each does what its own module     *)
(* allows, so what was proved of each holds of the whole.                  *)
(*                                                                         *)
(* Last the tables of Services: the node of a task beside the log of       *)
(* decisions, and accounts, sessions and keys.                             *)
(***************************************************************************)
EXTENDS MCDurable, Services, FiniteSets, WellFoundedInduction, TLAPS

USE SagaAssumption

PC == {"idle", "find", "begin", "mark", "execute", "complete", "advance", "finish",
       "failing", "reload", "fail", "compensate", "compensated", "stuck", "count",
       "FAILED", "COMPENSATED"}

AtAStep == {"mark", "execute", "complete", "advance", "failing", "reload", "fail",
            "compensate", "compensated", "stuck"}

RunRecord == [pc : PC, step : 0..totalSteps, rows : SUBSET Index]

\* A run at a step has every step before it done, and, from its execution on, itself.
RunOK(r, d) ==
    /\ r \in RunRecord
    /\ r.pc \in AtAStep => r.step \in Index
    /\ \A k \in Index : k < r.step => k \in d
    /\ r.pc \in {"complete", "advance", "compensate", "compensated", "stuck"} => r.step \in d
    /\ r.pc = "finish" => r.step = totalSteps

RowsOK ==
    /\ status \in {"NONE", "STARTED", "IN_PROGRESS", "COMPLETED", "COMPENSATING",
                   "COMPENSATED", "FAILED"}
    /\ currentStep \in 0..totalSteps
    /\ step \in [Index -> StepStatus]
    /\ creating \in SUBSET Process /\ recovering \in SUBSET Process
    /\ done \in SUBSET Index
    /\ crashes \in 0..MaxCrashes /\ faults \in 0..MaxFaults
    /\ ProgressIsDone
    /\ \A k \in Index : step[k] = "COMPENSATED" => k \in done

IInv ==
    /\ RowsOK
    /\ runs \in [Process -> RunRecord]
    /\ \A p \in Process : RunOK(runs[p], done)

LEMMA InvImplies == IInv => TypeOK /\ ProgressIsDone /\ CompensatedWasDone
<1>. SUFFICES ASSUME IInv PROVE TypeOK /\ ProgressIsDone /\ CompensatedWasDone
  OBVIOUS
<1>1. TypeOK
  BY DEF IInv, RowsOK, TypeOK, RunOK, RunRecord, PC, AtAStep
<1>2. CompensatedWasDone
  BY DEF IInv, RowsOK, CompensatedWasDone, RunOK, At
<1>. QED  BY <1>1, <1>2 DEF IInv, RowsOK

-----------------------------------------------------------------------------
\* The loops of executeSaga() and handleStepFailure()

LEMMA AtStepOK ==
    ASSUME NEW r \in RunRecord, NEW k \in 0..totalSteps, NEW d,
           \A j \in Index : j < k => j \in d
    PROVE  RunOK(AtStep(r, k), d)
<1>1. CASE k = totalSteps
  BY <1>1 DEF AtStep, RunOK, RunRecord, PC, AtAStep
<1>2. CASE k # totalSteps /\ k \in r.rows
  <2>1. AtStep(r, k) = [r EXCEPT !.pc = "mark", !.step = k]
    BY <1>2 DEF AtStep
  <2>. QED  BY <1>2, <2>1 DEF RunOK, RunRecord, PC, AtAStep, Index
<1>3. CASE k # totalSteps /\ k \notin r.rows
  <2>1. AtStep(r, k) = Idle
    BY <1>3 DEF AtStep
  <2>. QED  BY <2>1 DEF RunOK, RunRecord, PC, AtAStep, Idle, Index
<1>. QED  BY <1>1, <1>2, <1>3

\* A nonempty set of steps has a last one, so the loop downwards finds the next.
LEMMA LastStep ==
    ASSUME NEW T \in SUBSET Index, T # {}
    PROVE  \E k \in T : \A j \in T : j <= k
<1>. DEFINE Left == {totalSteps - k : k \in T}
<1>1. Left \subseteq Nat /\ Left # {}
  <2>1. \A k \in T : totalSteps - k \in Nat
    BY DEF Index
  <2>2. PICK k \in T : TRUE
    OBVIOUS
  <2>3. totalSteps - k \in Left
    BY <2>2
  <2>. QED  BY <2>1, <2>3
<1>. HIDE DEF Left
<1>2. PICK x \in Left : \A y \in Left : <<y, x>> \notin OpToRel(<, Nat)
  BY <1>1, NatLessThanWellFounded, WFMin, Zenon
<1>3. \A y \in Left : ~(y < x)
  BY <1>1, <1>2 DEF OpToRel
<1>4. PICK k \in T : x = totalSteps - k
  BY DEF Left
<1>5. ASSUME NEW j \in T PROVE j <= k
  <2>1. totalSteps - j \in Left
    BY DEF Left
  <2>. QED  BY <1>3, <1>4, <2>1 DEF Index
<1>. QED  BY <1>5

LEMMA AtCompensate ==
    ASSUME NEW r \in RunRecord, NEW n \in Index
    PROVE  LET s == [r EXCEPT !.pc = "compensate", !.step = n]
           IN  s \in RunRecord /\ s.pc = "compensate" /\ s.step = n
<1>1. n \in 0..totalSteps /\ "compensate" \in PC
  BY DEF Index, PC
<1>. QED  BY <1>1 DEF RunRecord

LEMMA BeforeStepOK ==
    ASSUME NEW r \in RunRecord, NEW d, \A j \in Index : j < r.step => j \in d
    PROVE  RunOK(BeforeStep(r), d)
<1>. DEFINE left == {k \in r.rows : k < r.step}
            k == CHOOSE k \in left : \A j \in left : j <= k
<1>1. CASE left = {}
  <2>1. BeforeStep(r) = [r EXCEPT !.pc = "count"]
    BY <1>1 DEF BeforeStep
  <2>. QED  BY <2>1 DEF RunOK, RunRecord, PC, AtAStep
<1>2. CASE left # {}
  <2>1. BeforeStep(r) = [r EXCEPT !.pc = "compensate", !.step = k]
    BY <1>2 DEF BeforeStep
  <2>2. left \in SUBSET Index
    BY DEF RunRecord
  <2>3. k \in left
    BY <1>2, <2>2, LastStep
  <2>4. k \in Index /\ k < r.step /\ k \in d
    BY <2>2, <2>3
  <2>5. \A j \in Index : j < k => j \in d
    BY <2>4 DEF RunRecord, Index
  <2>. HIDE DEF k, left
  <2>. DEFINE s == [r EXCEPT !.pc = "compensate", !.step = k]
  <2>6. s \in RunRecord /\ s.pc = "compensate" /\ s.step = k
    BY <2>4, AtCompensate
  <2>. HIDE DEF s
  <2>7. RunOK(s, d)
    BY <2>4, <2>5, <2>6 DEF RunOK
  <2>. QED  BY <2>1, <2>7 DEF s
<1>. QED  BY <1>1, <1>2

-----------------------------------------------------------------------------
\* Steps

\* One run moves, to where it may be, and the rows are kept in order.
LEMMA RunMoves ==
    ASSUME IInv, NEW p \in Process, NEW r, runs' = [runs EXCEPT ![p] = r],
           done \subseteq done', RunOK(r, done'), RowsOK'
    PROVE  IInv'
<1>1. runs' \in [Process -> RunRecord]
  BY DEF IInv, RunOK
<1>2. ASSUME NEW q \in Process PROVE RunOK(runs'[q], done')
  <2>1. CASE q = p
    BY <2>1 DEF IInv
  <2>2. CASE q # p
    <3>1. runs'[q] = runs[q] /\ RunOK(runs[q], done)
      BY <2>2 DEF IInv
    <3>. QED  BY <3>1 DEF RunOK
  <2>. QED  BY <2>1, <2>2
<1>. QED  BY <1>1, <1>2 DEF IInv

\* The rows are kept in order by what changes none of them.
LEMMA RowsStay ==
    ASSUME IInv, UNCHANGED <<rowVars, done>>,
           creating' \in SUBSET Process, recovering' \in SUBSET Process,
           crashes' \in 0..MaxCrashes, faults' \in 0..MaxFaults
    PROVE  RowsOK'
BY DEF IInv, RowsOK, rowVars, ProgressIsDone

LEMMA IdleOK == ASSUME NEW d PROVE RunOK(Idle, d)
BY DEF Idle, RunOK, RunRecord, PC, AtAStep, Index

\* Where a run goes when it is entered, ended or kept.
LEMMA EnterOK ==
    ASSUME IInv, NEW p \in Process, Enter(p), done \subseteq done', RowsOK'
    PROVE  IInv'
<1>1. CASE At(p, "idle")
  <2>1. RunOK([Idle EXCEPT !.pc = "find"], done')
    BY DEF Idle, RunOK, RunRecord, PC, AtAStep, Index
  <2>. QED  BY <1>1, <2>1, RunMoves DEF Enter, Goto
<1>2. CASE ~At(p, "idle")
  <2>1. RunOK(runs[p], done')
    BY DEF IInv, RunOK
  <2>. QED  BY <1>2, <2>1, RunMoves DEF Enter, Goto
<1>. QED  BY <1>1, <1>2

\* A run goes on at the step it is at.
LEMMA GoesOn ==
    ASSUME IInv, NEW p \in Process, NEW pc \in PC, Goto(p, [runs[p] EXCEPT !.pc = pc]),
           done \subseteq done', RowsOK',
           pc \in AtAStep => runs[p].pc \in AtAStep,
           pc \in {"complete", "advance", "compensate", "compensated", "stuck"} =>
               runs[p].step \in done',
           pc # "finish"
    PROVE  IInv'
<1>. DEFINE r == [runs[p] EXCEPT !.pc = pc]
<1>1. RunOK(runs[p], done)
  BY DEF IInv
<1>2. r \in RunRecord /\ r.pc = pc /\ r.step = runs[p].step
  BY <1>1 DEF RunOK, RunRecord
<1>. HIDE DEF r
<1>3. RunOK(r, done')
  BY <1>1, <1>2 DEF RunOK
<1>. QED  BY <1>3, RunMoves DEF Goto, r

\* What Mark() writes is in order if a compensated step was done.
LEMMA MarkOK ==
    ASSUME IInv, NEW p \in Process, NEW s \in StepStatus,
           step' = [step EXCEPT ![runs[p].step] = s],
           s = "COMPENSATED" => runs[p].step \in done,
           UNCHANGED <<status, currentStep, creating, recovering, done, bounds>>
    PROVE  RowsOK'
BY DEF IInv, RowsOK, ProgressIsDone, bounds

-----------------------------------------------------------------------------
\* The invariant is inductive

LEMMA InitInv == Init => IInv
<1>. SUFFICES ASSUME Init PROVE IInv
  OBVIOUS
<1>1. RowsOK
  BY DEF Init, RowsOK, ProgressIsDone, NoRows, StepStatus, Index
<1>2. runs \in [Process -> RunRecord]
  BY DEF Init, Idle, RunRecord, PC
<1>3. \A p \in Process : RunOK(runs[p], done)
  BY IdleOK DEF Init
<1>. QED  BY <1>1, <1>2, <1>3 DEF IInv

\* Steps of executeSaga().
LEMMA ExecuteStep ==
    ASSUME IInv, NEW p \in Process,
           \/ find(p) \/ begin(p) \/ markInProgress(p) \/ execute(p)
           \/ markCompleted(p) \/ advance(p) \/ finish(p)
    PROVE  IInv'
<1>0. RunOK(runs[p], done) /\ runs[p] \in RunRecord
  BY DEF IInv
<1>1. CASE find(p)
  <2>1. RowsOK'
    BY <1>1, RowsStay DEF find, IInv, RowsOK, bounds
  <2>2. RunOK([pc |-> "begin", step |-> currentStep, rows |-> Recorded], done')
    BY <1>1 DEF find, IInv, RowsOK, RunOK, RunRecord, PC, AtAStep, Recorded, ProgressIsDone
  <2>. QED  BY <1>1, <2>1, <2>2, RunMoves DEF find, Goto
<1>2. CASE begin(p)
  <2>1. RowsOK'
    BY <1>2 DEF begin, IInv, RowsOK, ProgressIsDone, bounds
  <2>2. RunOK(AtStep(runs[p], runs[p].step), done')
    BY <1>0, <1>2, AtStepOK DEF begin, RunOK, RunRecord
  <2>. QED  BY <1>2, <2>1, <2>2, RunMoves DEF begin, Goto
<1>3. CASE markInProgress(p)
  <2>1. RowsOK'
    BY <1>3, MarkOK DEF markInProgress, Mark, StepStatus
  <2>. QED  BY <1>3, <2>1, GoesOn DEF markInProgress, Mark, At, PC, AtAStep
<1>4. CASE execute(p)
  <2>1. runs[p].step \in Index
    BY <1>0, <1>4 DEF execute, At, RunOK, AtAStep
  <2>2. RowsOK' /\ done \subseteq done'
    BY <1>4, <2>1 DEF execute, IInv, RowsOK, rowVars, bounds, ProgressIsDone
  <2>. QED  BY <1>4, <2>1, <2>2, GoesOn DEF execute, At, PC, AtAStep
<1>5. CASE markCompleted(p)
  <2>1. RowsOK'
    BY <1>5, MarkOK DEF markCompleted, Mark, StepStatus
  <2>2. runs[p].step \in done'
    BY <1>0, <1>5 DEF markCompleted, Mark, At, RunOK
  <2>. QED  BY <1>5, <2>1, <2>2, GoesOn DEF markCompleted, Mark, At, PC, AtAStep
<1>6. CASE advance(p)
  <2>1. /\ runs[p].step \in Index /\ runs[p].step \in done
        /\ \A j \in Index : j < runs[p].step + 1 => j \in done
    BY <1>0, <1>6 DEF advance, At, RunOK, AtAStep, Index
  <2>2. RowsOK'
    BY <1>6, <2>1 DEF advance, IInv, RowsOK, ProgressIsDone, bounds, Index
  <2>3. RunOK(AtStep(runs[p], runs[p].step + 1), done')
    BY <1>0, <1>6, <2>1, AtStepOK DEF advance, Index
  <2>. QED  BY <1>6, <2>2, <2>3, RunMoves DEF advance, Goto
<1>7. CASE finish(p)
  <2>a. runs[p].step = totalSteps
    BY <1>0, <1>7 DEF finish, At, RunOK
  <2>b. \A k \in Index : k < totalSteps
    BY DEF Index
  <2>1. done = Index
    BY <1>0, <2>a, <2>b DEF RunOK, IInv, RowsOK
  <2>2. RowsOK'
    BY <1>7, <2>1 DEF finish, IInv, RowsOK, ProgressIsDone, bounds
  <2>. QED  BY <1>7, <2>2, IdleOK, RunMoves DEF finish, Goto
<1>. QED  BY <1>1, <1>2, <1>3, <1>4, <1>5, <1>6, <1>7

\* Steps of handleStepFailure().
LEMMA CompensateStep ==
    ASSUME IInv, NEW p \in Process,
           \/ startCompensation(p) \/ reload(p) \/ markFailed(p) \/ compensate(p)
           \/ markCompensated(p) \/ markStuck(p) \/ countFailed(p) \/ close(p)
    PROVE  IInv'
<1>0. RunOK(runs[p], done) /\ runs[p] \in RunRecord
  BY DEF IInv
<1>. DEFINE MarkThenBefore(s) ==
                /\ step' = [step EXCEPT ![runs[p].step] = s]
                /\ Goto(p, BeforeStep(runs[p]))
                /\ UNCHANGED <<status, currentStep, creating, recovering, done, bounds>>
<1>a. ASSUME NEW s \in StepStatus, MarkThenBefore(s),
             s = "COMPENSATED" => runs[p].step \in done
      PROVE  IInv'
  <2>1. RowsOK'
    BY <1>a, MarkOK
  <2>2. RunOK(BeforeStep(runs[p]), done')
    BY <1>0, <1>a, BeforeStepOK DEF RunOK
  <2>. QED  BY <1>a, <2>1, <2>2, RunMoves DEF Goto
<1>1. CASE startCompensation(p)
  <2>1. RowsOK'
    BY <1>1 DEF startCompensation, IInv, RowsOK, ProgressIsDone, bounds
  <2>. QED  BY <1>1, <2>1, GoesOn DEF startCompensation, At, PC, AtAStep
<1>2. CASE reload(p)
  <2>1. RowsOK'
    BY <1>2, RowsStay DEF reload, IInv, RowsOK, bounds
  <2>. DEFINE r == [runs[p] EXCEPT !.pc = "fail", !.rows = Finished]
  <2>2. r \in RunRecord /\ r.pc = "fail" /\ r.step = runs[p].step
    BY <1>0 DEF RunRecord, PC, Finished
  <2>3. runs[p].step \in Index
    BY <1>0, <1>2 DEF reload, At, RunOK, AtAStep
  <2>. HIDE DEF r
  <2>4. RunOK(r, done')
    BY <1>0, <1>2, <2>2, <2>3 DEF reload, RunOK
  <2>. QED  BY <1>2, <2>1, <2>4, RunMoves DEF reload, Goto, r
<1>3. CASE markFailed(p)
  BY <1>3, <1>a DEF markFailed, Mark, StepStatus
<1>4. CASE compensate(p)
  <2>1. RowsOK'
    BY <1>4, RowsStay DEF compensate, IInv, RowsOK, bounds
  <2>2. runs[p].step \in done'
    BY <1>0, <1>4 DEF compensate, At, RunOK
  <2>. QED  BY <1>4, <2>1, <2>2, GoesOn DEF compensate, At, PC, AtAStep
<1>5. CASE markCompensated(p)
  <2>1. runs[p].step \in done
    BY <1>0, <1>5 DEF markCompensated, Mark, At, RunOK
  <2>. QED  BY <1>5, <1>a, <2>1 DEF markCompensated, Mark, StepStatus
<1>6. CASE markStuck(p)
  BY <1>6, <1>a DEF markStuck, Mark, StepStatus
<1>7. CASE countFailed(p)
  <2>1. RowsOK'
    BY <1>7, RowsStay DEF countFailed, IInv, RowsOK, bounds
  <2>2. PICK pc \in {"FAILED", "COMPENSATED"} : Goto(p, [runs[p] EXCEPT !.pc = pc])
    BY <1>7 DEF countFailed
  <2>. QED  BY <1>7, <2>1, <2>2, GoesOn DEF countFailed, PC, AtAStep
<1>8. CASE close(p)
  <2>1. RowsOK'
    BY <1>8 DEF close, IInv, RowsOK, ProgressIsDone, bounds
  <2>. QED  BY <1>8, <2>1, IdleOK, RunMoves DEF close, Goto
<1>. QED  BY <1>1, <1>2, <1>3, <1>4, <1>5, <1>6, <1>7, <1>8

\* Creation, recovery, failing calls and crashes.
LEMMA OtherStep ==
    ASSUME IInv, NEW p \in Process,
           \/ startSaga(p) \/ createStep(p) \/ findIncomplete(p) \/ recover(p)
           \/ throws(p) \/ crash(p)
    PROVE  IInv'
<1>1. CASE startSaga(p)
  <2>1. RowsOK'
    BY <1>1 DEF startSaga, IInv, RowsOK, ProgressIsDone, bounds
  <2>. QED  BY <1>1, <2>1 DEF startSaga, IInv
<1>2. CASE createStep(p)
  <2>1. RowsOK'
    BY <1>2 DEF createStep, IInv, RowsOK, ProgressIsDone, bounds, StepStatus
  <2>2. CASE Enter(p)
    BY <1>2, <2>1, <2>2, EnterOK DEF createStep
  <2>3. CASE UNCHANGED runs
    BY <1>2, <2>1, <2>3 DEF createStep, IInv
  <2>. QED  BY <1>2, <2>2, <2>3 DEF createStep
<1>3. CASE findIncomplete(p)
  <2>1. RowsOK'
    BY <1>3, RowsStay DEF findIncomplete, IInv, RowsOK, bounds
  <2>. QED  BY <1>3, <2>1 DEF findIncomplete, IInv
<1>4. CASE recover(p)
  <2>1. RowsOK'
    BY <1>4, RowsStay DEF recover, IInv, RowsOK, bounds
  <2>. QED  BY <1>4, <2>1, EnterOK DEF recover
<1>5. CASE throws(p)
  <2>1. RowsOK' /\ done' = done
    BY <1>5, RowsStay DEF throws, IInv, RowsOK
  <2>2. CASE UNCHANGED runs
    BY <2>1, <2>2 DEF IInv
  <2>3. CASE Goto(p, Idle)
    BY <2>1, <2>3, IdleOK, RunMoves DEF Goto
  <2>4. CASE At(p, "complete") /\ Goto(p, [runs[p] EXCEPT !.pc = "failing"])
    BY <2>1, <2>4, GoesOn DEF At, PC, AtAStep
  <2>5. CASE At(p, "advance") /\ Goto(p, [runs[p] EXCEPT !.pc = "failing"])
    BY <2>1, <2>5, GoesOn DEF At, PC, AtAStep
  <2>6. CASE At(p, "compensated") /\ Goto(p, [runs[p] EXCEPT !.pc = "stuck"])
    <3>1. runs[p].step \in done'
      BY <2>1, <2>6 DEF IInv, RunOK, At
    <3>. QED  BY <2>1, <2>6, <3>1, GoesOn DEF At, PC, AtAStep
  <2>7. \/ UNCHANGED runs
        \/ Goto(p, Idle)
        \/ At(p, "complete") /\ Goto(p, [runs[p] EXCEPT !.pc = "failing"])
        \/ At(p, "advance") /\ Goto(p, [runs[p] EXCEPT !.pc = "failing"])
        \/ At(p, "compensated") /\ Goto(p, [runs[p] EXCEPT !.pc = "stuck"])
    BY <1>5 DEF throws, At
  <2>. QED  BY <2>2, <2>3, <2>4, <2>5, <2>6, <2>7
<1>6. CASE crash(p)
  <2>1. RowsOK'
    BY <1>6, RowsStay DEF crash, IInv, RowsOK
  <2>. QED  BY <1>6, <2>1, IdleOK, RunMoves DEF crash, Goto
<1>. QED  BY <1>1, <1>2, <1>3, <1>4, <1>5, <1>6

LEMMA NextInv == IInv /\ [Next]_vars => IInv'
<1>. SUFFICES ASSUME IInv, [Next]_vars PROVE IInv'
  OBVIOUS
<1>1. CASE UNCHANGED vars
  <2>1. RowsOK'
    BY <1>1, RowsStay DEF vars, bounds, IInv, RowsOK
  <2>. QED  BY <1>1, <2>1 DEF vars, IInv
<1>2. ASSUME NEW p \in Process,
             \/ startSaga(p) \/ Run(p) \/ findIncomplete(p) \/ recover(p) \/ throws(p)
             \/ crash(p)
      PROVE  IInv'
  BY <1>2, ExecuteStep, CompensateStep, OtherStep DEF Run
<1>. QED  BY <1>1, <1>2 DEF Next

-----------------------------------------------------------------------------
\* Theorems

LEMMA AlwaysInv == Spec => []IInv
BY InitInv, NextInv, PTL DEF Spec

\* The variables keep their types, and a run that is at a step is at one that the saga
\* has: the loop bounds of executeSaga() and handleStepFailure().
THEOREM SagaTypeCorrect == Spec => []TypeOK
BY AlwaysInv, InvImplies, PTL

\* currentStep and COMPLETED claim only what was executed with success, although
\* several processes may execute the saga and recover it.
THEOREM ProgressWasMade == Spec => []ProgressIsDone
BY AlwaysInv, InvImplies, PTL

\* handleStepFailure() compensates only steps that were executed with success.
THEOREM OnlyDoneIsCompensated == Spec => []CompensatedWasDone
BY AlwaysInv, InvImplies, PTL

-----------------------------------------------------------------------------
\* All components

\* The numbers of the configurations, and how many take part.
DurableNumbers ==
    /\ Messages!OutboxNumbers
    /\ MaxRetryFailed \in Nat /\ MaxMishaps \in Nat
    /\ maxRetries \in Nat /\ MaxReplays \in Nat /\ IsFiniteSet(Worker)
    /\ dlqMaxRetries \in Nat /\ MaxSends \in Nat /\ IsFiniteSet(Retrier)

\* Each component begins and moves as it does alone.
LEMMA EachMoves ==
    DurableSpec => /\ Spec
                   /\ Messages!OutboxSpec /\ Messages!EosSpec
                   /\ Messages!UnifiedSpec /\ Messages!DlqSpec
                   /\ IdempotencyService!Spec
<1>1. DurableInit => /\ Init /\ Messages!OutboxInit /\ Messages!EosInit
                     /\ Messages!UnifiedInit /\ Messages!DlqInit /\ IdempotencyService!Init
  BY DEF DurableInit
<1>2. ASSUME [DurableNext]_<<active, vars, outboxVars, eosVars, unifiedVars, dlqVars,
                             idempotencyVars>>
      PROVE  /\ [Next]_vars
             /\ [Messages!OutboxNext]_Messages!outboxVars
             /\ [Messages!EosNext]_Messages!eosVars
             /\ [Messages!UnifiedNext]_Messages!unifiedVars
             /\ [Messages!DlqNext]_Messages!dlqVars
             /\ [IdempotencyService!Next]_IdempotencyService!vars
  BY <1>2 DEF DurableNext, outboxVars, eosVars, unifiedVars, dlqVars, idempotencyVars,
     Messages!outboxVars, Messages!eosVars, Messages!unifiedVars, Messages!dlqVars,
     IdempotencyService!vars
<1>. QED
  BY <1>1, <1>2, PTL DEF DurableSpec, Spec, Messages!OutboxSpec, Messages!EosSpec,
     Messages!UnifiedSpec, Messages!DlqSpec, IdempotencyService!Spec

LEMMA ServiceTyped == IdempotencyService!Spec => []IdempotencyService!TypeOK
<1>1. IdempotencyService!IInv => IdempotencyService!TypeOK
  BY DEF IdempotencyService!IInv
<1>2. /\ IdempotencyService!IInv
      /\ [IdempotencyService!Next]_IdempotencyService!vars
      => IdempotencyService!IInv'
  BY IdempotencyService!NextStep
<1>. QED
  BY <1>1, <1>2, IdempotencyService!InitHolds, PTL DEF IdempotencyService!Spec

\* What the rows of the outbox, the offsets and the dead letters record was done, for any
\* number of processes, events, workers and callers, and every component keeps its types.
THEOREM RecordsAreTrue ==
    ASSUME DurableNumbers
    PROVE  DurableSpec => []DurableSafe
<1>1. Spec => []TypeOK
  BY SagaTypeCorrect
<1>2. Messages!IsFiniteSet(Worker) /\ Messages!IsFiniteSet(Retrier)
  BY DEF DurableNumbers, IsFiniteSet, Messages!IsFiniteSet
<1>3. Messages!OutboxSpec => /\ []Messages!OutboxTypeOK
                             /\ []Messages!PublishedWasDelivered
                             /\ []Messages!FailedIsExhausted
  BY Messages!OutboxTyped, Messages!PublishedReachedTheBroker, Messages!GivenUpAtMaxAttempts
     DEF DurableNumbers
<1>4. Messages!EosSpec => /\ []Messages!EosTypeOK
                          /\ []Messages!CommittedOnceEach
                          /\ []Messages!FinishedWasCommitted
  BY Messages!EosTyped, Messages!RepeatsAreOwed, Messages!NothingIsPassedOver
     DEF DurableNumbers
<1>5. Messages!UnifiedSpec => []Messages!UnifiedTypeOK /\ []Messages!CountedReplaysWereSent
  BY <1>2, Messages!UnifiedTyped, Messages!CountsHaveSends DEF DurableNumbers
<1>6. Messages!DlqSpec => /\ []Messages!DlqTypeOK
                          /\ []Messages!SendsAreCounted
                          /\ []Messages!GivenUpIsExhausted
  BY <1>2, Messages!DlqTyped, Messages!SendsWereCounted, Messages!GivenUpWasRetried
     DEF DurableNumbers
<1>. QED
  BY <1>1, <1>3, <1>4, <1>5, <1>6, ServiceTyped, EachMoves, PTL DEF DurableSafe, TypesOK

\* checkAndRecord() keeps its promise beside the other components.
THEOREM ClaimsAreKept == DurableSpec => KeepsClaim
BY EachMoves, IdempotencyService!ContractIsKept, PTL DEF KeepsClaim

-----------------------------------------------------------------------------
\* The services under apps/

Announced == {"", "TaskCreated", "TaskCancelled", "TaskCompleted", "TaskFailed", "TaskScheduled"}
TaskCall == [pc : {"idle", "written", "answered"}, task : Task \cup {0},
             event : Announced]
SchedulerWork == [pc : {"idle", "getTask", "getNodes", "replicate", "post", "publish"},
                  task : Task \cup {0}, node : Node \cup {NoNode}]

\* A scheduler tells the task service of a node only after the pair is in the log.
DecidedInv ==
    /\ statusOf \in [Task -> Statuses \cup {"none"}] /\ nodeId \in [Task -> Node \cup {NoNode}]
    /\ leader \subseteq Scheduler /\ healthy \subseteq Node /\ decisions \subseteq Task \X Node
    /\ calls \in [Request -> TaskCall]
    /\ \A c \in Request : calls[c].pc = "written" => calls[c].task \in Task
    /\ work \in [Scheduler -> SchedulerWork]
    /\ \A s \in Scheduler :
          /\ work[s].pc # "idle" => work[s].task \in Task
          /\ work[s].pc = "replicate" => work[s].node \in Node
          /\ work[s].pc = "post" => <<work[s].task, work[s].node>> \in decisions
    /\ events \in [Task -> Seq(Announced)] /\ heard \in [Scheduler -> [Task -> Nat]]
    /\ \A s \in Scheduler, t \in Task : heard[s][t] <= Len(events[t])
    /\ OnlyDecidedIsScheduled

LEMMA DecidedBegins == ServicesInit => DecidedInv
<1>. SUFFICES ASSUME ServicesInit  PROVE DecidedInv
  OBVIOUS
<1>1. <<>> \in Seq(Announced) /\ Len(<<>>) = 0
  OBVIOUS
<1>2. [pc |-> "idle", task |-> 0, event |-> ""] \in TaskCall /\ Resting \in SchedulerWork /\ Resting.pc = "idle"
  BY DEF TaskCall, Announced, SchedulerWork, Resting
<1>3. /\ calls \in [Request -> TaskCall] /\ \A c \in Request : calls[c].pc = "idle"
      /\ work \in [Scheduler -> SchedulerWork] /\ \A s \in Scheduler : work[s].pc = "idle"
  BY <1>2 DEF ServicesInit
<1>4. /\ events \in [Task -> Seq(Announced)] /\ heard \in [Scheduler -> [Task -> Nat]]
      /\ \A s \in Scheduler, t \in Task : heard[s][t] <= Len(events[t])
  <2>1. /\ \A t \in Task : events[t] = <<>> /\ \A s \in Scheduler : heard[s][t] = 0
        /\ events = [t \in Task |-> <<>>] /\ heard = [s \in Scheduler |-> [t \in Task |-> 0]]
    BY DEF ServicesInit
  <2>. QED  BY <1>1, <2>1
<1>. QED  BY <1>3, <1>4 DEF ServicesInit, DecidedInv, OnlyDecidedIsScheduled, Statuses

\* One more event of a task: no consumer is ahead of it.
LEMMA EventKeeps ==
    ASSUME DecidedInv, NEW t \in Task, NEW e \in Announced,
           events' = [events EXCEPT ![t] = Append(events[t], e)], heard' = heard
    PROVE  /\ events' \in [Task -> Seq(Announced)] /\ heard' \in [Scheduler -> [Task -> Nat]]
           /\ \A s \in Scheduler, u \in Task : heard'[s][u] <= Len(events'[u])
<1>1. events[t] \in Seq(Announced)
  BY DEF DecidedInv
<1>2. /\ Append(events[t], e) \in Seq(Announced)
      /\ Len(Append(events[t], e)) = Len(events[t]) + 1 /\ Len(events[t]) \in Nat
  <2>. DEFINE q == events[t]
  <2>1. q \in Seq(Announced)
    BY <1>1
  <2>. HIDE DEF q
  <2>2. /\ Append(q, e) \in Seq(Announced)
        /\ Len(Append(q, e)) = Len(q) + 1 /\ Len(q) \in Nat
    BY <2>1
  <2>. QED  BY <2>2 DEF q
<1>3. events' \in [Task -> Seq(Announced)]
  BY <1>2 DEF DecidedInv
<1>4. \A u \in Task : Len(events[u]) \in Nat /\ Len(events[u]) <= Len(events'[u])
  <2>. SUFFICES ASSUME NEW u \in Task  PROVE Len(events[u]) \in Nat /\ Len(events[u]) <= Len(events'[u])
    OBVIOUS
  <2>1. events[u] \in Seq(Announced)
    BY DEF DecidedInv
  <2>. QED  BY <2>1, <1>2 DEF DecidedInv
<1>5. \A s \in Scheduler, u \in Task : heard[s][u] \in Nat /\ heard[s][u] <= Len(events[u])
  BY DEF DecidedInv
<1>6. \A u \in Task : Len(events'[u]) \in Nat
  BY <1>3
<1>7. \A s \in Scheduler, u \in Task : heard'[s][u] <= Len(events'[u])
  BY <1>4, <1>5, <1>6
<1>. QED  BY <1>3, <1>7 DEF DecidedInv

\* A scheduler goes on, with what it holds.
LEMMA WorkKeeps ==
    ASSUME DecidedInv, NEW s \in Scheduler, NEW w \in SchedulerWork, Go(s, w),
           w.pc # "idle" => w.task \in Task,
           w.pc = "replicate" => w.node \in Node,
           w.pc = "post" => <<w.task, w.node>> \in decisions',
           decisions \subseteq decisions'
    PROVE  /\ work' \in [Scheduler -> SchedulerWork]
           /\ \A r \in Scheduler :
                 /\ work'[r].pc # "idle" => work'[r].task \in Task
                 /\ work'[r].pc = "replicate" => work'[r].node \in Node
                 /\ work'[r].pc = "post" => <<work'[r].task, work'[r].node>> \in decisions'
BY DEF DecidedInv, Go

\* The task service.
LEMMA TaskServiceKeeps ==
    ASSUME DecidedInv, NEW c \in Request,
           publish(c) \/ \E t \in Task : createTask(c, t) \/ cancelTask(c, t) \/ completeTask(c, t) \/ failTask(c, t)
    PROVE  DecidedInv'
<1>1. CASE publish(c)
  <2>1. /\ calls[c] \in TaskCall /\ calls[c].task \in Task
    BY <1>1 DEF publish, DecidedInv
  <2>2. calls[c].event \in Announced
    BY <2>1 DEF TaskCall, Announced
  <2>3. /\ events' \in [Task -> Seq(Announced)] /\ heard' \in [Scheduler -> [Task -> Nat]]
        /\ \A s \in Scheduler, u \in Task : heard'[s][u] <= Len(events'[u])
    BY <1>1, <2>1, <2>2, EventKeeps DEF publish, Schedulers
  <2>. DEFINE k == [calls[c] EXCEPT !.pc = "answered"]
  <2>4. k \in TaskCall /\ k.pc = "answered"
    BY <2>1 DEF TaskCall
  <2>. HIDE DEF k
  <2>5. calls' = [calls EXCEPT ![c] = k]
    BY <1>1 DEF publish, k
  <2>6. UNCHANGED <<statusOf, nodeId, work, decisions, leader, healthy>>
    BY <1>1 DEF publish, Schedulers, Outside
  <2>. QED  BY <2>3, <2>4, <2>5, <2>6 DEF DecidedInv, OnlyDecidedIsScheduled
<1>2. ASSUME NEW t \in Task, createTask(c, t) \/ cancelTask(c, t) \/ completeTask(c, t) \/ failTask(c, t)
      PROVE  DecidedInv'
  <2>1. PICK s \in Statuses, e \in {"TaskCreated", "TaskCancelled", "TaskCompleted", "TaskFailed"} :
            Write(c, t, s, e) /\ UNCHANGED nodeId
    BY <1>2 DEF createTask, cancelTask, completeTask, failTask, Statuses
  <2>. DEFINE k == [pc |-> "written", task |-> t, event |-> e]
  <2>2. k \in TaskCall /\ k.task \in Task
    BY DEF TaskCall, Announced
  <2>. HIDE DEF k
  <2>3. /\ calls' = [calls EXCEPT ![c] = k]
        /\ statusOf' = [statusOf EXCEPT ![t] = s]
        /\ UNCHANGED <<nodeId, events, heard, work, decisions, leader, healthy>>
    BY <2>1 DEF Write, updateStatus, Schedulers, Outside, k
  <2>. QED  BY <2>2, <2>3 DEF DecidedInv, OnlyDecidedIsScheduled
<1>. QED  BY <1>1, <1>2

\* The schedulers.
LEMMA SchedulersKeep ==
    ASSUME DecidedInv, NEW s \in Scheduler,
           getTask(s) \/ getNodes(s) \/ replicate(s) \/ post(s) \/ publishScheduled(s)
           \/ \E t \in Task : subscribeToEvents(s, t) \/ schedule(s, t)
    PROVE  DecidedInv'
<1>0. /\ Resting \in SchedulerWork /\ Resting.pc = "idle" /\ work[s] \in SchedulerWork
      /\ UNCHANGED <<calls, leader, healthy>>
  BY DEF SchedulerWork, Resting, DecidedInv, getTask, getNodes, replicate, post, publishScheduled,
         subscribeToEvents, schedule, Outside, KeepTasks
<1>1. ASSUME NEW t \in Task, subscribeToEvents(s, t)  PROVE DecidedInv'
  <2>1. /\ heard[s][t] \in Nat /\ heard[s][t] < Len(events[t])
        /\ heard' = [heard EXCEPT ![s][t] = heard[s][t] + 1]
        /\ UNCHANGED <<statusOf, nodeId, events, decisions>>
    BY <1>1 DEF subscribeToEvents, DecidedInv, KeepTasks
  <2>2. heard' \in [Scheduler -> [Task -> Nat]]
    BY <2>1 DEF DecidedInv
  <2>3. \A r \in Scheduler, u \in Task : heard'[r][u] <= Len(events'[u])
    <3>1. events[t] \in Seq(Announced)
      BY DEF DecidedInv
    <3>. QED  BY <2>1, <3>1 DEF DecidedInv
  <2>. DEFINE w == [Resting EXCEPT !.pc = "getTask", !.task = t]
  <2>4. w \in SchedulerWork /\ w.pc = "getTask" /\ w.task = t
    BY DEF SchedulerWork, Resting
  <2>. HIDE DEF w
  <2>5. Go(s, w) \/ work' = work
    BY <1>1 DEF subscribeToEvents, w
  <2>6. CASE Go(s, w)
    BY <1>0, <2>1, <2>2, <2>3, <2>4, <2>6, WorkKeeps DEF DecidedInv, OnlyDecidedIsScheduled
  <2>7. CASE work' = work
    BY <1>0, <2>1, <2>2, <2>3, <2>7 DEF DecidedInv, OnlyDecidedIsScheduled
  <2>. QED  BY <2>5, <2>6, <2>7
<1>2. ASSUME NEW t \in Task, schedule(s, t)  PROVE DecidedInv'
  <2>. DEFINE w == [Resting EXCEPT !.pc = "getTask", !.task = t]
  <2>1. w \in SchedulerWork /\ w.pc = "getTask" /\ w.task = t
    BY DEF SchedulerWork, Resting
  <2>. HIDE DEF w
  <2>2. Go(s, w) /\ UNCHANGED <<statusOf, nodeId, events, heard, decisions>>
    BY <1>2 DEF schedule, KeepTasks, w
  <2>. QED  BY <1>0, <2>1, <2>2, WorkKeeps DEF DecidedInv, OnlyDecidedIsScheduled
<1>3. ASSUME getTask(s) \/ getNodes(s)  PROVE DecidedInv'
  <2>1. /\ UNCHANGED <<statusOf, nodeId, events, heard, decisions>> /\ work[s].pc \in {"getTask", "getNodes"}
        /\ \/ Go(s, Resting)
           \/ Go(s, [work[s] EXCEPT !.pc = "getNodes"])
           \/ \E n \in Node : Go(s, [work[s] EXCEPT !.pc = "replicate", !.node = n])
    BY <1>3 DEF getTask, getNodes, KeepTasks, DecidedInv
  <2>2. PICK w \in SchedulerWork : /\ Go(s, w) /\ w.pc \in {"idle", "getNodes", "replicate"}
                                   /\ w.pc # "idle" => w.task = work[s].task
                                   /\ w.pc = "replicate" => w.node \in Node
    <3>1. /\ [work[s] EXCEPT !.pc = "getNodes"] \in SchedulerWork
          /\ [work[s] EXCEPT !.pc = "getNodes"].pc = "getNodes"
          /\ [work[s] EXCEPT !.pc = "getNodes"].task = work[s].task
      BY <1>0 DEF SchedulerWork
    <3>2. ASSUME NEW n \in Node, NEW w, w = [work[s] EXCEPT !.pc = "replicate", !.node = n]
          PROVE  w \in SchedulerWork /\ w.pc = "replicate" /\ w.node = n /\ w.task = work[s].task
      BY <1>0, <3>2 DEF SchedulerWork
    <3>3. CASE Go(s, Resting)
      BY <1>0, <3>3
    <3>4. CASE Go(s, [work[s] EXCEPT !.pc = "getNodes"])
      BY <3>1, <3>4
    <3>5. ASSUME NEW n \in Node, Go(s, [work[s] EXCEPT !.pc = "replicate", !.node = n])
          PROVE  \E w \in SchedulerWork : /\ Go(s, w) /\ w.pc \in {"idle", "getNodes", "replicate"}
                                          /\ w.pc # "idle" => w.task = work[s].task
                                          /\ w.pc = "replicate" => w.node \in Node
      <4>. DEFINE w == [work[s] EXCEPT !.pc = "replicate", !.node = n]
      <4>1. w \in SchedulerWork /\ w.pc = "replicate" /\ w.node = n /\ w.task = work[s].task
        BY <3>2
      <4>2. Go(s, w)
        BY <3>5
      <4>. HIDE DEF w
      <4>. QED  BY <4>1, <4>2
    <3>. QED  BY <2>1, <3>3, <3>4, <3>5
  <2>. QED  BY <1>0, <2>1, <2>2, WorkKeeps DEF DecidedInv, OnlyDecidedIsScheduled
<1>4. CASE replicate(s)
  <2>. DEFINE w == [work[s] EXCEPT !.pc = "post"]
  <2>1. w \in SchedulerWork /\ w.pc = "post" /\ w.node = work[s].node /\ w.task = work[s].task
    BY <1>0 DEF SchedulerWork
  <2>. HIDE DEF w
  <2>2. /\ UNCHANGED <<statusOf, nodeId, events, heard>>
        /\ work[s].task \in Task /\ work[s].node \in Node
        /\ \/ decisions' = decisions \cup {<<work[s].task, work[s].node>>} /\ Go(s, w)
           \/ decisions' = decisions \cup {<<work[s].task, work[s].node>>} /\ Go(s, Resting)
           \/ decisions' = decisions /\ Go(s, Resting)
    BY <1>4 DEF replicate, KeepTasks, DecidedInv, w
  <2>3. decisions' \subseteq Task \X Node /\ decisions \subseteq decisions'
    BY <2>2 DEF DecidedInv
  <2>4. /\ work' \in [Scheduler -> SchedulerWork]
        /\ \A r \in Scheduler :
              /\ work'[r].pc # "idle" => work'[r].task \in Task
              /\ work'[r].pc = "replicate" => work'[r].node \in Node
              /\ work'[r].pc = "post" => <<work'[r].task, work'[r].node>> \in decisions'
    <3>1. CASE Go(s, w) /\ decisions' = decisions \cup {<<work[s].task, work[s].node>>}
      BY <3>1, <2>1, <2>2, WorkKeeps
    <3>2. CASE Go(s, Resting)
      BY <3>2, <1>0, <2>3, WorkKeeps
    <3>. QED  BY <2>2, <3>1, <3>2
  <2>5. OnlyDecidedIsScheduled'
    BY <2>2, <2>3 DEF DecidedInv, OnlyDecidedIsScheduled
  <2>. QED  BY <1>0, <2>2, <2>3, <2>4, <2>5 DEF DecidedInv
<1>5. CASE post(s)
  <2>. DEFINE w == [work[s] EXCEPT !.pc = "publish"]
              t == work[s].task
  <2>1. w \in SchedulerWork /\ w.pc = "publish" /\ w.task = t
    BY <1>0 DEF SchedulerWork
  <2>2. /\ t \in Task /\ <<t, work[s].node>> \in decisions /\ work[s].node \in Node \cup {NoNode}
    BY <1>0, <1>5 DEF post, DecidedInv, SchedulerWork
  <2>3. /\ Go(s, w) /\ UNCHANGED <<events, heard, decisions>>
        /\ statusOf' = [statusOf EXCEPT ![t] = "SCHEDULED"]
        /\ nodeId' = [nodeId EXCEPT ![t] = work[s].node]
    BY <1>5 DEF post, updateStatus
  <2>. HIDE DEF w, t
  <2>4. OnlyDecidedIsScheduled'
    BY <2>2, <2>3 DEF DecidedInv, OnlyDecidedIsScheduled
  <2>5. statusOf' \in [Task -> Statuses \cup {"none"}] /\ nodeId' \in [Task -> Node \cup {NoNode}]
    BY <2>2, <2>3 DEF DecidedInv, Statuses
  <2>. QED  BY <1>0, <2>1, <2>2, <2>3, <2>4, <2>5, WorkKeeps DEF DecidedInv
<1>6. CASE publishScheduled(s)
  <2>1. /\ work[s].task \in Task /\ Go(s, Resting) /\ UNCHANGED <<statusOf, nodeId, heard, decisions>>
        /\ events' = [events EXCEPT ![work[s].task] = Append(events[work[s].task], "TaskScheduled")]
    BY <1>6 DEF publishScheduled, KeepTasks, DecidedInv
  <2>2. /\ events' \in [Task -> Seq(Announced)] /\ heard' \in [Scheduler -> [Task -> Nat]]
        /\ \A r \in Scheduler, u \in Task : heard'[r][u] <= Len(events'[u])
    <3>1. "TaskScheduled" \in Announced
      BY DEF Announced
    <3>. QED  BY <2>1, <3>1, EventKeeps
  <2>. QED  BY <1>0, <2>1, <2>2, WorkKeeps DEF DecidedInv, OnlyDecidedIsScheduled
<1>. QED  BY <1>1, <1>2, <1>3, <1>4, <1>5, <1>6

LEMMA DecidedKeeps == DecidedInv /\ [ServicesNext]_servicesVars => DecidedInv'
<1>. SUFFICES ASSUME DecidedInv, [ServicesNext]_servicesVars  PROVE DecidedInv'
  OBVIOUS
<1>1. CASE UNCHANGED servicesVars
  BY <1>1 DEF servicesVars, DecidedInv, OnlyDecidedIsScheduled
<1>2. ASSUME NEW s \in Scheduler, becameLeader(s)  PROVE DecidedInv'
  BY <1>2 DEF becameLeader, Schedulers, DecidedInv, OnlyDecidedIsScheduled
<1>3. ASSUME NEW n \in Node, heartbeat(n)  PROVE DecidedInv'
  BY <1>3 DEF heartbeat, Schedulers, DecidedInv, OnlyDecidedIsScheduled
<1>. QED  BY <1>1, <1>2, <1>3, TaskServiceKeeps, SchedulersKeep DEF ServicesNext

\* The table knows no node for a task that the log does not, whichever schedulers hold
\* themselves for the leader (scheduler-service/src/index.ts:134-145), for any tasks, nodes,
\* schedulers and requests.
THEOREM ScheduledIsDecided ==
    ServicesSpec => []ServicesTypeOK /\ []OnlyDecidedIsScheduled
<1>1. DecidedInv => ServicesTypeOK /\ OnlyDecidedIsScheduled
  BY DEF DecidedInv, ServicesTypeOK
<1>. QED  BY <1>1, DecidedBegins, DecidedKeeps, PTL DEF ServicesSpec

-----------------------------------------------------------------------------
\* Accounts, sessions and keys

Session == [id : 1..issued, token : 1..issued, refreshToken : 1..issued]

\* A refresh token is that of one session, and is none that was replaced.
AccountsInv ==
    /\ users \subseteq [email : Email, by : Register] /\ issued \in 0..MaxTokens
    /\ DOMAIN registers = Register
    /\ \A r \in Register : /\ DOMAIN registers[r] = {"pc", "email"}
                           /\ registers[r].pc = "hashing" => registers[r].email \in Email
    /\ OneAccountPerEmail

SessionsInv ==
    /\ issued \in 0..MaxTokens
    /\ sessions \subseteq Session /\ replaced \subseteq 1..issued
    /\ \A s, v \in sessions : s.id = v.id \/ s.refreshToken = v.refreshToken => s = v
    /\ \A s \in sessions : s.refreshToken \notin replaced
    /\ refreshes \in [Refresh -> [pc : {"idle", "refused", "found", "done", "failed"}, session : Nat, late : BOOLEAN]]
    /\ ReplacedTokenIsRefused

KeyInv ==
    /\ key \in {"none", "live", "expired", "deleted"}
    /\ keyUses \in [KeyUse -> [pc : {"idle", "found", "refused", "in"}, late : BOOLEAN]]
    /\ DeletedKeyLetsNobodyIn

LEMMA AuthBegins ==
    ASSUME MaxTokens \in Nat, AuthInit
    PROVE  AccountsInv /\ SessionsInv /\ KeyInv
<1>1. AccountsInv
  <2>. DEFINE k == [pc |-> "idle", email |-> ""]
  <2>1. DOMAIN k = {"pc", "email"} /\ k.pc = "idle"
    OBVIOUS
  <2>2. registers = [r \in Register |-> k] /\ users = {} /\ issued = 0
    BY DEF AuthInit
  <2>. HIDE DEF k
  <2>3. \A r \in Register : registers[r] = k
    BY <2>2
  <2>4. DOMAIN registers = Register
    BY <2>2
  <2>. QED  BY <2>1, <2>2, <2>3, <2>4 DEF AccountsInv, OneAccountPerEmail
<1>2. SessionsInv
  <2>1. [pc |-> "idle", session |-> 0, late |-> FALSE] \in
            [pc : {"idle", "refused", "found", "done", "failed"}, session : Nat, late : BOOLEAN]
    OBVIOUS
  <2>. DEFINE Refreshed == [pc : {"idle", "refused", "found", "done", "failed"}, session : Nat, late : BOOLEAN]
              k == [pc |-> "idle", session |-> 0, late |-> FALSE]
  <2>2. k \in Refreshed /\ k.late = FALSE /\ k.pc = "idle"
    BY <2>1
  <2>3. refreshes = [r \in Refresh |-> k] /\ sessions = {} /\ replaced = {} /\ issued = 0
    BY DEF AuthInit
  <2>. HIDE DEF Refreshed, k
  <2>4. refreshes \in [Refresh -> Refreshed] /\ ReplacedTokenIsRefused
    BY <2>2, <2>3 DEF ReplacedTokenIsRefused
  <2>5. issued \in 0..MaxTokens /\ sessions \subseteq Session /\ replaced \subseteq 1..issued
    BY <2>3
  <2>6. refreshes \in [Refresh -> [pc : {"idle", "refused", "found", "done", "failed"}, session : Nat, late : BOOLEAN]]
    BY <2>4 DEF Refreshed
  <2>. QED  BY <2>3, <2>4, <2>5, <2>6 DEF SessionsInv
<1>3. KeyInv
  <2>1. [pc |-> "idle", late |-> FALSE] \in [pc : {"idle", "found", "refused", "in"}, late : BOOLEAN]
    OBVIOUS
  <2>. DEFINE Used == [pc : {"idle", "found", "refused", "in"}, late : BOOLEAN]
              k == [pc |-> "idle", late |-> FALSE]
  <2>2. k \in Used /\ k.late = FALSE /\ k.pc = "idle"
    BY <2>1
  <2>3. keyUses = [u \in KeyUse |-> k] /\ key = "none"
    BY DEF AuthInit
  <2>. HIDE DEF Used, k
  <2>4. keyUses \in [KeyUse -> Used] /\ DeletedKeyLetsNobodyIn
    BY <2>2, <2>3 DEF DeletedKeyLetsNobodyIn
  <2>5. keyUses \in [KeyUse -> [pc : {"idle", "found", "refused", "in"}, late : BOOLEAN]]
    BY <2>4 DEF Used
  <2>. QED  BY <2>3, <2>4, <2>5 DEF KeyInv
<1>. QED  BY <1>1, <1>2, <1>3

\* The unique column decides between calls that both found an address free.
LEMMA AccountsKeep ==
    ASSUME AccountsInv, NEW r \in Register, createUser(r) \/ \E e \in Email : register(r, e)
    PROVE  AccountsInv'
<1>1. UNCHANGED issued
  BY DEF createUser, register, KeepSessions
<1>2. CASE createUser(r)
  <2>. DEFINE e == registers[r].email
              u == [email |-> e, by |-> r]
  <2>1. e \in Email /\ u \in [email : Email, by : Register] /\ u.email = e
    BY <1>2 DEF createUser, AccountsInv
  <2>2. \/ users' = users
        \/ (\A v \in users : v.email # e) /\ users' = users \cup {u}
    BY <1>2 DEF createUser
  <2>3. \E pc \in {"created", "failed"} : registers' = [registers EXCEPT ![r].pc = pc]
    BY <1>2 DEF createUser
  <2>. HIDE DEF u, e
  <2>4. OneAccountPerEmail'
    BY <2>1, <2>2 DEF AccountsInv, OneAccountPerEmail
  <2>. QED  BY <1>1, <2>1, <2>2, <2>3, <2>4 DEF AccountsInv
<1>3. ASSUME NEW e \in Email, register(r, e)  PROVE AccountsInv'
  <2>1. /\ users' = users
        /\ \E pc \in {"taken", "hashing"} : registers' = [registers EXCEPT ![r] = [pc |-> pc, email |-> e]]
    BY <1>3 DEF register
  <2>. QED  BY <1>1, <2>1 DEF AccountsInv, OneAccountPerEmail
<1>. QED  BY <1>2, <1>3

\* A login and a refresh make tokens that no session has had.
LEMMA SessionsKeep ==
    ASSUME MaxTokens \in Nat, SessionsInv,
           login \/ (\E t \in 1..issued : logout(t))
           \/ \E r \in Refresh : rotate(r) \/ \E t \in 1..issued : refresh(r, t)
    PROVE  SessionsInv'
<1>. DEFINE Refreshed == [pc : {"idle", "refused", "found", "done", "failed"}, session : Nat, late : BOOLEAN]
<1>0. issued \in Nat /\ \A s \in sessions : /\ s = [id |-> s.id, token |-> s.token, refreshToken |-> s.refreshToken]
                                            /\ s.id \in 1..issued /\ s.token \in 1..issued /\ s.refreshToken \in 1..issued
  BY DEF SessionsInv, Session
<1>1. CASE login
  <2>. DEFINE n == [id |-> issued + 1, token |-> issued + 1, refreshToken |-> issued + 1]
  <2>1. /\ issued < MaxTokens /\ issued' = issued + 1
        /\ sessions' = sessions \cup {n} /\ UNCHANGED <<replaced, refreshes>>
    BY <1>1 DEF login
  <2>2. n.id = issued + 1 /\ n.refreshToken = issued + 1 /\ n.token = issued + 1
    OBVIOUS
  <2>3. n \in Session'
    BY <1>0, <2>1 DEF Session
  <2>4. sessions \subseteq Session'
    BY <1>0, <2>1 DEF Session
  <2>. HIDE DEF n
  <2>5. \A s, v \in sessions' : s.id = v.id \/ s.refreshToken = v.refreshToken => s = v
    BY <1>0, <2>1, <2>2 DEF SessionsInv
  <2>6. issued' \in 0..MaxTokens /\ replaced \subseteq 1..issued'
    BY <1>0, <2>1 DEF SessionsInv
  <2>7. \A s \in sessions' : s.refreshToken \notin replaced
    BY <1>0, <2>1, <2>2 DEF SessionsInv
  <2>. QED  BY <2>1, <2>3, <2>4, <2>5, <2>6, <2>7 DEF SessionsInv, ReplacedTokenIsRefused
<1>2. ASSUME NEW t \in 1..issued, logout(t)  PROVE SessionsInv'
  BY <1>2 DEF logout, SessionsInv, Session, ReplacedTokenIsRefused
<1>3. ASSUME NEW r \in Refresh, NEW t \in 1..issued, refresh(r, t)  PROVE SessionsInv'
  <2>. DEFINE found == {s \in sessions : s.refreshToken = t}
              late == t \in replaced
  <2>1. UNCHANGED <<sessions, issued, replaced>>
    BY <1>3 DEF refresh
  <2>2. \/ refreshes' = [refreshes EXCEPT ![r] = [pc |-> "refused", session |-> 0, late |-> late]]
        \/ /\ found # {}
           /\ refreshes' = [refreshes EXCEPT ![r] =
                  [pc |-> "found", session |-> (CHOOSE s \in found : TRUE).id, late |-> late]]
    BY <1>3 DEF refresh
  <2>3. CASE refreshes' = [refreshes EXCEPT ![r] = [pc |-> "refused", session |-> 0, late |-> late]]
    <3>. DEFINE k == [pc |-> "refused", session |-> 0, late |-> late]
    <3>1. k \in Refreshed /\ k.pc = "refused"
      OBVIOUS
    <3>. HIDE DEF k, late, Refreshed
    <3>2. refreshes' \in [Refresh -> Refreshed]
      BY <2>3, <3>1 DEF SessionsInv, k, Refreshed
    <3>3. ReplacedTokenIsRefused'
      BY <2>3, <3>1 DEF SessionsInv, ReplacedTokenIsRefused, k
    <3>. QED  BY <2>1, <3>2, <3>3 DEF SessionsInv, Session, Refreshed
  <2>4. CASE /\ found # {}
             /\ refreshes' = [refreshes EXCEPT ![r] =
                    [pc |-> "found", session |-> (CHOOSE s \in found : TRUE).id, late |-> late]]
    <3>1. (CHOOSE s \in found : TRUE) \in found
      BY <2>4
    <3>2. late = FALSE /\ (CHOOSE s \in found : TRUE).id \in Nat
      BY <3>1, <1>0 DEF SessionsInv
    <3>. DEFINE k == [pc |-> "found", session |-> (CHOOSE s \in found : TRUE).id, late |-> late]
    <3>3. k \in Refreshed /\ k.late = FALSE
      BY <3>2
    <3>. HIDE DEF k, late, Refreshed
    <3>4. refreshes' = [refreshes EXCEPT ![r] = k]
      BY <2>4 DEF k
    <3>5. refreshes' \in [Refresh -> Refreshed]
      BY <3>3, <3>4 DEF SessionsInv, Refreshed
    <3>6. ReplacedTokenIsRefused'
      BY <3>3, <3>4 DEF SessionsInv, ReplacedTokenIsRefused
    <3>. QED  BY <2>1, <3>5, <3>6 DEF SessionsInv, Session, Refreshed
  <2>. QED  BY <2>2, <2>3, <2>4
<1>4. ASSUME NEW r \in Refresh, rotate(r)  PROVE SessionsInv'
  <2>. DEFINE own == {s \in sessions : s.id = refreshes[r].session}
  <2>1. /\ refreshes[r].pc = "found" /\ issued + 2 <= MaxTokens /\ issued' = issued + 2
        /\ sessions' = (sessions \ own) \cup UNION {Rotated(s) : s \in own}
        /\ replaced' = replaced \cup {s.refreshToken : s \in own}
        /\ \E pc \in {"failed", "done"} : refreshes' = [refreshes EXCEPT ![r].pc = pc]
    BY <1>4 DEF rotate
  <2>2. \A s \in sessions' : \/ s \in sessions /\ s \notin own
                             \/ \E o \in own : s = [id |-> o.id, token |-> issued + 1, refreshToken |-> issued + 2]
    BY <2>1 DEF Rotated
  <2>3. sessions' \subseteq Session'
    <3>1. \A s \in sessions : s \in Session'
      BY <1>0, <2>1 DEF Session
    <3>2. \A o \in own : [id |-> o.id, token |-> issued + 1, refreshToken |-> issued + 2] \in Session'
      BY <1>0, <2>1 DEF Session
    <3>. QED  BY <2>2, <3>1, <3>2
  <2>4. \A s, v \in sessions' : s.id = v.id \/ s.refreshToken = v.refreshToken => s = v
    <3>. SUFFICES ASSUME NEW s \in sessions', NEW v \in sessions', s.id = v.id \/ s.refreshToken = v.refreshToken
                  PROVE  s = v
      OBVIOUS
    <3>1. \A o \in own : o \in sessions /\ o.id = refreshes[r].session
      OBVIOUS
    <3>2. \A w \in sessions : w \notin own => w.id # refreshes[r].session
      OBVIOUS
    <3>3. \A o \in own : LET n == [id |-> o.id, token |-> issued + 1, refreshToken |-> issued + 2]
                         IN  n.id = refreshes[r].session /\ n.refreshToken = issued + 2
                             /\ n = [id |-> refreshes[r].session, token |-> issued + 1, refreshToken |-> issued + 2]
      BY <3>1
    <3>4. \A w \in sessions : w.refreshToken # issued + 2
      BY <1>0
    <3>. HIDE DEF own
    <3>. QED  BY <2>2, <3>1, <3>2, <3>3, <3>4 DEF SessionsInv
  <2>5. \A s \in sessions' : s.refreshToken \notin replaced'
    <3>1. \A s \in sessions : s \notin own => s.refreshToken \notin replaced'
      BY <2>1 DEF SessionsInv
    <3>2. \A n \in replaced' : n \in 1..issued
      BY <1>0, <2>1 DEF SessionsInv
    <3>3. issued + 2 \notin replaced'
      BY <1>0, <3>2
    <3>. QED  BY <2>2, <3>1, <3>3
  <2>6. issued' \in 0..MaxTokens /\ replaced' \subseteq 1..issued'
    BY <1>0, <2>1 DEF SessionsInv
  <2>7. PICK pc \in {"failed", "done"} : refreshes' = [refreshes EXCEPT ![r].pc = pc]
    BY <2>1
  <2>. DEFINE k == [refreshes[r] EXCEPT !.pc = pc]
  <2>8. k \in Refreshed /\ k.late = FALSE
    BY <2>1 DEF SessionsInv, ReplacedTokenIsRefused
  <2>9. refreshes' = [refreshes EXCEPT ![r] = k]
    BY <2>7
  <2>. HIDE DEF k
  <2>10. ReplacedTokenIsRefused'
    BY <2>8, <2>9 DEF SessionsInv, ReplacedTokenIsRefused
  <2>11. refreshes' \in [Refresh -> Refreshed]
    BY <2>8, <2>9 DEF SessionsInv
  <2>. QED  BY <2>3, <2>4, <2>5, <2>6, <2>10, <2>11 DEF SessionsInv
<1>. QED  BY <1>1, <1>2, <1>3, <1>4

LEMMA KeyKeeps ==
    ASSUME KeyInv, createKey \/ expireKey \/ deleteKey \/ \E u \in KeyUse : findKey(u) \/ recordUse(u)
    PROVE  KeyInv'
<1>1. CASE createKey \/ expireKey \/ deleteKey
  BY <1>1 DEF createKey, expireKey, deleteKey, KeyInv, DeletedKeyLetsNobodyIn
<1>2. ASSUME NEW u \in KeyUse, findKey(u) \/ recordUse(u)  PROVE KeyInv'
  <2>. DEFINE Use == [pc : {"idle", "found", "refused", "in"}, late : BOOLEAN]
  <2>1. PICK k \in Use : /\ keyUses' = [keyUses EXCEPT ![u] = k] /\ key' = key
                         /\ k.pc = "in" => k.late = FALSE
    <3>0. keyUses[u] \in Use
      BY DEF KeyInv
    <3>1. CASE findKey(u)
      <4>1. PICK pc \in {"found", "refused"} : keyUses' = [keyUses EXCEPT ![u].pc = pc] /\ key' = key
        BY <3>1 DEF findKey
      <4>. DEFINE k == [keyUses[u] EXCEPT !.pc = pc]
      <4>2. k \in Use /\ k.pc # "in"
        BY <3>0
      <4>3. keyUses' = [keyUses EXCEPT ![u] = k]
        BY <4>1
      <4>. HIDE DEF k, Use
      <4>. QED  BY <4>1, <4>2, <4>3
    <3>2. CASE recordUse(u)
      <4>. DEFINE refused == [pc |-> "refused", late |-> TRUE]
                  in == [pc |-> "in", late |-> FALSE]
      <4>1. refused \in Use /\ in \in Use /\ refused.pc # "in" /\ in.late = FALSE
        OBVIOUS
      <4>2. keyUses' = [keyUses EXCEPT ![u] = refused] \/ keyUses' = [keyUses EXCEPT ![u] = in]
        <5>1. CASE key = "deleted"
          BY <3>2, <5>1 DEF recordUse
        <5>2. CASE key # "deleted"
          BY <3>2, <5>2 DEF recordUse
        <5>. QED  BY <5>1, <5>2
      <4>3. key' = key
        BY <3>2 DEF recordUse
      <4>. HIDE DEF refused, in, Use
      <4>. QED  BY <4>1, <4>2, <4>3
    <3>. QED  BY <1>2, <3>1, <3>2
  <2>. QED  BY <2>1 DEF KeyInv, DeletedKeyLetsNobodyIn
<1>. QED  BY <1>1, <1>2

LEMMA AuthKeeps ==
    ASSUME MaxTokens \in Nat
    PROVE  AccountsInv /\ SessionsInv /\ KeyInv /\ [AuthNext]_authVars => (AccountsInv /\ SessionsInv /\ KeyInv)'
<1>. SUFFICES ASSUME AccountsInv, SessionsInv, KeyInv, [AuthNext]_authVars
              PROVE  AccountsInv' /\ SessionsInv' /\ KeyInv'
  OBVIOUS
<1>1. ASSUME UNCHANGED <<sessions, issued, replaced, refreshes>>  PROVE SessionsInv'
  BY <1>1 DEF SessionsInv, Session, ReplacedTokenIsRefused
<1>2. ASSUME UNCHANGED <<key, keyUses>>  PROVE KeyInv'
  BY <1>2 DEF KeyInv, DeletedKeyLetsNobodyIn
<1>3. ASSUME UNCHANGED <<users, registers>>, issued' \in 0..MaxTokens  PROVE AccountsInv'
  BY <1>3 DEF AccountsInv, OneAccountPerEmail
<1>4. CASE UNCHANGED authVars
  BY <1>1, <1>2, <1>3, <1>4 DEF authVars, SessionsInv
<1>5. CASE \E r \in Register : createUser(r) \/ \E e \in Email : register(r, e)
  BY <1>1, <1>2, <1>5, AccountsKeep DEF createUser, register, KeepSessions, KeepKey
<1>6. CASE login \/ (\E t \in 1..issued : logout(t)) \/ \E r \in Refresh : rotate(r) \/ \E t \in 1..issued : refresh(r, t)
  <2>1. SessionsInv'
    BY <1>6, SessionsKeep
  <2>2. UNCHANGED <<users, registers, key, keyUses>>
    BY <1>6 DEF login, logout, rotate, refresh, KeepAccounts, KeepKey
  <2>. QED  BY <1>2, <1>3, <2>1, <2>2 DEF SessionsInv
<1>7. CASE createKey \/ expireKey \/ deleteKey \/ \E u \in KeyUse : findKey(u) \/ recordUse(u)
  <2>1. KeyInv'
    BY <1>7, KeyKeeps
  <2>2. UNCHANGED <<users, registers, sessions, issued, replaced, refreshes>>
    BY <1>7 DEF createKey, expireKey, deleteKey, findKey, recordUse, KeepAccounts, KeepSessions
  <2>. QED  BY <1>1, <1>3, <2>1, <2>2 DEF SessionsInv
<1>. QED  BY <1>4, <1>5, <1>6, <1>7 DEF AuthNext

\* An address has one account though calls find it free together (auth.ts:49-58), a refresh
\* token that was replaced is refused (auth.ts:188-204), and a key that was deleted while a
\* request looked it up does not let it in (plugins/auth.ts:29-43): for any addresses, calls,
\* tokens and requests.
THEOREM AccountsAndTokens ==
    ASSUME MaxTokens \in Nat
    PROVE  AuthSpec => /\ []AuthTypeOK /\ []OneAccountPerEmail
                       /\ []ReplacedTokenIsRefused /\ []DeletedKeyLetsNobodyIn
<1>1. AuthInit => AccountsInv /\ SessionsInv /\ KeyInv
  BY AuthBegins
<1>2. AccountsInv /\ SessionsInv /\ KeyInv =>
        AuthTypeOK /\ OneAccountPerEmail /\ ReplacedTokenIsRefused /\ DeletedKeyLetsNobodyIn
  <2>. SUFFICES ASSUME AccountsInv, SessionsInv, KeyInv  PROVE AuthTypeOK
    BY DEF AccountsInv, SessionsInv, KeyInv
  <2>1. \A s \in sessions : s \in [id : 1..MaxTokens, token : 1..MaxTokens, refreshToken : 1..MaxTokens]
    BY DEF SessionsInv, Session
  <2>. QED  BY <2>1 DEF AccountsInv, SessionsInv, KeyInv, AuthTypeOK
<1>. QED  BY <1>1, <1>2, AuthKeeps, PTL DEF AuthSpec

=============================================================================
