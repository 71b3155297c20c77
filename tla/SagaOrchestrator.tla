-------------------------- MODULE SagaOrchestrator --------------------------
(***************************************************************************)
(* packages/saga/src/saga-orchestrator.ts: one saga, its rows in the       *)
(* database and the processes that execute, compensate and recover it.     *)
(* Sagas share nothing, so one is enough.                                  *)
(*                                                                         *)
(* activeSagas keeps a process from executing the saga twice at a time,    *)
(* and nothing keeps two processes from it.  A run reads the rows once and *)
(* goes by what it read.  What a step returns behind its timeout is        *)
(* dropped.  The contexts, which the steps pass on, are left out: no       *)
(* decision reads them.                                                    *)
(***************************************************************************)
EXTENDS Integers

CONSTANTS
    Process,     \* processes that share the database
    totalSteps,  \* definition.steps.length
    MaxCrashes,  \* bound on crashes
    MaxFaults    \* bound on calls of the database that throw

ASSUME SagaAssumption ==
    /\ totalSteps \in Nat \ {0}
    /\ MaxCrashes \in Nat /\ MaxFaults \in Nat

Index == 0..(totalSteps - 1)

VARIABLES
    status,       \* row of the saga, "NONE" before there is one
    currentStep,
    step,         \* step[k]: status of the row of step k, "NONE" before there is one
    creating,     \* processes in the middle of startSaga()
    runs,         \* runs[p]: executeSaga() in process p
    recovering,   \* processes whose query found the saga incomplete
    done,         \* history: steps that were executed with success, in time
    crashes, faults

rowVars == <<status, currentStep, step>>
bounds == <<crashes, faults>>
vars == <<rowVars, creating, runs, recovering, done, bounds>>

NoRows == [k \in Index |-> "NONE"]

\* rows: what a run keeps of the steps it read, in executeSaga() those that have a row,
\* in handleStepFailure() those that are COMPLETED.
Idle == [pc |-> "idle", step |-> 0, rows |-> {}]

Init ==
    /\ status = "NONE" /\ currentStep = 0 /\ step = NoRows
    /\ creating = {} /\ recovering = {}
    /\ runs = [p \in Process |-> Idle]
    /\ done = {}
    /\ crashes = 0 /\ faults = 0

At(p, pc) == runs[p].pc = pc
Goto(p, r) == runs' = [runs EXCEPT ![p] = r]

\* What executeSaga() does up to its first await, unless the saga is active in p.
Enter(p) == Goto(p, IF At(p, "idle") THEN [Idle EXCEPT !.pc = "find"] ELSE runs[p])

-----------------------------------------------------------------------------
\* startSaga(): the row of the saga, then those of its steps, one await each

startSaga(p) ==
    /\ status = "NONE"
    /\ status' = "STARTED"
    /\ creating' = {p}
    /\ UNCHANGED <<currentStep, step, runs, recovering, done, bounds>>

createStep(p) ==
    /\ p \in creating
    /\ \E k \in Index :
          /\ step[k] = "NONE" /\ \A j \in 0..(k - 1) : step[j] # "NONE"
          /\ step' = [step EXCEPT ![k] = "PENDING"]
          /\ IF k = totalSteps - 1
             THEN creating' = creating \ {p} /\ Enter(p)
             ELSE UNCHANGED <<creating, runs>>
    /\ UNCHANGED <<status, currentStep, recovering, done, bounds>>

-----------------------------------------------------------------------------
\* executeSaga()

Recorded == {k \in Index : step[k] # "NONE"}

\* Mutant: the saga is resumed behind the step it was interrupted in.
mfind(p) ==
    /\ At(p, "find")
    /\ Goto(p, [pc |-> "begin", rows |-> Recorded,
                step |-> IF status = "IN_PROGRESS" /\ currentStep < totalSteps
                         THEN currentStep + 1 ELSE currentStep])
    /\ UNCHANGED <<rowVars, creating, recovering, done, bounds>>

\* findUnique(), with the steps.
find(p) ==
    /\ At(p, "find")
    /\ Goto(p, [pc |-> "begin", step |-> currentStep, rows |-> Recorded])
    /\ UNCHANGED <<rowVars, creating, recovering, done, bounds>>

\* The head of the loop at step k.  A step whose row was not there when the run read
\* them makes it throw, outside the try, which ends the run.
AtStep(r, k) ==
    CASE k = totalSteps -> [r EXCEPT !.pc = "finish", !.step = k]
      [] k \in r.rows   -> [r EXCEPT !.pc = "mark", !.step = k]
      [] OTHER          -> Idle

begin(p) ==
    /\ At(p, "begin")
    /\ status' = "IN_PROGRESS"
    /\ Goto(p, AtStep(runs[p], runs[p].step))
    /\ UNCHANGED <<currentStep, step, creating, recovering, done, bounds>>

Mark(p, from, s, r) ==
    /\ At(p, from)
    /\ step' = [step EXCEPT ![runs[p].step] = s]
    /\ Goto(p, r)
    /\ UNCHANGED <<status, currentStep, creating, recovering, done, bounds>>

markInProgress(p) == Mark(p, "mark", "IN_PROGRESS", [runs[p] EXCEPT !.pc = "execute"])

\* Mutant: the timeout resolves the promise instead of rejecting it.
mexecute(p) ==
    /\ At(p, "execute")
    /\ \E in \in {done, done \cup {runs[p].step}} : done' = in
    /\ Goto(p, [runs[p] EXCEPT !.pc = "complete"])
    /\ UNCHANGED <<rowVars, creating, recovering, bounds>>

\* executeStepWithTimeout(): the step succeeds, or it fails or takes too long.
execute(p) ==
    /\ At(p, "execute")
    /\ \/ /\ done' = done \cup {runs[p].step}
          /\ Goto(p, [runs[p] EXCEPT !.pc = "complete"])
       \/ /\ Goto(p, [runs[p] EXCEPT !.pc = "failing"])
          /\ UNCHANGED done
    /\ UNCHANGED <<rowVars, creating, recovering, bounds>>

markCompleted(p) == Mark(p, "complete", "COMPLETED", [runs[p] EXCEPT !.pc = "advance"])

advance(p) ==
    /\ At(p, "advance")
    /\ currentStep' = runs[p].step + 1
    /\ Goto(p, AtStep(runs[p], runs[p].step + 1))
    /\ UNCHANGED <<status, step, creating, recovering, done, bounds>>

finish(p) ==
    /\ At(p, "finish")
    /\ status' = "COMPLETED"
    /\ Goto(p, Idle)
    /\ UNCHANGED <<currentStep, step, creating, recovering, done, bounds>>

-----------------------------------------------------------------------------
\* handleStepFailure()

startCompensation(p) ==
    /\ At(p, "failing")
    /\ status' = "COMPENSATING"
    /\ Goto(p, [runs[p] EXCEPT !.pc = "reload"])
    /\ UNCHANGED <<currentStep, step, creating, recovering, done, bounds>>

Finished == {k \in Index : step[k] = "COMPLETED"}

reload(p) ==
    /\ At(p, "reload")
    /\ Goto(p, [runs[p] EXCEPT !.pc = "fail", !.rows = Finished])
    /\ UNCHANGED <<rowVars, creating, recovering, done, bounds>>

\* The loop goes on, downwards, with the steps before r.step that are to be compensated.
BeforeStep(r) ==
    LET left == {k \in r.rows : k < r.step}
    IN  IF left = {}
        THEN [r EXCEPT !.pc = "count"]
        ELSE [r EXCEPT !.pc = "compensate",
                       !.step = CHOOSE k \in left : \A j \in left : j <= k]

markFailed(p) == Mark(p, "fail", "FAILED", BeforeStep(runs[p]))

compensate(p) ==
    /\ At(p, "compensate")
    /\ \E pc \in {"compensated", "stuck"} : Goto(p, [runs[p] EXCEPT !.pc = pc])
    /\ UNCHANGED <<rowVars, creating, recovering, done, bounds>>

markCompensated(p) == Mark(p, "compensated", "COMPENSATED", BeforeStep(runs[p]))
markStuck(p) == Mark(p, "stuck", "FAILED", BeforeStep(runs[p]))

\* The count takes in the step that failed, and not only compensations.
countFailed(p) ==
    /\ At(p, "count")
    /\ Goto(p, [runs[p] EXCEPT !.pc =
                   IF \E k \in Index : step[k] = "FAILED" THEN "FAILED" ELSE "COMPENSATED"])
    /\ UNCHANGED <<rowVars, creating, recovering, done, bounds>>

close(p) ==
    /\ runs[p].pc \in {"FAILED", "COMPENSATED"}
    /\ status' = runs[p].pc
    /\ Goto(p, Idle)
    /\ UNCHANGED <<currentStep, step, creating, recovering, done, bounds>>

-----------------------------------------------------------------------------
\* Recovery, failing calls and crashes

\* Mutant: only sagas that are IN_PROGRESS are recovered.
mincomplete == status = "IN_PROGRESS"

incomplete == status \in {"STARTED", "IN_PROGRESS"}

\* recoverIncompleteSagas(): the query, and what is done with its answer.
findIncomplete(p) ==
    /\ p \notin recovering
    /\ incomplete
    /\ recovering' = recovering \cup {p}
    /\ UNCHANGED <<rowVars, creating, runs, done, bounds>>

recover(p) ==
    /\ p \in recovering
    /\ recovering' = recovering \ {p}
    /\ Enter(p)
    /\ UNCHANGED <<rowVars, creating, done, bounds>>

\* A call of the database throws.  In the try of a step that makes the step fail, in
\* that of a compensation it makes the compensation fail, elsewhere it ends the run.
throws(p) ==
    /\ faults < MaxFaults
    /\ faults' = faults + 1
    /\ \/ p \in creating /\ creating' = creating \ {p} /\ UNCHANGED runs
       \/ /\ runs[p].pc \notin {"idle", "execute", "compensate"}
          /\ Goto(p, CASE runs[p].pc \in {"complete", "advance"} -> [runs[p] EXCEPT !.pc = "failing"]
                       [] At(p, "compensated") -> [runs[p] EXCEPT !.pc = "stuck"]
                       [] OTHER -> Idle)
          /\ UNCHANGED creating
    /\ UNCHANGED <<rowVars, recovering, done, crashes>>

\* p ends and starts again.
crash(p) ==
    /\ crashes < MaxCrashes
    /\ crashes' = crashes + 1
    /\ Goto(p, Idle)
    /\ creating' = creating \ {p}
    /\ recovering' = recovering \ {p}
    /\ UNCHANGED <<rowVars, done, faults>>

Run(p) ==
    \/ createStep(p) \/ find(p) \/ begin(p) \/ markInProgress(p) \/ execute(p)
    \/ markCompleted(p) \/ advance(p) \/ finish(p) \/ startCompensation(p) \/ reload(p)
    \/ markFailed(p) \/ compensate(p) \/ markCompensated(p) \/ markStuck(p)
    \/ countFailed(p) \/ close(p)

Next ==
    \E p \in Process :
        startSaga(p) \/ Run(p) \/ findIncomplete(p) \/ recover(p) \/ throws(p) \/ crash(p)

Spec == Init /\ [][Next]_vars

\* Runs go on, steps return or time out, compensations return, and the interval of the
\* recovery fires.
SagaFairness ==
    \A p \in Process : WF_vars(Run(p)) /\ WF_vars(findIncomplete(p)) /\ WF_vars(recover(p))

FairSpec == Spec /\ SagaFairness

-----------------------------------------------------------------------------
\* Properties

StepStatus == {"NONE", "PENDING", "IN_PROGRESS", "COMPLETED", "FAILED", "COMPENSATED"}

TypeOK ==
    /\ status \in {"NONE", "STARTED", "IN_PROGRESS", "COMPLETED", "COMPENSATING",
                   "COMPENSATED", "FAILED"}
    /\ currentStep \in 0..totalSteps
    /\ step \in [Index -> StepStatus]
    /\ creating \in SUBSET Process /\ recovering \in SUBSET Process
    /\ runs \in [Process -> [pc : {"idle", "find", "begin", "mark", "execute", "complete",
                                   "advance", "finish", "failing", "reload", "fail", "compensate",
                                   "compensated", "stuck", "count", "FAILED", "COMPENSATED"},
                             step : 0..totalSteps, rows : SUBSET Index]]
    /\ \A p \in Process :
          runs[p].pc \in {"mark", "execute", "complete", "advance", "failing", "reload", "fail",
                          "compensate", "compensated", "stuck"} => runs[p].step \in Index
    /\ done \in SUBSET Index
    /\ crashes \in 0..MaxCrashes /\ faults \in 0..MaxFaults

\* The progress a saga has recorded was made: every step before currentStep was executed
\* with success, and all of them once it is COMPLETED, although two processes
\* may execute it, overwrite each other's progress and end anywhere.
ProgressIsDone ==
    /\ \A k \in Index : k < currentStep => k \in done
    /\ status = "COMPLETED" => done = Index

\* Nothing is compensated that was not done: handleStepFailure() goes by the status that
\* a step had when the rows were read again, whoever wrote it.
CompensatedWasDone ==
    /\ \A k \in Index : step[k] = "COMPENSATED" => k \in done
    /\ \A p \in Process : At(p, "compensate") => runs[p].step \in done

Open == status \in {"STARTED", "IN_PROGRESS"}

\* A saga whose steps are all recorded does not stay STARTED or IN_PROGRESS, whoever
\* crashes and whatever calls fail while it is executed.
SagaEnds == (Open /\ \A k \in Index : step[k] # "NONE") ~> ~Open

=============================================================================
