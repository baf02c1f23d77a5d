----------------------------- MODULE WorkflowEngine -----------------------------
(***************************************************************************)
(* One run of one workflow: Engine.StartWorkflow, executeWorkflow and its   *)
(* helpers (engine/engine.go), the goroutines that execute the steps        *)
(* (engine/executor.go), Engine.Cancel called by any number of clients, and *)
(* the store all of them write to.                                          *)
(*                                                                          *)
(* The workflow is a constant: what ComputeLevels returns for a validated   *)
(* graph (graph.go) is a level for every step, and Previous[s] is the       *)
(* Previous slice of s in the order of the AddEdge calls.                   *)
(*                                                                          *)
(* Every store call is one atomic step.  It fails when the store honours    *)
(* its context and that context is cancelled, or when the store has a       *)
(* fault; MaxFaults bounds the faults of a run.                             *)
(***************************************************************************)
EXTENDS Integers, Sequences, FiniteSets

CONSTANTS
  Steps,            \* the steps of the workflow
  Depth,            \* number of execution levels
  LevelOf,          \* LevelOf[s] \in 1 .. Depth
  Previous,         \* Previous[s]: the predecessors of s, a sequence
  ContinueOnError,  \* steps configured with ContinueOnError
  MaxRetries,       \* MaxRetries[s]: retries after the first attempt
  Cancellers,       \* clients that may call Engine.Cancel, once each
  Synchronous,      \* StartOptions.Synchronous
  ListsRuns,        \* clients may learn the run's ID from ListRuns
  StoreHonoursCtx,  \* TRUE for LibSQL and Postgres, FALSE for memory
  MaxFaults,        \* store calls that may fail for no reason of ours
  MayCrash,         \* the process that executes the run may die
  RunInput, NullInput, NoValue

ASSUME StepsAssumption == IsFiniteSet(Steps)

ASSUME LevelsAssumption ==
  /\ Depth \in Nat \ {0}
  /\ LevelOf \in [Steps -> 1 .. Depth]
  /\ \A i \in 1 .. Depth : \E s \in Steps : LevelOf[s] = i

ASSUME PreviousAssumption ==
  /\ Previous \in [Steps -> Seq(Steps)]
  /\ \A s \in Steps : \A k \in 1 .. Len(Previous[s]) :
       LevelOf[Previous[s][k]] < LevelOf[s]

ASSUME ConfigAssumption ==
  /\ ContinueOnError \subseteq Steps
  /\ MaxRetries \in [Steps -> Nat]
  /\ MaxFaults \in Nat
  /\ {Synchronous, ListsRuns, StoreHonoursCtx, MayCrash} \subseteq BOOLEAN

ASSUME ValuesAssumption ==
  /\ {RunInput, NullInput, NoValue} \cap Steps = {}
  /\ NoValue \notin {RunInput, NullInput}

VARIABLES
  \* executeWorkflow
  pc,         \* where the executor of the run is
  run,        \* the executor's WorkflowRun
  level,      \* the level being executed
  completed,  \* completedSteps
  toLaunch,   \* steps of a parallel level not yet launched
  results,    \* resultsCh: steps whose result was sent
  received,   \* results taken from resultsCh in this level
  fatal,      \* fatalErr # nil
  err,        \* executeWorkflow returned an error
  \* executeStep, one per step
  job,        \* where executeStep of a step is
  attempt,    \* attempt, the loop counter
  input,      \* inputBytes: the step whose output it is, or a special value
  index,      \* executionIndex
  outcome,    \* what executeStep has to report
  calls,      \* history: how often the handler was entered
  late,       \* history: how often it was entered with the context cancelled
  \* the engine's registry and the run's context
  active,     \* activeRuns holds the run
  ctxDone,    \* the context of the run is cancelled
  \* the store
  dbRun,      \* the persisted run
  dbStep,     \* status of the persisted step executions
  saved,      \* steps whose output is stored
  faults,     \* faults the store may still have
  \* Engine.Cancel
  cpc,        \* where each client is
  copy        \* the run it read

engineVars == <<pc, run, level, completed, toLaunch, results, received, fatal, err>>
stepVars == <<job, attempt, input, index, outcome, calls, late>>
ctxVars == <<active, ctxDone>>
storeVars == <<dbRun, dbStep, saved, faults>>
clientVars == <<cpc, copy>>
vars == <<engineVars, stepVars, ctxVars, storeVars, clientVars>>

-----------------------------------------------------------------------------
Total == Cardinality(Steps)

Level(i) == {s \in Steps : LevelOf[s] = i}

RunStatus == {"PENDING", "RUNNING", "COMPLETED", "FAILED", "CANCELLED"}
TerminalRun == {"COMPLETED", "FAILED", "CANCELLED"}
StepStatus == {"PENDING", "RUNNING", "RETRYING", "COMPLETED", "FAILED", "SKIPPED"}
TerminalStep == {"COMPLETED", "FAILED", "SKIPPED"}

Run == [status : RunStatus \cup {"ABSENT"}, progress : 0 .. Total,
        output : Steps \cup {NoValue}]
Inputs == Steps \cup {RunInput, NullInput, NoValue}
NewRun == [status |-> "PENDING", progress |-> 0, output |-> NoValue]
NoRun == [NewRun EXCEPT !.status = "ABSENT"]

\* "rejected" is the nil result of a step that never had an execution record:
\* its input could not be resolved or the record could not be created.
Outcomes == {"none", "ok", "skip", "failed", "rejected"}
Failed(s) == outcome[s] \in {"failed", "rejected"}

\* Mutants of Fatal: the step's configuration is ignored; only a step without
\* a result counts.
FatalAlways(s) == Failed(s)
FatalRejected(s) == outcome[s] = "rejected" /\ s \notin ContinueOnError
\* A failure of s ends the run.
Fatal(s) == Failed(s) /\ s \notin ContinueOnError

\* One store call made with a context that is done or not.
StoreCall(done, ok) ==
  \/ ok /\ ~(StoreHonoursCtx /\ done) /\ UNCHANGED faults
  \/ ~ok /\ StoreHonoursCtx /\ done /\ UNCHANGED faults
  \/ ~ok /\ faults > 0 /\ faults' = faults - 1

\* Mutant: the run is silently not written once the context is cancelled.
PersistRunIfLive(r, ok) ==
  /\ ok /\ UNCHANGED faults
  /\ dbRun' = IF ctxDone THEN dbRun ELSE r
\* CreateRun or UpdateRun with the run r.
PersistRun(r, ok) ==
  /\ StoreCall(ctxDone, ok)
  /\ dbRun' = IF ok THEN r ELSE dbRun

\* UpdateStepExecution, best-effort wherever executeStep calls it.
PersistStep(s, status) ==
  \E ok \in BOOLEAN :
    /\ StoreCall(ctxDone, ok)
    /\ dbStep' = IF ok THEN [dbStep EXCEPT ![s] = status] ELSE dbStep

-----------------------------------------------------------------------------
Init ==
  /\ pc = "create" /\ run = NewRun /\ level = 1 /\ completed = 0
  /\ toLaunch = {} /\ results = <<>> /\ received = 0
  /\ fatal = FALSE /\ err = FALSE
  /\ job = [s \in Steps |-> "idle"]
  /\ attempt = [s \in Steps |-> 0]
  /\ input = [s \in Steps |-> NoValue]
  /\ index = [s \in Steps |-> 0]
  /\ outcome = [s \in Steps |-> "none"]
  /\ calls = [s \in Steps |-> 0]
  /\ late = [s \in Steps |-> 0]
  /\ active = FALSE /\ ctxDone = FALSE
  /\ dbRun = NoRun
  /\ dbStep = [s \in Steps |-> "ABSENT"]
  /\ saved = {} /\ faults = MaxFaults
  /\ cpc = [c \in Cancellers |-> "idle"]
  /\ copy = [c \in Cancellers |-> NoRun]

-----------------------------------------------------------------------------
(* StartWorkflow *)

CreateRun ==
  /\ pc = "create"
  /\ \E ok \in BOOLEAN :
       /\ PersistRun(run, ok)
       /\ pc' = IF ~ok THEN "rejected" ELSE IF Synchronous THEN "begin" ELSE "register"
  /\ UNCHANGED <<run, level, completed, toLaunch, results, received, fatal, err,
                 stepVars, ctxVars, dbStep, saved, clientVars>>

\* Mutant: the goroutine is launched without entering the run in activeRuns.
RegisterNothing ==
  /\ pc = "register"
  /\ pc' = "begin"
  /\ UNCHANGED <<run, level, completed, toLaunch, results, received, fatal, err,
                 stepVars, ctxVars, storeVars, clientVars>>
\* The background context enters activeRuns and the goroutine is launched.
Register ==
  /\ pc = "register"
  /\ active' = TRUE
  /\ pc' = "begin"
  /\ UNCHANGED <<run, level, completed, toLaunch, results, received, fatal, err,
                 stepVars, ctxDone, storeVars, clientVars>>

(* executeWorkflow *)

Begin ==
  /\ pc = "begin"
  /\ run' = [run EXCEPT !.status = "RUNNING"]
  /\ \E ok \in BOOLEAN :
       /\ PersistRun(run', ok)
       /\ pc' = IF ok THEN "level" ELSE "exit"
       /\ err' = ~ok
  /\ UNCHANGED <<level, completed, toLaunch, results, received, fatal,
                 stepVars, ctxVars, dbStep, saved, clientVars>>

\* The head of the loop over the levels.
EnterLevel ==
  /\ pc = "level"
  /\ pc' = IF ctxDone THEN "cancel"
           ELSE IF Cardinality(Level(level)) = 1 THEN "resolve" ELSE "launch"
  /\ toLaunch' = Level(level)
  /\ results' = <<>>
  /\ received' = 0
  /\ fatal' = FALSE
  /\ UNCHANGED <<run, level, completed, err, stepVars, ctxVars, storeVars, clientVars>>

\* Mutant: the most recently added predecessor.
LastPredecessor(s) == Previous[s][Len(Previous[s])]
\* The predecessor whose output becomes the input of s.
FirstPredecessor(s) == Previous[s][1]

\* Mutant: null whatever the predecessor's configuration.
NullFallback(p) == NullInput
\* The input when the output of p cannot be loaded.
Fallback(p) == IF p \in ContinueOnError THEN NullInput ELSE NoValue

\* resolveStepInput yields in; NoValue stands for its error.
ResolveStepInput(s, isFirst, in) ==
  IF isFirst \/ Previous[s] = <<>>
  THEN in = RunInput /\ UNCHANGED faults
  ELSE \E ok \in BOOLEAN :
         /\ StoreCall(ctxDone, ok)
         /\ LET p == FirstPredecessor(s) IN
            in = IF ok /\ p \in saved THEN p ELSE Fallback(p)

\* Mutant: the position among the results of the level.
IndexInLevel == received
\* The ExecutionIndex given to a step.
ExecutionIndex == completed

\* executeStep is called for s with the input in.
Launch(s, in) ==
  /\ job' = [job EXCEPT ![s] = "create"]
  /\ input' = [input EXCEPT ![s] = in]
  /\ index' = [index EXCEPT ![s] = ExecutionIndex]
  /\ UNCHANGED <<attempt, outcome, calls, late>>

\* A level of one step runs in the executor's own goroutine.
RunSingle ==
  /\ pc = "resolve"
  /\ \E s \in Level(level), in \in Inputs :
       /\ ResolveStepInput(s, completed = 0, in)
       /\ IF in = NoValue
          THEN pc' = "fail" /\ UNCHANGED stepVars
          ELSE pc' = "await" /\ Launch(s, in)
  /\ UNCHANGED <<run, level, completed, toLaunch, results, received, fatal, err,
                 ctxVars, dbRun, dbStep, saved, clientVars>>

\* Mutants of WithResult: progress counts one step too many; the first output
\* is kept.
ProgressAhead(s, progress) ==
  [run EXCEPT !.output = IF outcome[s] = "ok" THEN s ELSE @,
              !.progress = progress + 1]
FirstOutputKept(s, progress) ==
  [run EXCEPT !.output = IF outcome[s] = "ok" /\ @ = NoValue THEN s ELSE @,
              !.progress = progress]
\* run.Output and run.Progress after the result of s was taken.
WithResult(s, progress) ==
  [run EXCEPT !.output = IF outcome[s] = "ok" THEN s ELSE @,
              !.progress = progress]

SingleDone ==
  /\ pc = "await"
  /\ \E s \in Level(level) :
       /\ job[s] = "done"
       /\ \/ /\ Failed(s) /\ ctxDone
             /\ pc' = "cancel" /\ UNCHANGED <<run, completed>>
          \/ /\ Fatal(s) /\ ~ctxDone
             /\ pc' = "fail" /\ UNCHANGED <<run, completed>>
          \/ /\ ~Fatal(s) /\ (Failed(s) => ~ctxDone)
             /\ completed' = completed + 1
             /\ run' = WithResult(s, completed')
             /\ pc' = "report"
  /\ UNCHANGED <<level, toLaunch, results, received, fatal, err,
                 stepVars, ctxVars, storeVars, clientVars>>

\* The launch loop of a parallel level: a step whose input cannot be resolved
\* sends its error at once, for the others a goroutine is started.
LaunchParallel ==
  /\ pc = "launch"
  /\ \E s \in toLaunch, in \in Inputs :
       /\ ResolveStepInput(s, FALSE, in)
       /\ IF in = NoValue
          THEN /\ job' = [job EXCEPT ![s] = "done"]
               /\ outcome' = [outcome EXCEPT ![s] = "rejected"]
               /\ results' = Append(results, s)
               /\ UNCHANGED <<attempt, input, index, calls, late>>
          ELSE Launch(s, in) /\ UNCHANGED results
       /\ toLaunch' = toLaunch \ {s}
       /\ pc' = IF toLaunch = {s} THEN "collect" ELSE "launch"
  /\ UNCHANGED <<run, level, completed, received, fatal, err,
                 ctxVars, dbRun, dbStep, saved, clientVars>>

\* Mutant: the loop ends one result early.
OneResultShort(n) == n = Cardinality(Level(level)) - 1
\* The n-th receive is the last one of the level.
LastResult(n) == n = Cardinality(Level(level))

\* One receive of the collecting loop, which runs len(level) times.
Collect ==
  /\ pc = "collect"
  /\ results # <<>>
  /\ LET s == Head(results)
         last == LastResult(received + 1)
     IN /\ results' = Tail(results)
        /\ received' = received + 1
        /\ completed' = completed + 1
        /\ fatal' = (fatal \/ Fatal(s))
        /\ run' = WithResult(s, IF last THEN completed' ELSE run.progress)
        /\ pc' = IF last THEN "report" ELSE "collect"
  /\ UNCHANGED <<level, toLaunch, err, stepVars, ctxVars, storeVars, clientVars>>

\* The best-effort progress update, then the next level.
Report ==
  /\ pc = "report"
  /\ \E ok \in BOOLEAN : PersistRun(run, ok)
  /\ IF fatal
     THEN pc' = "verdict" /\ UNCHANGED level
     ELSE /\ level' = level + 1
          /\ pc' = IF level = Depth THEN "complete" ELSE "level"
  /\ UNCHANGED <<run, completed, toLaunch, results, received, fatal, err,
                 stepVars, ctxVars, dbStep, saved, clientVars>>

Verdict ==
  /\ pc = "verdict"
  /\ pc' = IF ctxDone THEN "cancel" ELSE "fail"
  /\ UNCHANGED <<run, level, completed, toLaunch, results, received, fatal, err,
                 stepVars, ctxVars, storeVars, clientVars>>

\* Mutant: the error of the last UpdateRun is dropped.
FinishUnchecked(at, final) ==
  /\ pc = at
  /\ run' = final
  /\ \E ok \in BOOLEAN : PersistRun(final, ok)
  /\ err' = (at = "fail")
  /\ pc' = "exit"
  /\ UNCHANGED <<level, completed, toLaunch, results, received, fatal,
                 stepVars, ctxVars, dbStep, saved, clientVars>>
\* completeWorkflow, failWorkflow and cancelWorkflow: the run takes its final
\* status and is persisted with the run's own context.
Finish(at, final) ==
  /\ pc = at
  /\ run' = final
  /\ \E ok \in BOOLEAN :
       /\ PersistRun(final, ok)
       /\ err' = (at = "fail" \/ ~ok)
  /\ pc' = "exit"
  /\ UNCHANGED <<level, completed, toLaunch, results, received, fatal,
                 stepVars, ctxVars, dbStep, saved, clientVars>>

CompleteWorkflow ==
  Finish("complete", [run EXCEPT !.status = "COMPLETED", !.progress = Total])
FailWorkflow == Finish("fail", [run EXCEPT !.status = "FAILED"])
CancelWorkflow == Finish("cancel", [run EXCEPT !.status = "CANCELLED"])

\* StartWorkflow returns, or the goroutine's deferred function unregisters
\* the run and cancels its context.
Exit ==
  /\ pc = "exit"
  /\ pc' = "returned"
  /\ IF Synchronous
     THEN UNCHANGED ctxVars
     ELSE active' = FALSE /\ ctxDone' = TRUE
  /\ UNCHANGED <<run, level, completed, toLaunch, results, received, fatal, err,
                 stepVars, storeVars, clientVars>>

-----------------------------------------------------------------------------
(* executeStep *)

CreateExecution(s) ==
  /\ job[s] = "create"
  /\ \E ok \in BOOLEAN :
       /\ StoreCall(ctxDone, ok)
       /\ IF ok
          THEN /\ dbStep' = [dbStep EXCEPT ![s] = "PENDING"]
               /\ job' = [job EXCEPT ![s] = "attempt"]
               /\ UNCHANGED outcome
          ELSE /\ outcome' = [outcome EXCEPT ![s] = "rejected"]
               /\ job' = [job EXCEPT ![s] = "return"]
               /\ UNCHANGED dbStep
  /\ UNCHANGED <<attempt, input, index, calls, late, dbRun, saved>>

\* Mutants of Attempt: the loop does not look at the context; it leaves the
\* function without recording the failure.
AttemptUnchecked(s) ==
  /\ job[s] = "attempt"
  /\ job' = [job EXCEPT ![s] =
       IF attempt[s] > MaxRetries[s] THEN "exhausted"
       ELSE IF attempt[s] > 0 THEN "retrying" ELSE "running"]
  /\ UNCHANGED <<attempt, input, index, outcome, calls, late, storeVars>>
AttemptUnrecorded(s) ==
  /\ job[s] = "attempt"
  /\ job' = [job EXCEPT ![s] =
       IF ctxDone THEN "return"
       ELSE IF attempt[s] > MaxRetries[s] THEN "exhausted"
       ELSE IF attempt[s] > 0 THEN "retrying" ELSE "running"]
  /\ outcome' = IF ctxDone THEN [outcome EXCEPT ![s] = "failed"] ELSE outcome
  /\ UNCHANGED <<attempt, input, index, calls, late, storeVars>>
\* The head of the retry loop; "exhausted" is the label retryExhausted.
Attempt(s) ==
  /\ job[s] = "attempt"
  /\ job' = [job EXCEPT ![s] =
       IF attempt[s] > MaxRetries[s] \/ ctxDone THEN "exhausted"
       ELSE IF attempt[s] > 0 THEN "retrying" ELSE "running"]
  /\ UNCHANGED <<attempt, input, index, outcome, calls, late, storeVars>>

RecordRetrying(s) ==
  /\ job[s] = "retrying"
  /\ PersistStep(s, "RETRYING")
  /\ job' = [job EXCEPT ![s] = "backoff"]
  /\ UNCHANGED <<attempt, input, index, outcome, calls, late, dbRun, saved>>

\* The delay passes, or is zero; or the select sees the cancelled context.
Backoff(s) ==
  /\ job[s] = "backoff"
  /\ \/ job' = [job EXCEPT ![s] = "running"]
     \/ ctxDone /\ job' = [job EXCEPT ![s] = "exhausted"]
  /\ UNCHANGED <<attempt, input, index, outcome, calls, late, storeVars>>

\* The record says RUNNING and the handler is entered.
RecordRunning(s) ==
  /\ job[s] = "running"
  /\ PersistStep(s, "RUNNING")
  /\ job' = [job EXCEPT ![s] = "executing"]
  /\ calls' = [calls EXCEPT ![s] = @ + 1]
  /\ late' = IF ctxDone THEN [late EXCEPT ![s] = @ + 1] ELSE late
  /\ UNCHANGED <<attempt, input, index, outcome, dbRun, saved>>

\* The handler returns: an output, ErrStepSkipped, or an error (its own, a
\* validation error, a recovered panic or a timeout), which is retried.
Execute(s) ==
  /\ job[s] = "executing"
  /\ \/ \E result \in {"ok", "skip"} :
          /\ outcome' = [outcome EXCEPT ![s] = result]
          /\ job' = [job EXCEPT ![s] = "record"]
          /\ UNCHANGED attempt
     \/ /\ attempt' = [attempt EXCEPT ![s] = @ + 1]
        /\ job' = [job EXCEPT ![s] = "attempt"]
        /\ UNCHANGED outcome
  /\ UNCHANGED <<input, index, calls, late, storeVars>>

RecordResult(s) ==
  /\ job[s] = "record"
  /\ PersistStep(s, IF outcome[s] = "ok" THEN "COMPLETED" ELSE "SKIPPED")
  /\ job' = [job EXCEPT ![s] = "save"]
  /\ UNCHANGED <<attempt, input, index, outcome, calls, late, dbRun, saved>>

SaveOutput(s) ==
  /\ job[s] = "save"
  /\ \E ok \in BOOLEAN :
       /\ StoreCall(ctxDone, ok)
       /\ saved' = IF ok THEN saved \cup {s} ELSE saved
  /\ job' = [job EXCEPT ![s] = "return"]
  /\ UNCHANGED <<attempt, input, index, outcome, calls, late, dbRun, dbStep>>

RecordFailure(s) ==
  /\ job[s] = "exhausted"
  /\ PersistStep(s, "FAILED")
  /\ outcome' = [outcome EXCEPT ![s] = "failed"]
  /\ job' = [job EXCEPT ![s] = "return"]
  /\ UNCHANGED <<attempt, input, index, calls, late, dbRun, saved>>

\* executeStep is a part of the executor or of a goroutine of its own.
StepAction(s) ==
  /\ \/ CreateExecution(s) \/ Attempt(s) \/ RecordRetrying(s) \/ Backoff(s)
     \/ RecordRunning(s) \/ Execute(s) \/ RecordResult(s) \/ SaveOutput(s)
     \/ RecordFailure(s)
  /\ UNCHANGED <<engineVars, ctxVars, clientVars>>

\* Mutant: only a step that succeeded sends its result.
ReturnOnSuccess(s) ==
  /\ job[s] = "return"
  /\ job' = [job EXCEPT ![s] = "done"]
  /\ results' = IF Cardinality(Level(level)) = 1 \/ Failed(s)
                THEN results ELSE Append(results, s)
  /\ UNCHANGED <<pc, run, level, completed, toLaunch, received, fatal, err,
                 attempt, input, index, outcome, calls, late,
                 ctxVars, storeVars, clientVars>>
\* executeStep returns; the goroutine of a parallel level sends the result.
Return(s) ==
  /\ job[s] = "return"
  /\ job' = [job EXCEPT ![s] = "done"]
  /\ results' = IF Cardinality(Level(level)) = 1 THEN results ELSE Append(results, s)
  /\ UNCHANGED <<pc, run, level, completed, toLaunch, received, fatal, err,
                 attempt, input, index, outcome, calls, late,
                 ctxVars, storeVars, clientVars>>

-----------------------------------------------------------------------------
(* Engine.Cancel *)

\* A client knows the run's ID once StartWorkflow returned it, or from
\* ListRuns, which is all there is after a restart.
KnowsRun ==
  \/ ListsRuns /\ dbRun.status # "ABSENT"
  \/ IF Synchronous THEN pc \in {"returned", "crashed"}
     ELSE pc \notin {"create", "register", "rejected"}

Finished(c, how) == cpc' = [cpc EXCEPT ![c] = how]

\* Under runsMu: signal the run's goroutine if there is one.
CancelSignal(c) ==
  /\ cpc[c] = "idle"
  /\ KnowsRun
  /\ IF active
     THEN ctxDone' = TRUE /\ Finished(c, "signalled")
     ELSE UNCHANGED ctxDone /\ Finished(c, "get")
  /\ UNCHANGED <<engineVars, stepVars, active, storeVars, copy>>

\* Mutant: the status that was read is not looked at.
CancelReadUnchecked(c) ==
  /\ cpc[c] = "get"
  /\ \E ok \in BOOLEAN :
       /\ StoreCall(FALSE, ok)
       /\ IF ~ok THEN Finished(c, "error") /\ UNCHANGED copy
          ELSE Finished(c, "write") /\ copy' = [copy EXCEPT ![c] = dbRun]
  /\ UNCHANGED <<engineVars, stepVars, ctxVars, dbRun, dbStep, saved>>
\* GetRun, and the error for a run that has ended.
CancelRead(c) ==
  /\ cpc[c] = "get"
  /\ \E ok \in BOOLEAN :
       /\ StoreCall(FALSE, ok)
       /\ IF ~ok THEN Finished(c, "error") /\ UNCHANGED copy
          ELSE IF dbRun.status \in TerminalRun THEN Finished(c, "refused") /\ UNCHANGED copy
          ELSE Finished(c, "write") /\ copy' = [copy EXCEPT ![c] = dbRun]
  /\ UNCHANGED <<engineVars, stepVars, ctxVars, dbRun, dbStep, saved>>

CancelWrite(c) ==
  /\ cpc[c] = "write"
  /\ \E ok \in BOOLEAN :
       /\ StoreCall(FALSE, ok)
       /\ dbRun' = IF ok THEN [copy[c] EXCEPT !.status = "CANCELLED"] ELSE dbRun
       /\ Finished(c, IF ok THEN "cancelled" ELSE "error")
  /\ UNCHANGED <<engineVars, stepVars, ctxVars, dbStep, saved, copy>>

Client(c) == CancelSignal(c) \/ CancelRead(c) \/ CancelWrite(c)

\* The caller of a synchronous run cancels the context it passed.
CallerCancels ==
  /\ Synchronous
  /\ pc \notin {"returned", "rejected", "crashed"}
  /\ ~ctxDone
  /\ ctxDone' = TRUE
  /\ UNCHANGED <<engineVars, stepVars, active, storeVars, clientVars>>

\* The process dies: its goroutines and activeRuns are gone, the store stays.
Crash ==
  /\ MayCrash
  /\ pc \notin {"create", "returned", "rejected", "crashed"}
  /\ pc' = "crashed"
  /\ job' = [s \in Steps |-> IF job[s] \in {"idle", "done"} THEN job[s] ELSE "dead"]
  /\ active' = FALSE
  /\ UNCHANGED <<run, level, completed, toLaunch, results, received, fatal, err,
                 attempt, input, index, outcome, calls, late,
                 ctxDone, storeVars, clientVars>>

-----------------------------------------------------------------------------
Start == CreateRun \/ Register
Sequential == RunSingle \/ SingleDone
Parallel == LaunchParallel \/ Collect
End == CompleteWorkflow \/ FailWorkflow \/ CancelWorkflow \/ Exit
Executor == Start \/ Begin \/ EnterLevel \/ Sequential \/ Parallel \/ Report \/ Verdict \/ End
Goroutine(s) == StepAction(s) \/ Return(s)

\* Nothing is left to do: the run has ended and so has every Cancel begun.
Done ==
  /\ pc \in {"returned", "rejected", "crashed"}
  /\ \A c \in Cancellers : cpc[c] \notin {"get", "write"}
  /\ UNCHANGED vars

Next ==
  \/ Executor
  \/ \E s \in Steps : Goroutine(s)
  \/ \E c \in Cancellers : Client(c)
  \/ CallerCancels
  \/ Crash
  \/ Done

Spec == Init /\ [][Next]_vars

\* Goroutines are scheduled fairly and handlers return; a Cancel once begun
\* is carried through.  Nobody has to call Cancel, and nothing has to fail.
Fairness ==
  /\ WF_vars(Executor)
  /\ \A s \in Steps : WF_vars(Goroutine(s))
  /\ \A c \in Cancellers : WF_vars(CancelRead(c) \/ CancelWrite(c))

FairSpec == Spec /\ Fairness
-----------------------------------------------------------------------------
(* Correctness *)

JobState == {"idle", "create", "attempt", "retrying", "backoff", "running",
             "executing", "record", "save", "exhausted", "return", "done", "dead"}
ExecutorState == {"create", "register", "begin", "level", "resolve", "await", "launch",
                  "collect", "report", "verdict", "complete", "fail", "cancel", "exit",
                  "returned", "rejected", "crashed"}
ClientState == {"idle", "signalled", "get", "write", "cancelled", "refused", "error"}

EngineType ==
  /\ pc \in ExecutorState
  /\ run \in Run
  /\ level \in 1 .. Depth + 1
  /\ completed \in 0 .. Total
  /\ toLaunch \subseteq Steps
  /\ results \in Seq(Steps)
  /\ received \in Nat
  /\ fatal \in BOOLEAN /\ err \in BOOLEAN

StepType ==
  /\ job \in [Steps -> JobState]
  /\ attempt \in [Steps -> Nat]
  /\ input \in [Steps -> Inputs]
  /\ index \in [Steps -> 0 .. Total]
  /\ outcome \in [Steps -> Outcomes]
  /\ calls \in [Steps -> Nat]
  /\ late \in [Steps -> Nat]

StoreType ==
  /\ dbRun \in Run
  /\ dbStep \in [Steps -> StepStatus \cup {"ABSENT"}]
  /\ saved \subseteq Steps
  /\ faults \in Nat

CtxType == active \in BOOLEAN /\ ctxDone \in BOOLEAN

ClientType == cpc \in [Cancellers -> ClientState] /\ copy \in [Cancellers -> Run]

\* Every variable stays in its range: statuses are those of models.go, and
\* progress and completedSteps never exceed the number of steps.
TypeOK == EngineType /\ StepType /\ StoreType /\ CtxType /\ ClientType

\* The barrier between levels: executeStep of a step is called only after that
\* of every step of the levels before has reported, and none of those failed
\* unless it is configured to continue on error.
LevelBarrier ==
  \A s, t \in Steps :
    LevelOf[t] < LevelOf[s] /\ job[s] # "idle"
      => job[t] = "done" /\ (Failed(t) => t \in ContinueOnError)

\* resolveStepInput hands a step the stored output of its first predecessor,
\* or null when there is none and the predecessor may fail; never the run's
\* input, nor the output of a step that did not finish.
DataFlow ==
  \A s \in Steps :
    input[s] # NoValue /\ Previous[s] # <<>> =>
      LET p == Previous[s][1] IN
        \/ input[s] = p /\ outcome[p] \in {"ok", "skip"}
        \/ input[s] = NullInput /\ p \in ContinueOnError

\* On a store that does not fail the choice is determined by the predecessor:
\* null exactly when it failed.
DataFlowExact ==
  \A s \in Steps :
    input[s] # NoValue /\ Previous[s] # <<>> =>
      LET p == Previous[s][1] IN
        input[s] = IF outcome[p] \in {"ok", "skip"} THEN p ELSE NullInput

\* A run persisted as COMPLETED has executed every step, and only steps with
\* ContinueOnError have failed.
CompletedMeansDone ==
  dbRun.status = "COMPLETED" =>
    \A s \in Steps : job[s] = "done" /\ (Failed(s) => s \in ContinueOnError)

\* The output of a COMPLETED run is that of a completed step of the deepest
\* level that has one, however the results of that level were ordered.
OutputIsDeepest ==
  dbRun.status = "COMPLETED" =>
    LET completedSteps == {s \in Steps : outcome[s] = "ok"} IN
      IF completedSteps = {} THEN dbRun.output = NoValue
      ELSE /\ dbRun.output \in completedSteps
           /\ \A s \in completedSteps : LevelOf[s] =< LevelOf[dbRun.output]

\* A run fails only because a step without ContinueOnError failed.
FailedHasCause ==
  run.status = "FAILED" => \E s \in Steps \ ContinueOnError : Failed(s)

\* On a reliable store no step record outlives its run in a non-terminal
\* status, and every record agrees with what executeStep reported.
RecordsSettled ==
  pc = "returned" =>
    \A s \in Steps :
      dbStep[s] = CASE outcome[s] = "ok" -> "COMPLETED"
                    [] outcome[s] = "skip" -> "SKIPPED"
                    [] outcome[s] = "failed" -> "FAILED"
                    [] OTHER -> "ABSENT"

\* ListStepExecutions sorts by ExecutionIndex: among the steps executeStep was
\* called for (only they have a record) the order never contradicts the levels,
\* whatever order the results of parallel steps arrived in.  The engine sets the
\* index so (engine/engine.go:256, engine_order_test.go); models.go:88 and
\* store/postgres_schema.go:25 call it a count of retries, which it is not.
ExecutionOrder ==
  \A s, t \in Steps :
    input[s] # NoValue /\ input[t] # NoValue /\ LevelOf[t] < LevelOf[s]
      => index[t] < index[s]

\* Once the run's context is cancelled a handler is entered at most once more
\* per step (between the check and the call), and in one level only.
CancelBoundsWork ==
  /\ \A s \in Steps : late[s] =< 1
  /\ \A s, t \in Steps : late[s] > 0 /\ late[t] > 0 => LevelOf[s] = LevelOf[t]

\* executeWorkflow returns nil only for a run whose terminal status is stored.
NilMeansStored ==
  pc = "returned" /\ ~err => dbRun.status \in TerminalRun

\* A run its executor ended as CANCELLED is persisted as CANCELLED
\* (docs/advanced-usage/cancellation.md:50-54).
CancelledIsPersisted ==
  pc = "returned" /\ run.status = "CANCELLED" => dbRun.status = "CANCELLED"

\* Once a Cancel of the running run has been acknowledged, the executor ends
\* the run as CANCELLED and in no other way
\* (docs/migration/v0.6-to-v0.7.md:61).
AcknowledgedCancelWins ==
  [][(\E c \in Cancellers : cpc[c] = "signalled") /\ run.status = "RUNNING"
       => run'.status \in {"RUNNING", "CANCELLED"}]_vars

\* RunStatus.IsTerminal: a terminal status is a final state.
TerminalIsFinal ==
  [][dbRun.status \in TerminalRun => dbRun'.status = dbRun.status]_vars

\* Every run that was created ends with a terminal status in the store.
RunEnds == dbRun.status = "PENDING" ~> dbRun.status \in TerminalRun

\* The executor always comes to its end, whatever the store does: no goroutine
\* of a parallel level is waited for that will not report.
ExecutorEnds == pc = "begin" ~> pc \in {"returned", "crashed"}

Lifecycle == INSTANCE RunLifecycle
  WITH status <- dbRun.status, progress <- dbRun.progress

\* The persisted run keeps the promises of RunLifecycle.
ImplementsLifecycle == Lifecycle!Spec
=================================================================================
