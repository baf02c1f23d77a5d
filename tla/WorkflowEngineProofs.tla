-------------------------- MODULE WorkflowEngineProofs --------------------------
(***************************************************************************)
(* Proofs about WorkflowEngine, for every workflow, configuration and store *)
(* its assumptions allow.                                                   *)
(*                                                                          *)
(* The executor of a parallel level trusts a count: it receives len(level)  *)
(* results and concludes that every goroutine of the level has reported.    *)
(* Counting says what the count means, Progressed what holds of the levels  *)
(* before, at and after the current one, and together with TypeOK they are  *)
(* inductive.                                                               *)
(***************************************************************************)
EXTENDS WorkflowEngine, FiniteSetTheorems, SequenceTheorems, TLAPS

\* The steps of the levels before i.
Lower(i) == {t \in Steps : LevelOf[t] < i}

\* The steps of level i whose executeStep has reported.
DoneIn(i) == {t \in Level(i) : job[t] = "done"}

NotStarted == {"create", "register", "begin", "rejected"}
AtLevel == {"level", "resolve", "await", "launch", "collect", "report", "verdict"}

\* What holds of the levels before, at and after the one being executed.
Progressed ==
  /\ pc \in NotStarted =>
       level = 1 /\ completed = 0 /\ \A s \in Steps : job[s] = "idle"
  /\ pc \in AtLevel =>
       /\ level \in 1 .. Depth
       /\ \A s \in Lower(level) : job[s] = "done" /\ ~Fatal(s)
       /\ \A s \in Steps : LevelOf[s] > level => job[s] = "idle"
  /\ pc \in {"level", "resolve"} => \A s \in Level(level) : job[s] = "idle"
  /\ pc \in {"resolve", "await"} => Cardinality(Level(level)) = 1
  /\ pc = "launch" =>
       /\ toLaunch \subseteq Level(level)
       /\ \A s \in toLaunch : job[s] = "idle"
  /\ pc \in {"report", "verdict"} =>
       \A s \in Level(level) : job[s] = "done" /\ (Fatal(s) => fatal)
  /\ pc = "complete" =>
       /\ level = Depth + 1
       /\ \A s \in Steps : job[s] = "done" /\ ~Fatal(s)

\* What completedSteps, and the number of results received, count.
Counting ==
  /\ pc \in {"level", "resolve", "await", "launch"} =>
       completed = Cardinality(Lower(level))
  /\ pc = "launch" => received = 0
  /\ pc = "collect" =>
       /\ completed = Cardinality(Lower(level)) + received
       /\ received < Cardinality(Level(level))
  /\ pc \in {"launch", "collect"} =>
       /\ Cardinality(Level(level)) # 1
       /\ received + Len(results) = Cardinality(DoneIn(level))
       /\ \A s \in DoneIn(level) :
            Fatal(s) => fatal \/ \E i \in 1 .. Len(results) : results[i] = s
  /\ pc \in {"report", "verdict"} => completed = Cardinality(Lower(level + 1))

\* The status of the executor's run, and what a persisted COMPLETED means.
Statuses ==
  /\ pc \in NotStarted => run.status = "PENDING"
  /\ pc \in AtLevel \cup {"complete", "fail", "cancel"} => run.status = "RUNNING"
  /\ dbRun.status = "COMPLETED" =>
       /\ pc \in {"exit", "returned", "crashed"}
       /\ \A s \in Steps : job[s] = "done" /\ ~Fatal(s)

\* An output is stored only for a step that produced it, and then stays.
Outputs ==
  /\ \A s \in Steps : job[s] \in {"record", "save"} => outcome[s] \in {"ok", "skip"}
  /\ \A s \in saved : outcome[s] \in {"ok", "skip"}
  /\ \A s \in Steps : outcome[s] \in {"ok", "skip"} =>
       job[s] \in {"record", "save", "return", "done", "dead"}

\* The control of the run, the data its steps exchange, and all of it.
Control == Progressed /\ Counting /\ Statuses /\ LevelBarrier
IInv == TypeOK /\ Control /\ Outputs /\ DataFlow

-----------------------------------------------------------------------------
(* Facts about the constants *)

\* Sets of steps are finite and no larger than the workflow.
LEMMA StepSets ==
  ASSUME NEW S \in SUBSET Steps
  PROVE  /\ IsFiniteSet(S)
         /\ Cardinality(S) \in 0 .. Total
         /\ Total \in Nat
<1>1. Total \in Nat
  BY StepsAssumption, FS_CardinalityType DEF Total
<1>2. IsFiniteSet(S) /\ Cardinality(S) =< Total
  BY StepsAssumption, FS_Subset DEF Total
<1>3. Cardinality(S) \in Nat
  BY <1>2, FS_CardinalityType
<1>4. QED
  BY <1>1, <1>2, <1>3

\* No level is empty: ComputeLevels allocates a level because it has a node.
LEMMA LevelSize ==
  ASSUME NEW i \in 1 .. Depth
  PROVE  Cardinality(Level(i)) \in 1 .. Total
<1>1. Level(i) \in SUBSET Steps
  BY DEF Level
<1>2. Level(i) # {}
  BY LevelsAssumption DEF Level
<1>3. IsFiniteSet(Level(i)) /\ Cardinality(Level(i)) \in 0 .. Total /\ Total \in Nat
  BY <1>1, StepSets
<1>4. Cardinality(Level(i)) # 0
  BY <1>2, <1>3, FS_EmptySet
<1>5. QED
  BY <1>3, <1>4

\* The levels before the first are none, those before Depth + 1 are all.
LEMMA LowerEnds ==
  /\ Lower(1) = {} /\ Cardinality(Lower(1)) = 0
  /\ Lower(Depth + 1) = Steps
BY LevelsAssumption, FS_EmptySet DEF Lower

\* Passing level i adds its steps to those of the levels before.
LEMMA LowerNext ==
  ASSUME NEW i \in 1 .. Depth
  PROVE  /\ Lower(i + 1) = Lower(i) \cup Level(i)
         /\ Cardinality(Lower(i + 1)) = Cardinality(Lower(i)) + Cardinality(Level(i))
<1>1. Lower(i) \in SUBSET Steps /\ Level(i) \in SUBSET Steps
  BY DEF Lower, Level
<1>2. Lower(i + 1) = Lower(i) \cup Level(i)
  BY LevelsAssumption DEF Lower, Level
<1>3. Lower(i) \cap Level(i) = {}
  BY LevelsAssumption DEF Lower, Level
<1>4. IsFiniteSet(Lower(i)) /\ IsFiniteSet(Level(i))
  BY <1>1, StepSets
<1>5. Cardinality(Lower(i)) \in Nat /\ Cardinality(Level(i)) \in Nat
  BY <1>1, StepSets
<1>6. Cardinality(Lower(i) \cup Level(i))
        = Cardinality(Lower(i)) + Cardinality(Level(i)) - Cardinality(Lower(i) \cap Level(i))
  BY <1>4, FS_Union
<1>7. Cardinality(Lower(i) \cap Level(i)) = 0
  BY <1>3, FS_EmptySet
<1>8. Cardinality(Lower(i) \cup Level(i)) = Cardinality(Lower(i)) + Cardinality(Level(i))
  BY <1>5, <1>6, <1>7
<1>9. QED
  BY <1>2, <1>8

-----------------------------------------------------------------------------
(* Type correctness *)

\* A store call only lowers the number of faults left, and never below zero.
LEMMA StoreCallType ==
  ASSUME NEW done, NEW ok, faults \in Nat, StoreCall(done, ok)
  PROVE  faults' \in Nat
BY DEF StoreCall

\* Persisting a run keeps the type of the store.
LEMMA PersistRunType ==
  ASSUME NEW r \in Run, NEW ok, faults \in Nat, dbRun \in Run, PersistRun(r, ok)
  PROVE  faults' \in Nat /\ dbRun' \in Run
BY StoreCallType DEF PersistRun

\* Persisting the status of a step keeps the type of the store.
LEMMA PersistStepType ==
  ASSUME NEW s \in Steps, NEW status \in StepStatus, faults \in Nat,
         dbStep \in [Steps -> StepStatus \cup {"ABSENT"}], PersistStep(s, status)
  PROVE  faults' \in Nat /\ dbStep' \in [Steps -> StepStatus \cup {"ABSENT"}]
BY StoreCallType DEF PersistStep

\* The initial state is well-typed.
LEMMA InitType == Init => TypeOK
<1> SUFFICES ASSUME Init PROVE TypeOK
  OBVIOUS
<1>1. Total \in Nat
  BY StepSets
<1>2. NewRun \in Run /\ NoRun \in Run
  BY <1>1 DEF NewRun, NoRun, Run, RunStatus
<1>3. <<>> \in Seq(Steps)
  BY EmptySeq
<1>4. EngineType
  <2>1. /\ pc \in ExecutorState /\ level \in 1 .. Depth + 1
        /\ completed \in 0 .. Total /\ received \in Nat
    BY <1>1, LevelsAssumption DEF Init, ExecutorState
  <2>2. run \in Run /\ toLaunch \subseteq Steps /\ results \in Seq(Steps)
    BY <1>2, <1>3 DEF Init
  <2>3. fatal \in BOOLEAN /\ err \in BOOLEAN
    BY DEF Init
  <2>4. QED
    BY <2>1, <2>2, <2>3 DEF EngineType
<1>5. StepType
  BY <1>1 DEF Init, StepType, JobState, Inputs, Outcomes
<1>6. StoreType
  BY <1>2, ConfigAssumption DEF Init, StoreType
<1>7. CtxType
  BY DEF Init, CtxType
<1>8. ClientType
  BY <1>2 DEF Init, ClientType, ClientState
<1>9. QED
  BY <1>4, <1>5, <1>6, <1>7, <1>8 DEF TypeOK

\* What an action leaves alone keeps its type.
LEMMA TypeFrame ==
  ASSUME TypeOK
  PROVE  /\ UNCHANGED engineVars => EngineType'
         /\ UNCHANGED stepVars => StepType'
         /\ UNCHANGED storeVars => StoreType'
         /\ UNCHANGED ctxVars => CtxType'
         /\ UNCHANGED clientVars => ClientType'
BY DEF TypeOK, EngineType, StepType, StoreType, CtxType, ClientType,
       engineVars, stepVars, storeVars, ctxVars, clientVars

\* executeStep of one step changes its own bookkeeping and the store.
LEMMA StepActionType ==
  ASSUME TypeOK, NEW s \in Steps, StepAction(s)
  PROVE  TypeOK'
<1>1. EngineType' /\ CtxType' /\ ClientType'
  BY TypeFrame DEF StepAction
<1> USE DEF TypeOK, StepType, StoreType
<1>2. CASE CreateExecution(s)
  BY <1>1, <1>2, StoreCallType DEF CreateExecution, JobState, Outcomes, StepStatus
<1>3. CASE Attempt(s)
  BY <1>1, <1>3 DEF Attempt, JobState, storeVars
<1>4. CASE RecordRetrying(s)
  BY <1>1, <1>4, PersistStepType DEF RecordRetrying, JobState, StepStatus
<1>5. CASE Backoff(s)
  BY <1>1, <1>5 DEF Backoff, JobState, storeVars
<1>6. CASE RecordRunning(s)
  BY <1>1, <1>6, PersistStepType DEF RecordRunning, JobState, StepStatus
<1>7. CASE Execute(s)
  BY <1>1, <1>7 DEF Execute, JobState, Outcomes, storeVars
<1>8. CASE RecordResult(s)
  BY <1>1, <1>8, PersistStepType DEF RecordResult, JobState, StepStatus
<1>9. CASE SaveOutput(s)
  BY <1>1, <1>9, StoreCallType DEF SaveOutput, JobState
<1>10. CASE RecordFailure(s)
  BY <1>1, <1>10, PersistStepType DEF RecordFailure, JobState, Outcomes, StepStatus
<1>11. QED
  BY <1>2, <1>3, <1>4, <1>5, <1>6, <1>7, <1>8, <1>9, <1>10 DEF StepAction

\* completedSteps can be incremented where the executor does so.
LEMMA CompletedBounded ==
  ASSUME TypeOK, Progressed, Counting, pc \in {"await", "collect"}
  PROVE  completed + 1 \in 0 .. Total
<1>1. level \in 1 .. Depth /\ level \in Nat
  BY LevelsAssumption DEF Progressed, AtLevel
<1>2. Cardinality(Lower(level + 1)) = Cardinality(Lower(level)) + Cardinality(Level(level))
  BY <1>1, LowerNext
<1>3. Lower(level) \in SUBSET Steps /\ Lower(level + 1) \in SUBSET Steps
  BY DEF Lower
<1>4. Cardinality(Lower(level)) \in 0 .. Total /\ Cardinality(Lower(level + 1)) \in 0 .. Total
  BY <1>3, StepSets
<1>5. Cardinality(Level(level)) \in 1 .. Total /\ Total \in Nat
  BY <1>1, LevelSize, StepSets
<1>6. CASE pc = "await"
  BY <1>2, <1>4, <1>5, <1>6 DEF Counting
<1>7. CASE pc = "collect"
  <2>1. /\ completed = Cardinality(Lower(level)) + received
        /\ received < Cardinality(Level(level)) /\ received \in Nat
    BY <1>7 DEF Counting, TypeOK, EngineType
  <2>2. QED
    BY <1>2, <1>4, <1>5, <2>1
<1>8. QED
  BY <1>6, <1>7

\* Taking a result gives a run again.
LEMMA WithResultType ==
  ASSUME run \in Run, NEW s \in Steps, NEW n \in 0 .. Total
  PROVE  WithResult(s, n) \in Run
BY DEF WithResult, Run

\* Resolving an input keeps the fault counter a natural number.
LEMMA ResolveType ==
  ASSUME faults \in Nat, NEW s, NEW isFirst, NEW in, ResolveStepInput(s, isFirst, in)
  PROVE  faults' \in Nat
BY StoreCallType DEF ResolveStepInput

\* Launching a step keeps the types of the steps' bookkeeping.
LEMMA LaunchType ==
  ASSUME TypeOK, NEW s \in Steps, NEW in \in Inputs, Launch(s, in)
  PROVE  StepType'
BY DEF TypeOK, EngineType, StepType, Launch, ExecutionIndex, JobState

\* StartWorkflow, Begin and the loop over the levels.
LEMMA StartType ==
  ASSUME TypeOK, Start \/ Begin \/ EnterLevel
  PROVE  TypeOK'
<1> USE DEF TypeOK, EngineType
<1>1. CASE CreateRun
  BY <1>1, TypeFrame, PersistRunType DEF CreateRun, StoreType, ExecutorState
<1>2. CASE Register
  BY <1>2, TypeFrame DEF Register, CtxType, ExecutorState
<1>3. CASE Begin
  <2>1. [run EXCEPT !.status = "RUNNING"] \in Run
    BY DEF Run, RunStatus
  <2>2. StoreType' /\ run' \in Run /\ pc' \in ExecutorState /\ err' \in BOOLEAN
    BY <1>3, <2>1, PersistRunType DEF Begin, StoreType, ExecutorState
  <2>3. QED
    BY <1>3, <2>2, TypeFrame DEF Begin
<1>4. CASE EnterLevel
  BY <1>4, TypeFrame, EmptySeq DEF EnterLevel, Level, ExecutorState
<1>5. QED
  BY <1>1, <1>2, <1>3, <1>4 DEF Start

\* A level of one step.
LEMMA SequentialType ==
  ASSUME TypeOK, Progressed, Counting, Sequential
  PROVE  TypeOK'
<1> USE DEF TypeOK, EngineType
<1>1. CASE RunSingle
  <2>1. PICK s \in Level(level), in \in Inputs :
          /\ ResolveStepInput(s, completed = 0, in)
          /\ IF in = NoValue
             THEN pc' = "fail" /\ UNCHANGED stepVars
             ELSE pc' = "await" /\ Launch(s, in)
    BY <1>1 DEF RunSingle
  <2>2. s \in Steps
    BY DEF Level
  <2>3. StepType' /\ StoreType' /\ pc' \in ExecutorState
    BY <1>1, <2>1, <2>2, TypeFrame, LaunchType, ResolveType
    DEF RunSingle, StoreType, ExecutorState
  <2>4. QED
    BY <1>1, <2>3, TypeFrame DEF RunSingle
<1>2. CASE SingleDone
  <2>1. pc = "await"
    BY <1>2 DEF SingleDone
  <2>2. completed + 1 \in 0 .. Total
    BY <2>1, CompletedBounded
  <2>3. run' \in Run /\ completed' \in 0 .. Total /\ pc' \in ExecutorState
    BY <1>2, <2>2, WithResultType DEF SingleDone, Level, ExecutorState
  <2>4. QED
    BY <1>2, <2>3, TypeFrame DEF SingleDone
<1>3. QED
  BY <1>1, <1>2 DEF Sequential

\* A level of several steps.
LEMMA ParallelType ==
  ASSUME TypeOK, Progressed, Counting, Parallel
  PROVE  TypeOK'
<1> USE DEF TypeOK, EngineType
<1>1. CASE LaunchParallel
  <2>1. PICK s \in toLaunch, in \in Inputs :
          /\ ResolveStepInput(s, FALSE, in)
          /\ IF in = NoValue
             THEN /\ job' = [job EXCEPT ![s] = "done"]
                  /\ outcome' = [outcome EXCEPT ![s] = "rejected"]
                  /\ results' = Append(results, s)
                  /\ UNCHANGED <<attempt, input, index, calls, late>>
             ELSE Launch(s, in) /\ UNCHANGED results
          /\ toLaunch' = toLaunch \ {s}
          /\ pc' = IF toLaunch = {s} THEN "collect" ELSE "launch"
    BY <1>1 DEF LaunchParallel
  <2>2. s \in Steps
    OBVIOUS
  <2>3. StepType'
    BY <2>1, <2>2, LaunchType DEF StepType, JobState, Outcomes
  <2>4. results' \in Seq(Steps)
    BY <2>1, <2>2, AppendProperties
  <2>5. StoreType' /\ pc' \in ExecutorState /\ toLaunch' \subseteq Steps
    BY <1>1, <2>1, ResolveType DEF LaunchParallel, StoreType, ExecutorState
  <2>6. QED
    BY <1>1, <2>3, <2>4, <2>5, TypeFrame DEF LaunchParallel
<1>2. CASE Collect
  <2>1. completed + 1 \in 0 .. Total
    BY <1>2, CompletedBounded DEF Collect
  <2>2. Head(results) \in Steps /\ Tail(results) \in Seq(Steps)
    BY <1>2, HeadTailProperties DEF Collect
  <2>3. run.progress \in 0 .. Total
    BY DEF Run
  <2>4. run' \in Run
    BY <1>2, <2>1, <2>2, <2>3, WithResultType DEF Collect
  <2>5. fatal' \in BOOLEAN
    BY <1>2 DEF Collect, Fatal, Failed
  <2>6. QED
    BY <1>2, <2>1, <2>2, <2>4, <2>5, TypeFrame DEF Collect, ExecutorState
<1>3. QED
  BY <1>1, <1>2 DEF Parallel

\* Progress updates and the end of the run.
LEMMA EndType ==
  ASSUME TypeOK, Progressed, Report \/ Verdict \/ End
  PROVE  TypeOK'
<1> USE DEF TypeOK, EngineType
<1>1. ASSUME NEW at, NEW final \in Run, Finish(at, final)
      PROVE  TypeOK'
  <2>1. StoreType' /\ run' \in Run /\ pc' \in ExecutorState
    BY <1>1, PersistRunType DEF Finish, StoreType, ExecutorState
  <2>2. err' \in BOOLEAN
    BY <1>1 DEF Finish
  <2>3. QED
    BY <1>1, <2>1, <2>2, TypeFrame DEF Finish
<1>2. CASE Report
  <2>1. level \in 1 .. Depth /\ Depth \in Nat
    BY <1>2, LevelsAssumption DEF Report, Progressed, AtLevel
  <2>2. StoreType' /\ pc' \in ExecutorState /\ level' \in 1 .. Depth + 1
    BY <1>2, <2>1, PersistRunType DEF Report, StoreType, ExecutorState
  <2>3. QED
    BY <1>2, <2>2, TypeFrame DEF Report
<1>3. CASE Verdict
  BY <1>3, TypeFrame DEF Verdict, ExecutorState
<1>4. CASE CompleteWorkflow
  <2>1. Total \in Nat
    BY StepSets
  <2>2. Total \in 0 .. Total
    BY <2>1
  <2>3. [run EXCEPT !.status = "COMPLETED", !.progress = Total] \in Run
    BY <2>2 DEF Run, RunStatus
  <2>4. QED
    BY <1>1, <1>4, <2>3 DEF CompleteWorkflow
<1>5. CASE FailWorkflow
  BY <1>1, <1>5 DEF FailWorkflow, Run, RunStatus
<1>6. CASE CancelWorkflow
  BY <1>1, <1>6 DEF CancelWorkflow, Run, RunStatus
<1>7. CASE Exit
  BY <1>7, TypeFrame DEF Exit, CtxType, ExecutorState, ctxVars
<1>8. QED
  BY <1>2, <1>3, <1>4, <1>5, <1>6, <1>7 DEF End

\* The return of executeStep, which may send a result.
LEMMA ReturnType ==
  ASSUME TypeOK, NEW s \in Steps, Return(s)
  PROVE  TypeOK'
<1>1. results' \in Seq(Steps)
  BY AppendProperties DEF Return, TypeOK, EngineType
<1>2. job' \in [Steps -> JobState]
  BY DEF Return, TypeOK, StepType, JobState
<1>3. QED
  BY <1>1, <1>2, TypeFrame DEF Return, TypeOK, EngineType, StepType

\* Clients, the caller, and the end of the process.
LEMMA OutsideType ==
  ASSUME TypeOK, (\E c \in Cancellers : Client(c)) \/ CallerCancels \/ Crash \/ Done
  PROVE  TypeOK'
<1> USE DEF TypeOK, CtxType, ClientType
<1>1. ASSUME NEW c \in Cancellers, CancelSignal(c)
      PROVE  TypeOK'
  BY <1>1, TypeFrame DEF CancelSignal, Finished, ClientState, StoreType
<1>2. ASSUME NEW c \in Cancellers, CancelRead(c)
      PROVE  TypeOK'
  <2>1. cpc' \in [Cancellers -> ClientState] /\ copy' \in [Cancellers -> Run]
    BY <1>2 DEF CancelRead, Finished, ClientState, StoreType
  <2>2. QED
    BY <1>2, <2>1, TypeFrame, StoreCallType DEF CancelRead, StoreType
<1>3. ASSUME NEW c \in Cancellers, CancelWrite(c)
      PROVE  TypeOK'
  <2>1. [copy[c] EXCEPT !.status = "CANCELLED"] \in Run
    BY DEF Run, RunStatus
  <2>2. cpc' \in [Cancellers -> ClientState] /\ dbRun' \in Run
    BY <1>3, <2>1 DEF CancelWrite, Finished, ClientState, StoreType
  <2>3. QED
    BY <1>3, <2>2, TypeFrame, StoreCallType DEF CancelWrite, StoreType
<1>4. CASE CallerCancels
  BY <1>4, TypeFrame DEF CallerCancels
<1>5. CASE Crash
  <2>1. job' \in [Steps -> JobState]
    BY <1>5 DEF Crash, StepType, JobState
  <2>2. pc' \in ExecutorState
    BY <1>5 DEF Crash, ExecutorState
  <2>3. QED
    BY <1>5, <2>1, <2>2, TypeFrame DEF Crash, EngineType, StepType
<1>6. CASE Done
  BY <1>6, TypeFrame DEF Done, vars
<1>7. QED
  BY <1>1, <1>2, <1>3, <1>4, <1>5, <1>6 DEF Client

\* Every step of the specification keeps the types, given what the counters count.
LEMMA TypeStep ==
  ASSUME TypeOK, Progressed, Counting, [Next]_vars
  PROVE  TypeOK'
<1>1. CASE Executor
  BY <1>1, StartType, SequentialType, ParallelType, EndType DEF Executor
<1>2. CASE \E s \in Steps : Goroutine(s)
  BY <1>2, StepActionType, ReturnType DEF Goroutine
<1>3. CASE (\E c \in Cancellers : Client(c)) \/ CallerCancels \/ Crash \/ Done
  BY <1>3, OutsideType
<1>4. CASE UNCHANGED vars
  BY <1>4, TypeFrame DEF vars, TypeOK
<1>5. QED
  BY <1>1, <1>2, <1>3, <1>4 DEF Next

-----------------------------------------------------------------------------
(* The control of the run *)

\* Nothing has started in the initial state.
LEMMA InitControl == Init => Control
<1> SUFFICES ASSUME Init PROVE Control
  OBVIOUS
<1>1. Progressed /\ Counting
  BY DEF Init, Progressed, Counting, AtLevel
<1>2. Statuses /\ LevelBarrier
  BY DEF Init, Statuses, LevelBarrier, NewRun, NoRun, AtLevel
<1>3. QED
  BY <1>1, <1>2 DEF Control

\* Control sees of a step only whether it is idle, whether it has reported,
\* and with what outcome.
LEMMA SettledFrame ==
  ASSUME Control, UNCHANGED engineVars,
         dbRun'.status = "COMPLETED" => dbRun.status = "COMPLETED",
         \A t \in Steps : /\ job[t] = "idle" <=> job'[t] = "idle"
                          /\ job[t] = "done" <=> job'[t] = "done"
                          /\ job[t] = "done" => outcome'[t] = outcome[t]
  PROVE  Control'
<1> USE DEF engineVars
<1>1. DoneIn(level)' = DoneIn(level)
  BY DEF DoneIn, Level
<1>2. \A t \in Steps : job[t] = "done" => (Fatal(t)' <=> Fatal(t)) /\ (Failed(t)' <=> Failed(t))
  BY DEF Fatal, Failed
<1>3. Progressed'
  BY <1>2 DEF Control, Progressed, Lower, Level
<1>4. Counting'
  <2>1. \A t \in DoneIn(level) : Fatal(t)' <=> Fatal(t)
    BY <1>2 DEF DoneIn, Level
  <2>2. QED
    BY <1>1, <2>1 DEF Control, Counting, Lower, Level
<1>5. Statuses'
  BY <1>2 DEF Control, Statuses
<1>6. LevelBarrier'
  BY <1>2 DEF Control, LevelBarrier
<1>7. QED
  BY <1>3, <1>4, <1>5, <1>6 DEF Control

\* What executeStep does before it returns is invisible to Control.
LEMMA StepActionControl ==
  ASSUME TypeOK, Control, NEW s \in Steps, StepAction(s)
  PROVE  Control'
<1>1. UNCHANGED engineVars /\ UNCHANGED dbRun
  BY DEF StepAction, CreateExecution, Attempt, RecordRetrying, Backoff, RecordRunning,
         Execute, RecordResult, SaveOutput, RecordFailure, storeVars
<1>2. job[s] \notin {"idle", "done"}
  BY DEF StepAction, CreateExecution, Attempt, RecordRetrying, Backoff, RecordRunning,
         Execute, RecordResult, SaveOutput, RecordFailure
<1>3. \E x \in JobState \ {"idle", "done"} : job' = [job EXCEPT ![s] = x]
  BY DEF StepAction, CreateExecution, Attempt, RecordRetrying, Backoff, RecordRunning,
         Execute, RecordResult, SaveOutput, RecordFailure, JobState
<1>4. \A t \in Steps : t # s => outcome'[t] = outcome[t]
  BY DEF StepAction, CreateExecution, Attempt, RecordRetrying, Backoff, RecordRunning,
         Execute, RecordResult, SaveOutput, RecordFailure, TypeOK, StepType
<1>5. \A t \in Steps : /\ job[t] = "idle" <=> job'[t] = "idle"
                       /\ job[t] = "done" <=> job'[t] = "done"
                       /\ job[t] = "done" => outcome'[t] = outcome[t]
  BY <1>2, <1>3, <1>4 DEF TypeOK, StepType
<1>6. QED
  BY <1>1, <1>5, SettledFrame

\* Clients and the caller do not disturb Control: Engine.Cancel writes no COMPLETED.
LEMMA OutsideControl ==
  ASSUME TypeOK, Control, (\E c \in Cancellers : Client(c)) \/ CallerCancels \/ Done
  PROVE  Control'
<1>1. UNCHANGED engineVars /\ UNCHANGED stepVars
  BY DEF Client, CancelSignal, CancelRead, CancelWrite, CallerCancels, Done, vars
<1>2. dbRun'.status = "COMPLETED" => dbRun.status = "COMPLETED"
  <2>1. ASSUME NEW c \in Cancellers, CancelWrite(c)
        PROVE  dbRun' = dbRun \/ dbRun'.status = "CANCELLED"
    BY <2>1 DEF CancelWrite, TypeOK, ClientType, Run
  <2>2. CASE \E c \in Cancellers : CancelWrite(c)
    BY <2>1, <2>2
  <2>3. CASE ~ \E c \in Cancellers : CancelWrite(c)
    BY <2>3 DEF Client, CancelSignal, CancelRead, CallerCancels, Done, vars, storeVars
  <2>4. QED
    BY <2>2, <2>3
<1>3. QED
  BY <1>1, <1>2, SettledFrame DEF stepVars

\* A crash ends the executor; what was stored as COMPLETED was.
LEMMA CrashControl ==
  ASSUME TypeOK, Control, Crash
  PROVE  Control'
<1>1. \A t \in Steps : /\ job[t] = "idle" <=> job'[t] = "idle"
                       /\ job[t] = "done" <=> job'[t] = "done"
  BY DEF Crash, TypeOK, StepType
<1>2. pc' = "crashed" /\ UNCHANGED <<run, outcome, dbRun>>
  BY DEF Crash, storeVars
<1>3. Progressed' /\ Counting'
  BY <1>2 DEF Progressed, Counting, NotStarted, AtLevel
<1>4. Statuses'
  BY <1>1, <1>2 DEF Control, Statuses, NotStarted, AtLevel, Fatal, Failed
<1>5. LevelBarrier'
  BY <1>1, <1>2 DEF Control, LevelBarrier, Failed
<1>6. QED
  BY <1>3, <1>4, <1>5 DEF Control

\* A step that is executing belongs to the current level, and the executor
\* waits for it, launches its siblings, or collects their results.
LEMMA ExecutingStep ==
  ASSUME TypeOK, Control, NEW s \in Steps, job[s] \notin {"idle", "done"},
         pc \in NotStarted \cup AtLevel \cup {"complete"}
  PROVE  s \in Level(level) /\ pc \in {"await", "launch", "collect"}
<1>1. pc \in AtLevel
  BY DEF Control, Progressed, NotStarted
<1>2. level \in 1 .. Depth /\ LevelOf[s] \in 1 .. Depth
  BY <1>1, LevelsAssumption DEF Control, Progressed
<1>3. ~(LevelOf[s] < level) /\ ~(LevelOf[s] > level)
  BY <1>1 DEF Control, Progressed, Lower
<1>4. s \in Level(level)
  BY <1>2, <1>3, LevelsAssumption DEF Level
<1>5. QED
  BY <1>1, <1>4 DEF Control, Progressed, AtLevel

\* Sending a result adds one to the steps that have reported.
LEMMA DoneInNext ==
  ASSUME NEW s \in Level(level), job[s] # "done", level' = level,
         \A t \in Steps : job'[t] = "done" <=> t = s \/ job[t] = "done"
  PROVE  /\ DoneIn(level)' = DoneIn(level) \cup {s}
         /\ Cardinality(DoneIn(level)') = Cardinality(DoneIn(level)) + 1
<1>1. DoneIn(level)' = DoneIn(level) \cup {s}
  BY DEF DoneIn, Level
<1>2. DoneIn(level) \in SUBSET Steps
  BY DEF DoneIn, Level
<1>3. IsFiniteSet(DoneIn(level))
  BY <1>2, StepSets
<1>4. s \notin DoneIn(level)
  BY DEF DoneIn
<1>5. Cardinality(DoneIn(level) \cup {s}) = Cardinality(DoneIn(level)) + 1
  BY <1>3, <1>4, FS_AddElement
<1>6. QED
  BY <1>1, <1>5

\* The part of Counting about the results channel survives a send.
LEMMA SendCounting ==
  ASSUME TypeOK, Control, pc \in {"launch", "collect"},
         NEW s \in Level(level), job[s] # "done",
         \A t \in Steps : job'[t] = "done" <=> t = s \/ job[t] = "done",
         \A t \in Steps : t # s => outcome'[t] = outcome[t],
         results' = Append(results, s), UNCHANGED <<level, received, fatal>>
  PROVE  /\ received' + Len(results') = Cardinality(DoneIn(level)')
         /\ \A t \in DoneIn(level)' :
              Fatal(t)' => fatal' \/ \E i \in 1 .. Len(results') : results'[i] = t
<1>1. /\ DoneIn(level)' = DoneIn(level) \cup {s}
      /\ Cardinality(DoneIn(level)') = Cardinality(DoneIn(level)) + 1
  BY DoneInNext
<1>2. s \in Steps /\ results \in Seq(Steps) /\ received \in Nat /\ Len(results) \in Nat
  BY LenProperties DEF Level, TypeOK, EngineType
<1>3. /\ Len(results') = Len(results) + 1
      /\ \A i \in 1 .. Len(results) : results'[i] = results[i]
      /\ results'[Len(results) + 1] = s
  BY <1>2, AppendProperties
<1>4. received + Len(results) = Cardinality(DoneIn(level))
  BY DEF Control, Counting
<1>5. received' + Len(results') = Cardinality(DoneIn(level)')
  BY <1>1, <1>2, <1>3, <1>4
<1>6. ASSUME NEW t \in DoneIn(level)', Fatal(t)'
      PROVE  fatal' \/ \E i \in 1 .. Len(results') : results'[i] = t
  <2>1. CASE t = s
    BY <1>2, <1>3, <2>1
  <2>2. CASE t # s
    <3>1. t \in DoneIn(level) /\ t \in Steps /\ Fatal(t)
      BY <1>1, <1>6, <2>2 DEF DoneIn, Level, Fatal, Failed
    <3>2. fatal \/ \E i \in 1 .. Len(results) : results[i] = t
      BY <3>1 DEF Control, Counting
    <3>3. QED
      BY <1>2, <1>3, <3>2
  <2>3. QED
    BY <2>1, <2>2
<1>7. QED
  BY <1>5, <1>6

\* The return of executeStep: the result sent accounts for the step that reported.
LEMMA ReturnControl ==
  ASSUME TypeOK, Control, NEW s \in Steps, Return(s)
  PROVE  Control'
<1> USE DEF NotStarted, AtLevel
<1>1. /\ job[s] = "return"
      /\ \A t \in Steps : job'[t] = IF t = s THEN "done" ELSE job[t]
      /\ UNCHANGED <<pc, run, level, completed, toLaunch, received, fatal, outcome, dbRun>>
  BY DEF Return, TypeOK, StepType, storeVars
<1>2. pc \in NotStarted \cup AtLevel \cup {"complete"}
        => s \in Level(level) /\ pc \in {"await", "launch", "collect"}
  BY <1>1, ExecutingStep
<1>3. \A t \in Steps : (Fatal(t)' <=> Fatal(t)) /\ (Failed(t)' <=> Failed(t))
  BY <1>1 DEF Fatal, Failed
<1>4. Progressed'
  BY <1>1, <1>2, <1>3 DEF Control, Progressed, Lower, Level
<1>5. Counting'
  <2>1. CASE pc \in {"launch", "collect"}
    <3>1. /\ Cardinality(Level(level)) # 1
          /\ results' = Append(results, s)
      BY <2>1 DEF Return, Control, Counting
    <3>2. /\ received' + Len(results') = Cardinality(DoneIn(level)')
          /\ \A t \in DoneIn(level)' :
               Fatal(t)' => fatal' \/ \E i \in 1 .. Len(results') : results'[i] = t
      BY <1>1, <1>2, <2>1, <3>1, SendCounting
    <3>3. QED
      BY <1>1, <2>1, <3>1, <3>2 DEF Control, Counting, Lower, Level
  <2>2. CASE pc \notin {"launch", "collect"}
    BY <1>1, <2>2 DEF Control, Counting, Lower
  <2>3. QED
    BY <2>1, <2>2
<1>6. Statuses'
  BY <1>1, <1>3 DEF Control, Statuses
<1>7. LevelBarrier'
  BY <1>1, <1>3 DEF Control, LevelBarrier
<1>8. QED
  BY <1>4, <1>5, <1>6, <1>7 DEF Control

\* StartWorkflow, Begin and the head of the loop over the levels.
LEMMA StartControl ==
  ASSUME TypeOK, Control, Start \/ Begin \/ EnterLevel
  PROVE  Control'
<1> USE DEF NotStarted, AtLevel
<1>1. UNCHANGED <<job, outcome, level, completed>>
  BY DEF Start, CreateRun, Register, Begin, EnterLevel, stepVars
<1>2. \A t \in Steps : (Fatal(t)' <=> Fatal(t)) /\ (Failed(t)' <=> Failed(t))
  BY <1>1 DEF Fatal, Failed
<1>3. LevelBarrier'
  BY <1>1, <1>2 DEF Control, LevelBarrier
<1>4. CASE CreateRun \/ Register
  <2>1. pc \in NotStarted /\ pc' \in NotStarted /\ UNCHANGED run
    BY <1>4 DEF CreateRun, Register
  <2>2. dbRun' = run \/ dbRun' = dbRun
    BY <1>4 DEF CreateRun, Register, PersistRun, storeVars
  <2>3. Progressed' /\ Counting'
    BY <1>1, <2>1 DEF Control, Progressed, Counting
  <2>4. Statuses'
    BY <1>1, <1>2, <2>1, <2>2 DEF Control, Statuses
  <2>5. QED
    BY <1>3, <2>3, <2>4 DEF Control
<1>5. CASE Begin
  <2>1. pc = "begin" /\ pc' \in {"level", "exit"} /\ run'.status = "RUNNING"
    BY <1>5 DEF Begin, TypeOK, EngineType, Run
  <2>2. level = 1 /\ completed = 0 /\ \A s \in Steps : job[s] = "idle"
    BY <2>1 DEF Control, Progressed
  <2>3. Progressed'
    BY <1>1, <2>1, <2>2, LevelsAssumption, LowerEnds DEF Progressed, Level
  <2>4. Counting'
    BY <1>1, <2>1, <2>2, LowerEnds DEF Counting, Lower
  <2>5. dbRun' = run' \/ dbRun' = dbRun
    BY <1>5 DEF Begin, PersistRun
  <2>6. Statuses'
    BY <1>1, <2>1, <2>5 DEF Control, Statuses
  <2>7. QED
    BY <1>3, <2>3, <2>4, <2>6 DEF Control
<1>6. CASE EnterLevel
  <2>1. /\ pc = "level" /\ UNCHANGED <<run, dbRun>>
        /\ \/ pc' = "cancel"
           \/ pc' = "resolve" /\ Cardinality(Level(level)) = 1
           \/ pc' = "launch" /\ Cardinality(Level(level)) # 1
    BY <1>6 DEF EnterLevel, storeVars
  <2>2. toLaunch' = Level(level) /\ results' = <<>> /\ received' = 0
    BY <1>6 DEF EnterLevel
  <2>3. \A s \in Level(level) : job[s] = "idle"
    BY <2>1 DEF Control, Progressed
  <2>4. Progressed'
    BY <1>1, <1>2, <2>1, <2>2, <2>3 DEF Control, Progressed, Lower, Level
  <2>5. DoneIn(level)' = {}
    BY <1>1, <2>3 DEF DoneIn, Level
  <2>6. Cardinality(DoneIn(level)') = 0 /\ Len(results') = 0
    BY <2>2, <2>5, FS_EmptySet
  <2>7. Counting'
    BY <1>1, <2>1, <2>2, <2>5, <2>6 DEF Control, Counting, Lower, Level
  <2>8. Statuses'
    BY <1>1, <1>2, <2>1 DEF Control, Statuses
  <2>9. QED
    BY <1>3, <2>4, <2>7, <2>8 DEF Control
<1>7. QED
  BY <1>4, <1>5, <1>6 DEF Start

\* Calling executeStep, or rejecting a step, in the current level respects
\* the barrier.
LEMMA LaunchBarrier ==
  ASSUME TypeOK, Control, pc \in {"resolve", "launch"}, NEW s \in Level(level),
         \A t \in Steps : t # s => job'[t] = job[t] /\ outcome'[t] = outcome[t],
         job[s] # "done"
  PROVE  LevelBarrier'
<1> SUFFICES ASSUME NEW x \in Steps, NEW t \in Steps,
                    LevelOf[t] < LevelOf[x], job'[x] # "idle"
             PROVE  job'[t] = "done" /\ (Failed(t)' => t \in ContinueOnError)
  BY DEF LevelBarrier
<1>1. LevelOf[s] = level /\ s \in Steps
  BY DEF Level
<1>2. CASE x = s
  <2>1. t \in Lower(level) /\ t # s
    BY <1>1, <1>2, LevelsAssumption DEF Lower
  <2>2. job[t] = "done" /\ ~Fatal(t)
    BY <2>1 DEF Control, Progressed, AtLevel
  <2>3. QED
    BY <2>1, <2>2 DEF Fatal, Failed
<1>3. CASE x # s
  <2>1. job[x] # "idle"
    BY <1>3
  <2>2. job[t] = "done" /\ (Failed(t) => t \in ContinueOnError)
    BY <2>1 DEF Control, LevelBarrier
  <2>3. t # s
    BY <2>2
  <2>4. QED
    BY <2>2, <2>3 DEF Failed
<1>4. QED
  BY <1>2, <1>3

\* A level of one step.
LEMMA SequentialControl ==
  ASSUME TypeOK, Control, Sequential
  PROVE  Control'
<1> USE DEF NotStarted, AtLevel
<1>1. CASE RunSingle
  <2>1. PICK s \in Level(level), in \in Inputs :
          IF in = NoValue
          THEN pc' = "fail" /\ UNCHANGED stepVars
          ELSE pc' = "await" /\ Launch(s, in)
    BY <1>1 DEF RunSingle
  <2>2. /\ pc = "resolve" /\ UNCHANGED <<run, level, completed, dbRun>>
        /\ s \in Steps /\ LevelOf[s] = level
    BY <1>1 DEF RunSingle, Level
  <2>3. job[s] = "idle"
    BY <2>2 DEF Control, Progressed
  <2>4. CASE in = NoValue
    <3>1. pc' = "fail" /\ UNCHANGED <<job, outcome>>
      BY <2>1, <2>4 DEF stepVars
    <3>2. Progressed' /\ Counting'
      BY <3>1 DEF Progressed, Counting
    <3>3. Statuses'
      BY <2>2, <3>1 DEF Control, Statuses
    <3>4. LevelBarrier'
      BY <3>1 DEF Control, LevelBarrier, Failed
    <3>5. QED
      BY <3>2, <3>3, <3>4 DEF Control
  <2>5. CASE in # NoValue
    <3>1. /\ pc' = "await" /\ UNCHANGED outcome
          /\ job' = [job EXCEPT ![s] = "create"]
      BY <2>1, <2>5 DEF Launch
    <3>2. \A t \in Steps : t # s => job'[t] = job[t]
      BY <3>1 DEF TypeOK, StepType
    <3>3. Progressed'
      BY <2>2, <3>1, <3>2, LevelsAssumption DEF Control, Progressed, Lower, Level, Fatal, Failed
    <3>4. Counting'
      BY <2>2, <3>1 DEF Control, Counting, Lower
    <3>5. Statuses'
      BY <2>2, <3>1 DEF Control, Statuses
    <3>6. LevelBarrier'
      BY <2>2, <2>3, <3>1, <3>2, LaunchBarrier
    <3>7. QED
      BY <3>3, <3>4, <3>5, <3>6 DEF Control
  <2>6. QED
    BY <2>4, <2>5
<1>2. CASE SingleDone
  <2>1. PICK s \in Level(level) :
          /\ job[s] = "done"
          /\ \/ pc' = "cancel" /\ UNCHANGED <<run, completed>>
             \/ pc' = "fail" /\ UNCHANGED <<run, completed>>
             \/ /\ ~Fatal(s) /\ completed' = completed + 1
                /\ run' = WithResult(s, completed')
                /\ pc' = "report"
    BY <1>2 DEF SingleDone
  <2>2. /\ pc = "await" /\ UNCHANGED <<level, fatal, job, outcome, dbRun>>
    BY <1>2 DEF SingleDone, stepVars, storeVars
  <2>3. run'.status = "RUNNING"
    BY <2>1, <2>2 DEF Control, Statuses, WithResult, TypeOK, EngineType, Run
  <2>4. \A t \in Steps : (Fatal(t)' <=> Fatal(t)) /\ (Failed(t)' <=> Failed(t))
    BY <2>2 DEF Fatal, Failed
  <2>5. level \in 1 .. Depth /\ Cardinality(Level(level)) = 1
    BY <2>2 DEF Control, Progressed
  <2>6. \A t \in Level(level) : t = s
    <3>1. Level(level) \in SUBSET Steps
      BY DEF Level
    <3>2. IsFiniteSet(Level(level))
      BY <3>1, StepSets
    <3>3. QED
      BY <2>5, <3>2, FS_Singleton
  <2>7. Progressed'
    BY <2>1, <2>2, <2>4, <2>6 DEF Control, Progressed, Lower, Level
  <2>8. Counting'
    <3>1. Cardinality(Lower(level + 1)) = completed + 1
      BY <2>2, <2>5, LowerNext DEF Control, Counting
    <3>2. QED
      BY <2>1, <2>2, <3>1 DEF Counting, Lower
  <2>9. Statuses'
    BY <2>1, <2>2, <2>3, <2>4 DEF Control, Statuses
  <2>10. LevelBarrier'
    BY <2>2, <2>4 DEF Control, LevelBarrier
  <2>11. QED
    BY <2>7, <2>8, <2>9, <2>10 DEF Control
<1>3. QED
  BY <1>1, <1>2 DEF Sequential

\* The launch loop of a parallel level.
LEMMA LaunchParallelControl ==
  ASSUME TypeOK, Control, LaunchParallel
  PROVE  Control'
<1> USE DEF NotStarted, AtLevel
<1>1. PICK s \in toLaunch, in \in Inputs :
        /\ IF in = NoValue
           THEN /\ job' = [job EXCEPT ![s] = "done"]
                /\ outcome' = [outcome EXCEPT ![s] = "rejected"]
                /\ results' = Append(results, s)
           ELSE Launch(s, in) /\ UNCHANGED results
        /\ toLaunch' = toLaunch \ {s}
        /\ pc' = IF toLaunch = {s} THEN "collect" ELSE "launch"
  BY DEF LaunchParallel
<1>2. /\ pc = "launch" /\ UNCHANGED <<run, level, completed, received, fatal, dbRun>>
      /\ pc' \in {"launch", "collect"}
  BY <1>1 DEF LaunchParallel
<1>3. /\ s \in Level(level) /\ s \in Steps /\ LevelOf[s] = level /\ job[s] = "idle"
      /\ level \in 1 .. Depth
  BY <1>2 DEF Control, Progressed, Level
<1>4. /\ \A t \in Steps : t # s => job'[t] = job[t] /\ outcome'[t] = outcome[t]
      /\ job'[s] = IF in = NoValue THEN "done" ELSE "create"
  BY <1>1, <1>3 DEF Launch, TypeOK, StepType
<1>5. Progressed'
  BY <1>1, <1>2, <1>3, <1>4, LevelsAssumption DEF Control, Progressed, Lower, Level, Fatal, Failed
<1>6. received = 0 /\ completed = Cardinality(Lower(level)) /\ Cardinality(Level(level)) # 1
  BY <1>2 DEF Control, Counting
<1>7. /\ received' + Len(results') = Cardinality(DoneIn(level)')
      /\ \A t \in DoneIn(level)' :
           Fatal(t)' => fatal' \/ \E i \in 1 .. Len(results') : results'[i] = t
  <2>1. CASE in = NoValue
    <3>1. \A t \in Steps : job'[t] = "done" <=> t = s \/ job[t] = "done"
      BY <1>4, <2>1
    <3>2. results' = Append(results, s)
      BY <1>1, <2>1
    <3>3. QED
      BY <1>2, <1>3, <1>4, <3>1, <3>2, SendCounting
  <2>2. CASE in # NoValue
    <3>1. DoneIn(level)' = DoneIn(level)
      BY <1>2, <1>3, <1>4, <2>2 DEF DoneIn, Level
    <3>2. \A t \in DoneIn(level) : Fatal(t)' <=> Fatal(t)
      BY <1>3, <1>4 DEF DoneIn, Level, Fatal, Failed
    <3>3. results' = results
      BY <1>1, <2>2
    <3>4. QED
      BY <1>2, <3>1, <3>2, <3>3 DEF Control, Counting
  <2>3. QED
    BY <2>1, <2>2
<1>8. Counting'
  <2>1. received < Cardinality(Level(level))
    BY <1>3, <1>6, LevelSize
  <2>2. completed = Cardinality(Lower(level)) + received
    <3>1. completed \in Nat
      BY StepSets DEF TypeOK, EngineType
    <3>2. QED
      BY <1>6, <3>1
  <2>3. QED
    BY <1>2, <1>6, <1>7, <2>1, <2>2 DEF Counting, Lower, Level
<1>9. Statuses'
  BY <1>2 DEF Control, Statuses
<1>10. LevelBarrier'
  BY <1>2, <1>3, <1>4, LaunchBarrier
<1>11. QED
  BY <1>5, <1>8, <1>9, <1>10 DEF Control

\* When as many results were received as the level has steps, every step of
\* the level has reported, and every failure that ends the run was seen.
LEMMA LastResultReceived ==
  ASSUME TypeOK, Control, pc = "collect", results # <<>>,
         received + 1 = Cardinality(Level(level))
  PROVE  /\ Level(level) = DoneIn(level)
         /\ Len(results) = 1
<1>1. Level(level) \in SUBSET Steps /\ DoneIn(level) \in SUBSET Level(level)
  BY DEF Level, DoneIn
<1>2. IsFiniteSet(Level(level)) /\ Cardinality(Level(level)) \in Nat
  BY <1>1, StepSets
<1>3. Cardinality(DoneIn(level)) =< Cardinality(Level(level))
      /\ (Cardinality(Level(level)) = Cardinality(DoneIn(level)) => Level(level) = DoneIn(level))
  BY <1>1, <1>2, FS_Subset
<1>4. received + Len(results) = Cardinality(DoneIn(level)) /\ received \in Nat
  BY DEF Control, Counting, TypeOK, EngineType
<1>5. Len(results) \in Nat \ {0}
  BY EmptySeq DEF TypeOK, EngineType
<1>6. Cardinality(DoneIn(level)) \in Nat
  <2>1. DoneIn(level) \in SUBSET Steps
    BY <1>1
  <2>2. QED
    BY <2>1, StepSets
<1>7. Len(results) = 1 /\ Cardinality(Level(level)) = Cardinality(DoneIn(level))
  <2>1. ASSUME NEW n \in Nat, NEW m \in Nat, NEW k \in Nat, NEW l \in Nat,
               m =< n, k + 1 = n, k + l = m, l # 0
        PROVE  l = 1 /\ n = m
    BY <2>1
  <2>2. Len(results) \in Nat /\ Len(results) # 0
    BY <1>5
  <2>3. QED
    BY <1>2, <1>3, <1>4, <1>6, <2>1, <2>2
<1>8. QED
  BY <1>3, <1>7

\* One receive of the collecting loop.
LEMMA CollectControl ==
  ASSUME TypeOK, Control, Collect
  PROVE  Control'
<1> USE DEF NotStarted, AtLevel
<1> DEFINE last == received + 1 = Cardinality(Level(level))
<1>1. /\ pc = "collect" /\ results # <<>>
      /\ UNCHANGED <<level, toLaunch, job, outcome, dbRun>>
  BY DEF Collect, stepVars, storeVars
<1>2. /\ results' = Tail(results)
      /\ received' = received + 1
      /\ completed' = completed + 1
      /\ fatal' = (fatal \/ Fatal(Head(results)))
      /\ pc' = IF last THEN "report" ELSE "collect"
  BY DEF Collect, LastResult
<1>3. run'.status = run.status
  BY DEF Collect, WithResult, TypeOK, EngineType, Run
<1>4. /\ results \in Seq(Steps) /\ received \in Nat /\ completed \in Nat
      /\ level \in 1 .. Depth
  BY <1>1, StepSets DEF TypeOK, EngineType, Control, Progressed
<1>5. /\ Len(results) \in Nat \ {0} /\ Head(results) = results[1]
      /\ Len(results') = Len(results) - 1
      /\ \A i \in 1 .. Len(results) - 1 : results'[i] = results[i + 1]
  BY <1>1, <1>2, <1>4, EmptySeq, HeadTailProperties
<1>6. \A t \in Steps : (Fatal(t)' <=> Fatal(t)) /\ (Failed(t)' <=> Failed(t))
  BY <1>1 DEF Fatal, Failed
<1>7. DoneIn(level)' = DoneIn(level)
  BY <1>1 DEF DoneIn, Level
<1>8. ASSUME NEW t \in DoneIn(level), Fatal(t)
      PROVE  fatal' \/ \E i \in 1 .. Len(results') : results'[i] = t
  <2>1. fatal \/ \E i \in 1 .. Len(results) : results[i] = t
    BY <1>1, <1>8 DEF Control, Counting
  <2>2. CASE fatal
    BY <1>2, <2>2
  <2>3. CASE \E i \in 1 .. Len(results) : results[i] = t
    <3>1. PICK i \in 1 .. Len(results) : results[i] = t
      BY <2>3
    <3>2. CASE i = 1
      BY <1>2, <1>5, <1>8, <3>1, <3>2
    <3>3. CASE i # 1
      <4>1. i - 1 \in 1 .. Len(results') /\ results'[i - 1] = t
        BY <1>5, <3>1, <3>3
      <4>2. QED
        BY <4>1
    <3>4. QED
      BY <3>2, <3>3
  <2>4. QED
    BY <2>1, <2>2, <2>3
<1>9. /\ completed = Cardinality(Lower(level)) + received
      /\ received < Cardinality(Level(level)) /\ Cardinality(Level(level)) # 1
      /\ received + Len(results) = Cardinality(DoneIn(level))
  BY <1>1 DEF Control, Counting
<1>10. CASE last
  <2>1. pc' = "report" /\ Level(level) = DoneIn(level) /\ Len(results') = 0
    <3>1. Level(level) = DoneIn(level) /\ Len(results) = 1
      BY <1>1, <1>10, LastResultReceived
    <3>2. pc' = "report"
      BY <1>2, <1>10
    <3>3. QED
      BY <1>5, <3>1, <3>2
  <2>2. \A s \in Level(level) : job[s] = "done" /\ (Fatal(s) => fatal')
    BY <1>8, <2>1 DEF DoneIn
  <2>3. Progressed'
    BY <1>1, <1>6, <2>1, <2>2 DEF Control, Progressed, Lower, Level
  <2>4. Cardinality(Lower(level)) \in Nat
    <3>1. Lower(level) \in SUBSET Steps
      BY DEF Lower
    <3>2. QED
      BY <3>1, StepSets
  <2>5. completed + 1 = Cardinality(Lower(level + 1))
    BY <1>4, <1>9, <1>10, <2>4, LowerNext
  <2>6. Counting'
    BY <1>1, <1>2, <2>1, <2>5 DEF Counting, Lower
  <2>7. Statuses' /\ LevelBarrier'
    BY <1>1, <1>3, <1>6, <2>1 DEF Control, Statuses, LevelBarrier
  <2>8. QED
    BY <2>3, <2>6, <2>7 DEF Control
<1>11. CASE ~last
  <2>1. pc' = "collect"
    BY <1>2, <1>11
  <2>2. Progressed'
    BY <1>1, <1>6, <2>1 DEF Control, Progressed, Lower, Level
  <2>3. /\ Cardinality(Lower(level)) \in Nat /\ Cardinality(Level(level)) \in Nat
    <3>1. Lower(level) \in SUBSET Steps /\ Level(level) \in SUBSET Steps
      BY DEF Lower, Level
    <3>2. QED
      BY <3>1, StepSets
  <2>4. /\ completed' = Cardinality(Lower(level)) + received'
        /\ received' < Cardinality(Level(level))
        /\ received' + Len(results') = Cardinality(DoneIn(level))
    <3>1. completed' = Cardinality(Lower(level)) + received'
      BY <1>2, <1>4, <1>9, <2>3
    <3>2. received' < Cardinality(Level(level))
      BY <1>2, <1>4, <1>9, <1>11, <2>3
    <3>3. received' + Len(results') = Cardinality(DoneIn(level))
      BY <1>2, <1>4, <1>5, <1>9
    <3>4. QED
      BY <3>1, <3>2, <3>3
  <2>5. \A t \in DoneIn(level)' :
          Fatal(t)' => fatal' \/ \E i \in 1 .. Len(results') : results'[i] = t
    BY <1>6, <1>7, <1>8 DEF DoneIn, Level
  <2>6. Counting'
    BY <1>1, <1>7, <1>9, <2>1, <2>4, <2>5 DEF Counting, Lower, Level
  <2>7. Statuses' /\ LevelBarrier'
    BY <1>1, <1>3, <1>6, <2>1 DEF Control, Statuses, LevelBarrier
  <2>8. QED
    BY <2>2, <2>6, <2>7 DEF Control
<1>12. QED
  BY <1>10, <1>11

\* The progress update, which moves to the next level, and the end of the run.
LEMMA EndControl ==
  ASSUME TypeOK, Control, Report \/ Verdict \/ End
  PROVE  Control'
<1> USE DEF NotStarted, AtLevel
<1>1. UNCHANGED <<job, outcome, completed, fatal>>
  BY DEF Report, Verdict, End, CompleteWorkflow, FailWorkflow, CancelWorkflow, Finish,
         Exit, stepVars
<1>2. \A t \in Steps : (Fatal(t)' <=> Fatal(t)) /\ (Failed(t)' <=> Failed(t))
  BY <1>1 DEF Fatal, Failed
<1>3. LevelBarrier'
  BY <1>1, <1>2 DEF Control, LevelBarrier
<1>4. CASE Report
  <2>1. /\ pc = "report" /\ UNCHANGED run
        /\ dbRun' = run \/ dbRun' = dbRun
        /\ IF fatal
           THEN pc' = "verdict" /\ UNCHANGED level
           ELSE /\ level' = level + 1
                /\ pc' = IF level = Depth THEN "complete" ELSE "level"
    BY <1>4 DEF Report, PersistRun
  <2>2. Statuses'
    BY <1>1, <1>2, <2>1 DEF Control, Statuses
  <2>3. CASE fatal
    <3>1. Progressed'
      BY <1>1, <1>2, <2>1, <2>3 DEF Control, Progressed, Lower, Level
    <3>2. Counting'
      BY <1>1, <2>1, <2>3 DEF Control, Counting, Lower
    <3>3. QED
      BY <1>3, <2>2, <3>1, <3>2 DEF Control
  <2>4. CASE ~fatal
    <3>1. level \in 1 .. Depth /\ Depth \in Nat
      BY <2>1, LevelsAssumption DEF Control, Progressed
    <3>2. \A s \in Lower(level + 1) : job[s] = "done" /\ ~Fatal(s)
      BY <2>1, <2>4, <3>1, LowerNext DEF Control, Progressed
    <3>3. \A s \in Steps : LevelOf[s] > level => job[s] = "idle"
      BY <2>1 DEF Control, Progressed
    <3>4. CASE level = Depth
      <4>1. pc' = "complete" /\ level' = Depth + 1
        BY <2>1, <2>4, <3>4
      <4>2. \A s \in Steps : job[s] = "done" /\ ~Fatal(s)
        BY <3>2, <3>4, LowerEnds
      <4>3. Progressed' /\ Counting'
        BY <1>1, <1>2, <4>1, <4>2 DEF Progressed, Counting
      <4>4. QED
        BY <1>3, <2>2, <4>3 DEF Control
    <3>5. CASE level # Depth
      <4>1. pc' = "level" /\ level' = level + 1
        BY <2>1, <2>4, <3>5
      <4>2. level + 1 \in 1 .. Depth
        BY <3>1, <3>5
      <4>3. \A s \in Steps : LevelOf[s] >= level + 1 => job[s] = "idle"
        BY <3>1, <3>3, LevelsAssumption
      <4>4. Progressed'
        BY <1>1, <1>2, <3>2, <4>1, <4>2, <4>3, LevelsAssumption DEF Progressed, Lower, Level
      <4>5. Counting'
        BY <1>1, <2>1, <4>1 DEF Control, Counting, Lower
      <4>6. QED
        BY <1>3, <2>2, <4>4, <4>5 DEF Control
    <3>6. QED
      BY <3>4, <3>5
  <2>5. QED
    BY <2>3, <2>4
<1>5. CASE Verdict
  <2>1. pc = "verdict" /\ pc' \in {"cancel", "fail"} /\ UNCHANGED <<run, dbRun>>
    BY <1>5 DEF Verdict, storeVars
  <2>2. Progressed' /\ Counting'
    BY <2>1 DEF Progressed, Counting
  <2>3. Statuses'
    BY <1>1, <1>2, <2>1 DEF Control, Statuses
  <2>4. QED
    BY <1>3, <2>2, <2>3 DEF Control
<1>6. ASSUME pc' \in {"exit", "returned"}
      PROVE  Progressed' /\ Counting'
  BY <1>6 DEF Progressed, Counting
<1>7. CASE CompleteWorkflow
  <2>1. pc = "complete" /\ pc' = "exit"
    BY <1>7 DEF CompleteWorkflow, Finish
  <2>2. \A s \in Steps : job[s] = "done" /\ ~Fatal(s)
    BY <2>1 DEF Control, Progressed
  <2>3. Statuses'
    BY <1>1, <1>2, <2>1, <2>2 DEF Statuses
  <2>4. QED
    BY <1>3, <1>6, <2>1, <2>3 DEF Control
<1>8. CASE FailWorkflow \/ CancelWorkflow
  <2>1. /\ pc \in {"fail", "cancel"} /\ pc' = "exit"
        /\ dbRun' = dbRun \/ dbRun'.status \in {"FAILED", "CANCELLED"}
    BY <1>8 DEF FailWorkflow, CancelWorkflow, Finish, PersistRun, TypeOK, EngineType, Run
  <2>2. Statuses'
    BY <1>1, <1>2, <2>1 DEF Control, Statuses
  <2>3. QED
    BY <1>3, <1>6, <2>1, <2>2 DEF Control
<1>9. CASE Exit
  <2>1. pc = "exit" /\ pc' = "returned" /\ UNCHANGED dbRun
    BY <1>9 DEF Exit, storeVars
  <2>2. Statuses'
    BY <1>1, <1>2, <2>1 DEF Control, Statuses
  <2>3. QED
    BY <1>3, <1>6, <2>1, <2>2 DEF Control
<1>10. QED
  BY <1>4, <1>5, <1>7, <1>8, <1>9 DEF End

\* Every step of the specification keeps Control.
LEMMA ControlStep ==
  ASSUME TypeOK, Control, [Next]_vars
  PROVE  Control'
<1>1. CASE Executor
  BY <1>1, StartControl, SequentialControl, LaunchParallelControl, CollectControl, EndControl
  DEF Executor, Parallel
<1>2. CASE \E s \in Steps : Goroutine(s)
  BY <1>2, StepActionControl, ReturnControl DEF Goroutine
<1>3. CASE (\E c \in Cancellers : Client(c)) \/ CallerCancels \/ Done
  BY <1>3, OutsideControl
<1>4. CASE Crash
  BY <1>4, CrashControl
<1>5. CASE UNCHANGED vars
  BY <1>5, SettledFrame DEF vars, stepVars, storeVars
<1>6. QED
  BY <1>1, <1>2, <1>3, <1>4, <1>5 DEF Next

-----------------------------------------------------------------------------
(* The data the steps exchange *)

\* What Outputs and DataFlow speak of is left alone outside the steps.
LEMMA DataFrame ==
  ASSUME Start \/ Begin \/ EnterLevel \/ SingleDone \/ Collect \/ Report \/ Verdict \/ End
           \/ (\E c \in Cancellers : Client(c)) \/ CallerCancels \/ Done \/ UNCHANGED vars
  PROVE  UNCHANGED <<job, outcome, saved, input>>
<1> USE DEF vars, stepVars, storeVars
<1>1. CASE Start \/ Begin \/ EnterLevel
  BY <1>1 DEF Start, CreateRun, Register, Begin, EnterLevel
<1>2. CASE SingleDone \/ Collect \/ Report \/ Verdict
  BY <1>2 DEF SingleDone, Collect, Report, Verdict
<1>3. CASE End
  BY <1>3 DEF End, CompleteWorkflow, FailWorkflow, CancelWorkflow, Finish, Exit
<1>4. CASE \E c \in Cancellers : Client(c)
  BY <1>4 DEF Client, CancelSignal, CancelRead, CancelWrite
<1>5. CASE CallerCancels \/ Done \/ UNCHANGED vars
  BY <1>5 DEF CallerCancels, Done
<1>6. QED
  BY <1>1, <1>2, <1>3, <1>4, <1>5

\* The actions of the executor's goroutine that start a step.
Launching == RunSingle \/ LaunchParallel

\* The step s of the current level, which was idle, is launched with the input
\* in, or rejected.
Launches(s, in, isFirst) ==
  /\ s \in Level(level) /\ job[s] = "idle"
  /\ completed = Cardinality(Lower(level))
  /\ isFirst => Previous[s] = <<>>
  /\ ResolveStepInput(s, isFirst, in)
  /\ \/ pc = "resolve" /\ pc' = (IF in = NoValue THEN "fail" ELSE "await")
     \/ pc = "launch" /\ pc' \in {"launch", "collect"}
  /\ results' \in {results, Append(results, s)}
  /\ UNCHANGED <<run, level, received, fatal, err, attempt, calls, late,
                 ctxVars, dbRun, dbStep, saved, clientVars>>
  /\ \A t \in Steps : t # s =>
       /\ job'[t] = job[t] /\ outcome'[t] = outcome[t]
       /\ input'[t] = input[t] /\ index'[t] = index[t]
  /\ \/ /\ in = NoValue /\ input'[s] = input[s] /\ index'[s] = index[s]
        /\ \/ pc = "resolve" /\ job'[s] = "idle" /\ outcome'[s] = outcome[s]
           \/ pc = "launch" /\ job'[s] = "done" /\ outcome'[s] = "rejected"
     \/ /\ in # NoValue /\ input'[s] = in /\ index'[s] = completed
        /\ job'[s] = "create" /\ outcome'[s] = outcome[s]

\* A launched step was idle; only its own bookkeeping changes, and a step that
\* is treated as the first one has no predecessor.
LEMMA LaunchingStep ==
  ASSUME TypeOK, Control, Launching
  PROVE  \E s \in Steps, in \in Inputs, isFirst \in BOOLEAN : Launches(s, in, isFirst)
<1>1. CASE RunSingle
  <2>1. PICK s \in Level(level), in \in Inputs :
          /\ ResolveStepInput(s, completed = 0, in)
          /\ IF in = NoValue
             THEN pc' = "fail" /\ UNCHANGED stepVars
             ELSE pc' = "await" /\ Launch(s, in)
    BY <1>1 DEF RunSingle
  <2>2. /\ pc = "resolve" /\ s \in Steps /\ LevelOf[s] = level /\ level \in 1 .. Depth
        /\ completed = Cardinality(Lower(level))
        /\ UNCHANGED <<run, level, results, received, fatal, err, ctxVars, dbRun, dbStep,
                       saved, clientVars>>
    BY <1>1 DEF RunSingle, Level, Control, Progressed, Counting, AtLevel
  <2>3. job[s] = "idle"
    BY <2>2 DEF Control, Progressed
  <2>4. completed = 0 => Previous[s] = <<>>
    <3>1. SUFFICES ASSUME completed = 0, Previous[s] # <<>>
                   PROVE  FALSE
      OBVIOUS
    <3>2. Previous[s] \in Seq(Steps) /\ Len(Previous[s]) \in Nat \ {0}
      BY <2>2, <3>1, EmptySeq, PreviousAssumption
    <3>3. Previous[s][1] \in Lower(level)
      <4>1. 1 \in 1 .. Len(Previous[s]) /\ Previous[s][1] \in Steps
        BY <3>2
      <4>2. LevelOf[Previous[s][1]] < LevelOf[s]
        BY <2>2, <4>1, PreviousAssumption
      <4>3. QED
        BY <2>2, <4>1, <4>2 DEF Lower
    <3>4. Lower(level) \in SUBSET Steps
      BY DEF Lower
    <3>5. Cardinality(Lower(level)) = 0
      BY <2>2, <3>1
    <3>6. QED
      BY <3>3, <3>4, <3>5, StepSets, FS_EmptySet
  <2>5. UNCHANGED <<attempt, calls, late>> /\ pc' = IF in = NoValue THEN "fail" ELSE "await"
    BY <2>1 DEF Launch, stepVars
  <2>6. \A t \in Steps : t # s =>
          /\ job'[t] = job[t] /\ outcome'[t] = outcome[t]
          /\ input'[t] = input[t] /\ index'[t] = index[t]
    BY <2>1, <2>2 DEF Launch, TypeOK, StepType, stepVars
  <2>7. \/ in = NoValue /\ UNCHANGED <<input, index, job, outcome>>
        \/ /\ in # NoValue /\ input'[s] = in /\ index'[s] = completed
           /\ job'[s] = "create" /\ outcome'[s] = outcome[s]
    BY <2>1, <2>2 DEF Launch, ExecutionIndex, TypeOK, StepType, stepVars
  <2>8. Launches(s, in, completed = 0)
    BY <2>1, <2>2, <2>3, <2>4, <2>5, <2>6, <2>7 DEF Launches
  <2>9. QED
    BY <2>2, <2>8
<1>2. CASE LaunchParallel
  <2>1. PICK s \in toLaunch, in \in Inputs :
          /\ ResolveStepInput(s, FALSE, in)
          /\ IF in = NoValue
             THEN /\ job' = [job EXCEPT ![s] = "done"]
                  /\ outcome' = [outcome EXCEPT ![s] = "rejected"]
                  /\ results' = Append(results, s)
                  /\ UNCHANGED <<attempt, input, index, calls, late>>
             ELSE Launch(s, in) /\ UNCHANGED results
          /\ pc' = IF toLaunch = {s} THEN "collect" ELSE "launch"
    BY <1>2 DEF LaunchParallel
  <2>2. /\ pc = "launch" /\ pc' \in {"launch", "collect"} /\ s \in Steps /\ s \in Level(level)
        /\ completed = Cardinality(Lower(level))
        /\ UNCHANGED <<run, level, received, fatal, err, ctxVars, dbRun, dbStep,
                       saved, clientVars>>
    BY <1>2, <2>1 DEF LaunchParallel, TypeOK, EngineType, Control, Progressed, Counting
  <2>3. job[s] = "idle"
    BY <2>1, <2>2 DEF Control, Progressed
  <2>4. UNCHANGED <<attempt, calls, late>> /\ results' \in {results, Append(results, s)}
    BY <2>1 DEF Launch
  <2>5. \A t \in Steps : t # s =>
          /\ job'[t] = job[t] /\ outcome'[t] = outcome[t]
          /\ input'[t] = input[t] /\ index'[t] = index[t]
    BY <2>1, <2>2 DEF Launch, TypeOK, StepType
  <2>6. \/ /\ in = NoValue /\ input'[s] = input[s] /\ index'[s] = index[s]
           /\ job'[s] = "done" /\ outcome'[s] = "rejected"
        \/ /\ in # NoValue /\ input'[s] = in /\ index'[s] = completed
           /\ job'[s] = "create" /\ outcome'[s] = outcome[s]
    BY <2>1, <2>2 DEF Launch, ExecutionIndex, TypeOK, StepType
  <2>7. Launches(s, in, FALSE)
    BY <2>1, <2>2, <2>3, <2>4, <2>5, <2>6 DEF Launches
  <2>8. QED
    BY <2>2, <2>7
<1>3. QED
  BY <1>1, <1>2 DEF Launching

\* No output is recorded, stored or produced initially.
LEMMA InitData == Init => Outputs /\ DataFlow
BY DEF Init, Outputs, DataFlow

\* A step action keeps Outputs, and an output once produced.
LEMMA StepActionOutputs ==
  ASSUME TypeOK, Outputs, NEW s \in Steps, StepAction(s)
  PROVE  /\ Outputs'
         /\ \A t \in Steps : outcome[t] \in {"ok", "skip"} => outcome'[t] = outcome[t]
         /\ UNCHANGED input
<1> USE DEF TypeOK, StepType, Outputs
<1>0. ASSUME UNCHANGED <<saved, input>>, job[s] \notin {"record", "save", "return", "done", "dead"},
             \A t \in Steps : t # s => job'[t] = job[t] /\ outcome'[t] = outcome[t],
             \/ outcome'[s] \notin {"ok", "skip"} /\ job'[s] \notin {"record", "save"}
             \/ outcome'[s] \in {"ok", "skip"} /\ job'[s] = "record"
      PROVE  /\ Outputs'
             /\ \A t \in Steps : outcome[t] \in {"ok", "skip"} => outcome'[t] = outcome[t]
             /\ UNCHANGED input
  BY <1>0 DEF StoreType
<1>1. CASE CreateExecution(s)
  <2>1. /\ job[s] = "create" /\ UNCHANGED <<saved, input>>
        /\ \A t \in Steps : t # s => job'[t] = job[t] /\ outcome'[t] = outcome[t]
        /\ job'[s] \in {"attempt", "return"} /\ outcome'[s] \in {outcome[s], "rejected"}
    BY <1>1 DEF CreateExecution
  <2>2. QED
    BY <1>0, <2>1
<1>2. CASE Attempt(s) \/ Backoff(s)
  BY <1>2 DEF Attempt, Backoff, storeVars
<1>3. CASE RecordRetrying(s) \/ RecordRunning(s)
  BY <1>3 DEF RecordRetrying, RecordRunning
<1>4. CASE Execute(s)
  <2>1. /\ job[s] = "executing" /\ UNCHANGED <<saved, input>>
        /\ \A t \in Steps : t # s => job'[t] = job[t] /\ outcome'[t] = outcome[t]
        /\ \/ outcome'[s] \in {"ok", "skip"} /\ job'[s] = "record"
           \/ outcome'[s] = outcome[s] /\ job'[s] = "attempt"
    BY <1>4 DEF Execute, storeVars
  <2>2. QED
    BY <1>0, <2>1
<1>5. CASE RecordResult(s)
  BY <1>5 DEF RecordResult
<1>6. CASE SaveOutput(s)
  BY <1>6 DEF SaveOutput
<1>7. CASE RecordFailure(s)
  BY <1>7 DEF RecordFailure
<1>8. QED
  BY <1>1, <1>2, <1>3, <1>4, <1>5, <1>6, <1>7 DEF StepAction

\* Every step of the specification keeps Outputs; an output once produced is
\* the step's outcome for good.
LEMMA OutputsStep ==
  ASSUME TypeOK, Control, Outputs, [Next]_vars
  PROVE  /\ Outputs'
         /\ \A t \in Steps : outcome[t] \in {"ok", "skip"} => outcome'[t] = outcome[t]
<1>1. CASE UNCHANGED <<job, outcome, saved>>
  BY <1>1 DEF Outputs
<1>2. CASE Launching
  <2>1. PICK s \in Steps, in \in Inputs, isFirst \in BOOLEAN : Launches(s, in, isFirst)
    BY <1>2, LaunchingStep
  <2>2. QED
    BY <2>1 DEF Launches, Outputs, TypeOK, StoreType
<1>3. CASE \E s \in Steps : StepAction(s)
  BY <1>3, StepActionOutputs
<1>4. CASE \E s \in Steps : Return(s)
  <2>1. PICK s \in Steps : /\ job[s] = "return" /\ job' = [job EXCEPT ![s] = "done"]
                           /\ UNCHANGED <<outcome, saved>>
    BY <1>4 DEF Return, storeVars
  <2>2. QED
    BY <2>1 DEF Outputs, TypeOK, StepType
<1>5. CASE Crash
  <2>1. /\ UNCHANGED <<outcome, saved>>
        /\ job' = [s \in Steps |-> IF job[s] \in {"idle", "done"} THEN job[s] ELSE "dead"]
    BY <1>5 DEF Crash, storeVars
  <2>2. QED
    BY <2>1 DEF Outputs
<1>6. QED
  BY <1>1, <1>2, <1>3, <1>4, <1>5, DataFrame
  DEF Next, Executor, Sequential, Parallel, Goroutine, Launching

\* Every step of the specification keeps DataFlow: a step is launched with the
\* stored output of its first predecessor or with null, and what was stored
\* was produced.
LEMMA DataFlowStep ==
  ASSUME TypeOK, Control, Outputs, DataFlow, [Next]_vars
  PROVE  DataFlow'
<1>1. \A t \in Steps : outcome[t] \in {"ok", "skip"} => outcome'[t] \in {"ok", "skip"}
  BY OutputsStep
<1>2. ASSUME NEW s \in Steps, Previous[s] # <<>>
      PROVE  Previous[s][1] \in Steps
  BY <1>2, PreviousAssumption, EmptySeq
<1>3. CASE UNCHANGED input
  BY <1>1, <1>2, <1>3 DEF DataFlow
<1>4. CASE Launching
  <2>1. PICK s \in Steps, in \in Inputs, isFirst \in BOOLEAN : Launches(s, in, isFirst)
    BY <1>4, LaunchingStep
  <2>2. ASSUME in # NoValue, Previous[s] # <<>>
        PROVE  LET p == Previous[s][1] IN
                 \/ in = p /\ outcome[p] \in {"ok", "skip"}
                 \/ in = NullInput /\ p \in ContinueOnError
    BY <2>1, <2>2 DEF Launches, ResolveStepInput, FirstPredecessor, Fallback, Outputs
  <2>3. ASSUME NEW t \in Steps, input'[t] # NoValue, Previous[t] # <<>>
        PROVE  LET p == Previous[t][1] IN
                 \/ input'[t] = p /\ outcome'[p] \in {"ok", "skip"}
                 \/ input'[t] = NullInput /\ p \in ContinueOnError
    <3>1. CASE t = s /\ in # NoValue
      <4>1. input'[t] = in
        BY <2>1, <3>1 DEF Launches
      <4>2. QED
        BY <1>1, <1>2, <2>2, <2>3, <3>1, <4>1
    <3>2. CASE t # s \/ in = NoValue
      <4>1. input'[t] = input[t]
        BY <2>1, <3>2 DEF Launches
      <4>2. QED
        BY <1>1, <1>2, <2>3, <4>1 DEF DataFlow
    <3>3. QED
      BY <3>1, <3>2
  <2>4. QED
    BY <2>3 DEF DataFlow
<1>5. CASE \E s \in Steps : Goroutine(s)
  BY <1>3, <1>5, StepActionOutputs DEF Goroutine, Return
<1>6. CASE Crash
  BY <1>3, <1>6 DEF Crash
<1>7. QED
  BY <1>3, <1>4, <1>5, <1>6, DataFrame
  DEF Next, Executor, Sequential, Parallel, Launching

-----------------------------------------------------------------------------
(* The theorems *)

\* The inductive invariant holds in every reachable state.
THEOREM Invariance == Spec => []IInv
<1>1. Init => IInv
  BY InitType, InitControl, InitData DEF IInv
<1>2. IInv /\ [Next]_vars => IInv'
  <2> SUFFICES ASSUME IInv, [Next]_vars
               PROVE  IInv'
    OBVIOUS
  <2>1. TypeOK /\ Progressed /\ Counting /\ Control /\ Outputs /\ DataFlow
    BY DEF IInv, Control
  <2>2. TypeOK'
    BY <2>1, TypeStep
  <2>3. Control'
    BY <2>1, ControlStep
  <2>4. Outputs' /\ DataFlow'
    BY <2>1, OutputsStep, DataFlowStep
  <2>5. QED
    BY <2>2, <2>3, <2>4 DEF IInv
<1>3. QED
  BY <1>1, <1>2, PTL DEF Spec

\* Every variable stays in its range; in particular completedSteps, which the
\* collecting loop increments once per receive, never exceeds the number of
\* steps, and neither does run.Progress.
THEOREM TypeCorrect == Spec => []TypeOK
<1>1. IInv => TypeOK
  BY DEF IInv
<1>2. QED
  BY <1>1, Invariance, PTL

\* The barrier between levels: although the executor of a parallel level only
\* counts results, no step is started before every step of the levels before
\* has reported, and none after a failure that ends the run.
THEOREM Barrier == Spec => []LevelBarrier
<1>1. IInv => LevelBarrier
  BY DEF IInv, Control
<1>2. QED
  BY <1>1, Invariance, PTL

\* A run stored as COMPLETED has executed every step, and none that may not
\* fail has failed, whatever Cancel and the store did in the meantime.
THEOREM CompletedIsComplete == Spec => []CompletedMeansDone
<1>1. IInv => CompletedMeansDone
  BY DEF IInv, Control, Statuses, CompletedMeansDone, Fatal
<1>2. QED
  BY <1>1, Invariance, PTL

\* A step with predecessors receives the stored output of the first of them,
\* which that step produced, or null in its place if it may fail.
THEOREM InputsComeFromPredecessors == Spec => []DataFlow
<1>1. IInv => DataFlow
  BY DEF IInv
<1>2. QED
  BY <1>1, Invariance, PTL

=================================================================================
