----------------------------- MODULE EngineRunProofs -----------------------------
(***************************************************************************)
(* More about WorkflowEngine on any store: the order of the step records,   *)
(* the work a cancelled run may still do, the run's output, and what a nil  *)
(* error means.  RunInv is what these need beside IInv.                     *)
(*                                                                          *)
(* The second part is about a store that never refuses a call; ReliableInv  *)
(* is what holds there beside RunInv.                                       *)
(***************************************************************************)
EXTENDS WorkflowEngineProofs

Ended == {"fail", "cancel", "exit", "returned"}

\* Where executeStep of a step is once it is over.
Over == {"idle", "done", "dead"}

\* No executeStep outlives the levels: the executor leaves the loop only when
\* every step it started has reported.
Quiet ==
  /\ pc \in Ended => \A s \in Steps : job[s] \in {"idle", "done"}
  /\ pc = "crashed" => \A s \in Steps : job[s] \in Over
  /\ \A s \in Steps : job[s] = "dead" => pc = "crashed"

\* The execution index of a step is the number of steps in the levels before.
Indexed ==
  \A s \in Steps : input[s] # NoValue =>
    job[s] # "idle" /\ index[s] = Cardinality(Lower(LevelOf[s]))

\* Where executeStep may be after it entered a handler with a cancelled context.
AfterCancel == {"executing", "record", "save", "attempt", "exhausted", "return", "done", "dead"}

\* A step that entered its handler late will not come to the call again, and
\* the executor will not come to another level.
LateEntries ==
  /\ \A s \in Steps : late[s] > 0 =>
       /\ ctxDone /\ late[s] = 1 /\ job[s] \in AfterCancel
       /\ pc \in {"resolve", "await", "launch", "collect"} => LevelOf[s] = level
  /\ \A s, t \in Steps : late[s] > 0 /\ late[t] > 0 => LevelOf[s] = LevelOf[t]

\* The last write of the executor is not undone by a client.
StoredOnNil == pc \in {"exit", "returned"} /\ ~err => dbRun.status \in TerminalRun

\* out is an output no worse than that of s: of its level or of a deeper one.
Covers(out, s) == out # NoValue /\ LevelOf[s] =< LevelOf[out]

\* The result of s is in the channel.
Waiting(s) == \E i \in 1 .. Len(results) : results[i] = s

\* run.Output covers every output whose result was taken.
OutputSoFar ==
  /\ run.output # NoValue => outcome[run.output] = "ok" /\ job[run.output] = "done"
  /\ \A t \in Steps : outcome[t] = "ok" =>
       /\ pc \in AtLevel /\ LevelOf[t] < level => Covers(run.output, t)
       /\ pc \in {"launch", "collect"} /\ t \in DoneIn(level) =>
            Covers(run.output, t) \/ Waiting(t)
       /\ pc \in {"report", "verdict"} /\ LevelOf[t] = level => Covers(run.output, t)
       /\ pc = "complete" => Covers(run.output, t)
  /\ dbRun.status = "COMPLETED" =>
       /\ dbRun.output # NoValue => outcome[dbRun.output] = "ok"
       /\ \A t \in Steps : outcome[t] = "ok" => Covers(dbRun.output, t)

\* What waits in the channel are results of the current level.
ChannelOfLevel ==
  pc \in {"launch", "collect"} => \A t \in Steps : Waiting(t) => t \in DoneIn(level)

RunInv == Quiet /\ Indexed /\ LateEntries /\ StoredOnNil /\ ChannelOfLevel /\ OutputSoFar

-----------------------------------------------------------------------------
(* What the actions leave alone *)

\* The actions that are neither a part of executeStep nor start one.
Outside ==
  \/ Start \/ Begin \/ EnterLevel \/ SingleDone \/ Collect \/ Report \/ Verdict \/ End
  \/ (\E c \in Cancellers : Client(c)) \/ CallerCancels \/ Done \/ UNCHANGED vars

\* They do not touch the bookkeeping of the steps.
LEMMA OutsideFrame ==
  ASSUME Outside
  PROVE  UNCHANGED <<job, attempt, input, index, outcome, calls, late, dbStep, saved>>
<1> USE DEF vars, stepVars, storeVars
<1>1. CASE Start \/ Begin \/ EnterLevel
  BY <1>1 DEF Start, CreateRun, Register, Begin, EnterLevel
<1>2. CASE SingleDone \/ Collect \/ Report \/ Verdict
  BY <1>2 DEF SingleDone, Collect, Report, Verdict
<1>3. CASE End
  BY <1>3 DEF End, CompleteWorkflow, FailWorkflow, CancelWorkflow, Finish, Exit
<1>4. CASE \E c \in Cancellers : Client(c)
  BY <1>4 DEF Client, CancelSignal, CancelRead, CancelWrite
<1>5. CASE CallerCancels \/ Done \/ UNCHANGED vars
  BY <1>5 DEF CallerCancels, Done
<1>6. QED
  BY <1>1, <1>2, <1>3, <1>4, <1>5 DEF Outside

\* Clients and the caller do not touch what the executor knows.
LEMMA ClientFrame ==
  ASSUME (\E c \in Cancellers : Client(c)) \/ CallerCancels \/ Done \/ UNCHANGED vars
  PROVE  UNCHANGED engineVars
BY DEF Client, CancelSignal, CancelRead, CancelWrite, CallerCancels, Done, vars

\* A step of the system is one of these.
LEMMA StepKinds ==
  ASSUME [Next]_vars
  PROVE  \/ Outside \/ Launching \/ Crash
         \/ \E s \in Steps : StepAction(s) \/ Return(s)
BY DEF Next, Executor, Sequential, Parallel, Goroutine, Launching, Outside

\* What one action of executeStep may change.
LEMMA StepActionFrame ==
  ASSUME NEW s \in Steps, StepAction(s), TypeOK
  PROVE  /\ UNCHANGED <<engineVars, ctxVars, clientVars, dbRun, input, index>>
         /\ \A t \in Steps : t # s =>
              /\ job'[t] = job[t] /\ outcome'[t] = outcome[t] /\ attempt'[t] = attempt[t]
              /\ calls'[t] = calls[t] /\ late'[t] = late[t] /\ dbStep'[t] = dbStep[t]
         /\ job[s] \notin {"idle", "return", "done", "dead"}
         /\ job'[s] \notin {"idle", "create", "done", "dead"}
<1> USE DEF TypeOK, StepType, StoreType, storeVars, PersistStep
<1>1. UNCHANGED <<engineVars, ctxVars, clientVars>>
  BY DEF StepAction
<1>2. CASE CreateExecution(s)
  BY <1>1, <1>2 DEF CreateExecution
<1>3. CASE Attempt(s)
  BY <1>1, <1>3 DEF Attempt
<1>4. CASE RecordRetrying(s)
  BY <1>1, <1>4 DEF RecordRetrying
<1>5. CASE Backoff(s)
  BY <1>1, <1>5 DEF Backoff
<1>6. CASE RecordRunning(s)
  BY <1>1, <1>6 DEF RecordRunning
<1>7. CASE Execute(s)
  BY <1>1, <1>7 DEF Execute
<1>8. CASE RecordResult(s)
  BY <1>1, <1>8 DEF RecordResult
<1>9. CASE SaveOutput(s)
  BY <1>1, <1>9 DEF SaveOutput
<1>10. CASE RecordFailure(s)
  BY <1>1, <1>10 DEF RecordFailure
<1>11. QED
  BY <1>2, <1>3, <1>4, <1>5, <1>6, <1>7, <1>8, <1>9, <1>10 DEF StepAction

\* The return of executeStep changes its place and the channel.
LEMMA ReturnFrame ==
  ASSUME NEW s \in Steps, Return(s), TypeOK
  PROVE  /\ job[s] = "return" /\ job'[s] = "done"
         /\ \A t \in Steps : t # s => job'[t] = job[t]
         /\ results' \in {results, Append(results, s)}
         /\ Cardinality(Level(level)) # 1 => results' = Append(results, s)
         /\ UNCHANGED <<pc, run, level, completed, received, fatal, err, attempt, input, index,
                        outcome, calls, late, ctxVars, storeVars, clientVars>>
BY DEF Return, TypeOK, StepType

-----------------------------------------------------------------------------
(* The steps end before the executor does *)

\* A busy step is one of the current level.
LEMMA BusyStep ==
  ASSUME TypeOK, Control, Quiet, NEW s \in Steps, job[s] \notin Over
  PROVE  s \in Level(level) /\ pc \in {"await", "launch", "collect"} /\ level \in 1 .. Depth
<1>1. pc \in NotStarted \cup AtLevel \cup {"complete"}
  BY DEF Quiet, Over, Ended, TypeOK, EngineType, ExecutorState, NotStarted, AtLevel
<1>2. s \in Level(level) /\ pc \in {"await", "launch", "collect"}
  BY <1>1, ExecutingStep DEF Over
<1>3. QED
  BY <1>2 DEF Control, Progressed, AtLevel

\* Where the executor may leave the loop, every step is idle or has reported.
LEMMA AllOver ==
  ASSUME TypeOK, Control, pc \in {"begin", "level", "report", "verdict", "complete"}
  PROVE  \A s \in Steps : job[s] \in {"idle", "done"}
<1>1. CASE pc \in {"begin", "complete"}
  BY <1>1 DEF Control, Progressed, NotStarted
<1>2. CASE pc \in {"level", "report", "verdict"}
  <2>1. ASSUME NEW s \in Steps
        PROVE  s \in Lower(level) \/ s \in Level(level) \/ LevelOf[s] > level
    <3>1. level \in 1 .. Depth /\ LevelOf[s] \in 1 .. Depth
      BY <1>2, LevelsAssumption DEF Control, Progressed, AtLevel
    <3>2. QED
      BY <3>1, LevelsAssumption DEF Lower, Level
  <2>2. QED
    BY <1>2, <2>1 DEF Control, Progressed, AtLevel
<1>3. QED
  BY <1>1, <1>2

\* A level of one step has no other step.
LEMMA OnlyStep ==
  ASSUME TypeOK, NEW i \in 1 .. Depth, Cardinality(Level(i)) = 1,
         NEW s \in Level(i), NEW t \in Level(i)
  PROVE  s = t
<1>1. Level(i) \in SUBSET Steps
  BY DEF Level
<1>2. IsFiniteSet(Level(i))
  BY <1>1, StepSets
<1>3. \E x : Level(i) = {x}
  BY <1>2, FS_Singleton
<1>4. QED
  BY <1>3

\* After a level of one step has reported, so has every step started.
LEMMA SingleOver ==
  ASSUME TypeOK, Control, pc = "await", NEW s \in Level(level), job[s] = "done"
  PROVE  \A t \in Steps : job[t] \in {"idle", "done"}
<1>1. level \in 1 .. Depth /\ Cardinality(Level(level)) = 1
  BY DEF Control, Progressed, AtLevel
<1>2. ASSUME NEW t \in Steps
      PROVE  job[t] \in {"idle", "done"}
  <2>1. LevelOf[t] \in 1 .. Depth
    BY LevelsAssumption
  <2>2. CASE LevelOf[t] = level
    <3>1. t \in Level(level)
      BY <2>2 DEF Level
    <3>2. t = s
      BY <1>1, <3>1, OnlyStep
    <3>3. QED
      BY <3>2
  <2>3. CASE LevelOf[t] # level
    <3>1. t \in Lower(level) \/ LevelOf[t] > level
      BY <1>1, <2>1, <2>3, LevelsAssumption DEF Lower
    <3>2. QED
      BY <3>1 DEF Control, Progressed, AtLevel
  <2>4. QED
    BY <2>2, <2>3
<1>3. QED
  BY <1>2

\* Every step of the system keeps Quiet.
LEMMA QuietStep ==
  ASSUME TypeOK, Control, Quiet, [Next]_vars
  PROVE  Quiet'
<1> USE DEF Quiet, Over, Ended
<1>1. ASSUME UNCHANGED job, pc' # "crashed", pc # "crashed",
             pc' \in Ended => pc \in Ended \/ \A s \in Steps : job[s] \in {"idle", "done"}
      PROVE  Quiet'
  BY <1>1
<1>2. CASE Outside
  <2>0. UNCHANGED job
    BY <1>2, OutsideFrame
  <2>1. CASE Start \/ Verdict \/ Report
    BY <1>1, <2>0, <2>1, AllOver
    DEF Start, CreateRun, Register, Verdict, Report
  <2>2. CASE Begin \/ EnterLevel
    BY <1>1, <2>0, <2>2, AllOver DEF Begin, EnterLevel
  <2>3. CASE SingleDone
    <3>1. /\ pc = "await" /\ pc' # "crashed"
          /\ \E s \in Level(level) : job[s] = "done"
      BY <2>3 DEF SingleDone
    <3>2. QED
      BY <1>1, <2>0, <3>1, SingleOver
  <2>4. CASE Collect
    BY <1>1, <2>0, <2>4 DEF Collect
  <2>5. CASE End
    BY <1>1, <2>0, <2>5, AllOver
    DEF End, CompleteWorkflow, FailWorkflow, CancelWorkflow, Finish, Exit
  <2>6. CASE (\E c \in Cancellers : Client(c)) \/ CallerCancels \/ Done \/ UNCHANGED vars
    BY <2>0, <2>6, ClientFrame DEF engineVars
  <2>7. QED
    BY <1>2, <2>1, <2>2, <2>3, <2>4, <2>5, <2>6 DEF Outside
<1>3. CASE Launching
  <2>1. PICK s \in Steps, in \in Inputs, isFirst \in BOOLEAN : Launches(s, in, isFirst)
    BY <1>3, LaunchingStep
  <2>2. CASE pc = "resolve"
    <3>1. \A t \in Steps : job[t] \in {"idle", "done"}
      <4>1. ASSUME NEW t \in Steps
            PROVE  t \in Lower(level) \/ t \in Level(level) \/ LevelOf[t] > level
        BY <2>2, LevelsAssumption DEF Lower, Level, Control, Progressed, AtLevel
      <4>2. QED
        BY <2>2, <4>1 DEF Control, Progressed, AtLevel
    <3>2. QED
      BY <2>1, <2>2, <3>1 DEF Launches
  <2>3. CASE pc = "launch"
    BY <2>1, <2>3 DEF Launches
  <2>4. QED
    BY <2>1, <2>2, <2>3 DEF Launches
<1>4. ASSUME NEW s \in Steps, StepAction(s)
      PROVE  Quiet'
  <2>1. /\ UNCHANGED pc /\ \A t \in Steps : t # s => job'[t] = job[t]
        /\ job[s] \notin Over /\ job'[s] # "dead"
    BY <1>4, StepActionFrame DEF engineVars
  <2>2. pc \in {"await", "launch", "collect"}
    BY <2>1, BusyStep
  <2>3. QED
    BY <2>1, <2>2
<1>5. ASSUME NEW s \in Steps, Return(s)
      PROVE  Quiet'
  BY <1>5, ReturnFrame
<1>6. CASE Crash
  BY <1>6 DEF Crash
<1>7. QED
  BY <1>2, <1>3, <1>4, <1>5, <1>6, StepKinds

-----------------------------------------------------------------------------
(* The order of the step records *)

\* Every step of the system keeps Indexed: all steps of a level are launched
\* while completedSteps counts the levels before.
LEMMA IndexedStep ==
  ASSUME TypeOK, Control, Indexed, [Next]_vars
  PROVE  Indexed'
<1> USE DEF Indexed
<1>1. CASE Outside
  BY <1>1, OutsideFrame DEF Lower
<1>2. CASE Launching
  <2>1. PICK s \in Steps, in \in Inputs, isFirst \in BOOLEAN : Launches(s, in, isFirst)
    BY <1>2, LaunchingStep
  <2>2. s \in Steps /\ LevelOf[s] = level
    BY <2>1 DEF Launches, Level
  <2>3. QED
    BY <2>1, <2>2 DEF Launches, Lower
<1>3. ASSUME NEW s \in Steps, StepAction(s)
      PROVE  Indexed'
  BY <1>3, StepActionFrame DEF Lower
<1>4. ASSUME NEW s \in Steps, Return(s)
      PROVE  Indexed'
  BY <1>4, ReturnFrame DEF Lower
<1>5. CASE Crash
  BY <1>5 DEF Crash, Lower
<1>6. QED
  BY <1>1, <1>2, <1>3, <1>4, <1>5, StepKinds

\* The levels before a step's are more steps than those before a lower one's.
LEMMA LowerGrows ==
  ASSUME NEW s \in Steps, NEW t \in Steps, LevelOf[t] < LevelOf[s]
  PROVE  Cardinality(Lower(LevelOf[t])) < Cardinality(Lower(LevelOf[s]))
<1> DEFINE L == Lower(LevelOf[t])
           M == Lower(LevelOf[s])
<1>1. LevelOf[t] \in Nat /\ LevelOf[s] \in Nat
  BY LevelsAssumption
<1>2. L \in SUBSET Steps /\ M \in SUBSET Steps
  BY DEF Lower
<1>3. L \cup {t} \in SUBSET M /\ t \notin L
  BY <1>1, LevelsAssumption DEF Lower
<1>4. IsFiniteSet(L) /\ IsFiniteSet(M) /\ Cardinality(L) \in Nat /\ Cardinality(M) \in Nat
  BY <1>2, StepSets
<1>5. Cardinality(L \cup {t}) = Cardinality(L) + 1
  BY <1>3, <1>4, FS_AddElement
<1>6. Cardinality(L \cup {t}) =< Cardinality(M)
  BY <1>3, <1>4, FS_Subset
<1>7. QED
  BY <1>4, <1>5, <1>6

-----------------------------------------------------------------------------
(* The work after a cancellation *)

\* The context of a run, once cancelled, stays so.
LEMMA CancelledForGood ==
  ASSUME [Next]_vars, ctxDone
  PROVE  ctxDone'
<1> USE DEF ctxVars, vars
<1>1. CASE Start \/ Begin \/ EnterLevel \/ Sequential \/ Parallel
  BY <1>1 DEF Start, CreateRun, Register, Begin, EnterLevel, Sequential, RunSingle, SingleDone,
     Parallel, LaunchParallel, Collect
<1>2. CASE Report \/ Verdict \/ End
  BY <1>2 DEF Report, Verdict, End, CompleteWorkflow, FailWorkflow, CancelWorkflow, Finish, Exit
<1>3. CASE \E s \in Steps : Goroutine(s)
  BY <1>3 DEF Goroutine, StepAction, Return
<1>4. CASE (\E c \in Cancellers : Client(c)) \/ CallerCancels \/ Crash \/ Done \/ UNCHANGED vars
  BY <1>4 DEF Client, CancelSignal, CancelRead, CancelWrite, CallerCancels, Crash, Done
<1>5. QED
  BY <1>1, <1>2, <1>3, <1>4 DEF Next, Executor

\* Every step of the system keeps LateEntries: after the entry the loop sees
\* the cancelled context before it calls again, and so does the executor
\* before it enters another level.
LEMMA LateEntriesStep ==
  ASSUME TypeOK, Control, Quiet, LateEntries, [Next]_vars
  PROVE  LateEntries'
<1> USE DEF LateEntries, AfterCancel
<1>0. ctxDone => ctxDone'
  BY CancelledForGood
<1>1. ASSUME UNCHANGED <<late, job>>,
             (\E s \in Steps : late[s] > 0) /\ pc' \in {"resolve", "await", "launch", "collect"} =>
               level' = level /\ pc \in {"resolve", "await", "launch", "collect"}
      PROVE  LateEntries'
  BY <1>0, <1>1
<1>2. CASE Outside
  <2>0. UNCHANGED <<job, late>>
    BY <1>2, OutsideFrame
  <2>1. CASE Start \/ Begin \/ Verdict \/ Report \/ SingleDone \/ Collect
    BY <1>1, <2>0, <2>1
    DEF Start, CreateRun, Register, Begin, Verdict, Report, SingleDone, Collect
  <2>2. CASE EnterLevel
    BY <1>1, <2>0, <2>2 DEF EnterLevel
  <2>3. CASE End
    BY <1>1, <2>0, <2>3
    DEF End, CompleteWorkflow, FailWorkflow, CancelWorkflow, Finish, Exit
  <2>4. CASE (\E c \in Cancellers : Client(c)) \/ CallerCancels \/ Done \/ UNCHANGED vars
    BY <1>1, <2>0, <2>4, ClientFrame DEF engineVars
  <2>5. QED
    BY <1>2, <2>1, <2>2, <2>3, <2>4 DEF Outside
<1>3. CASE Launching
  <2>1. PICK s \in Steps, in \in Inputs, isFirst \in BOOLEAN : Launches(s, in, isFirst)
    BY <1>3, LaunchingStep
  <2>2. ~(late[s] > 0)
    BY <2>1 DEF Launches
  <2>3. UNCHANGED <<late, level>> /\ \A t \in Steps : t # s => job'[t] = job[t]
    BY <2>1 DEF Launches
  <2>4. pc \in {"resolve", "launch"}
    BY <2>1 DEF Launches
  <2>5. QED
    BY <1>0, <2>2, <2>3, <2>4
<1>4. ASSUME NEW s \in Steps, StepAction(s)
      PROVE  LateEntries'
  <2>1. /\ UNCHANGED <<pc, level, ctxDone>> /\ job[s] \notin Over
        /\ \A t \in Steps : t # s => job'[t] = job[t] /\ late'[t] = late[t]
    BY <1>4, StepActionFrame DEF engineVars, ctxVars, Over
  <2>2. s \in Level(level) /\ pc \in {"await", "launch", "collect"}
    BY <2>1, BusyStep
  <2>3. LevelOf[s] = level
    BY <2>2 DEF Level
  <2>4. ASSUME late'[s] = late[s], late[s] > 0 => job'[s] \in AfterCancel
        PROVE  LateEntries'
    BY <2>1, <2>4
  <2>5. CASE CreateExecution(s) \/ RecordRetrying(s) \/ Backoff(s)
    BY <2>4, <2>5 DEF CreateExecution, RecordRetrying, Backoff
  <2>6. CASE Attempt(s)
    <3>1. late' = late /\ (ctxDone => job'[s] = "exhausted")
      BY <2>6 DEF Attempt, TypeOK, StepType
    <3>2. QED
      BY <2>4, <3>1
  <2>7. CASE RecordRunning(s)
    <3>1. /\ job[s] = "running" /\ job'[s] = "executing"
          /\ late'[s] = IF ctxDone THEN late[s] + 1 ELSE late[s]
      BY <2>7 DEF RecordRunning, TypeOK, StepType
    <3>2. ~(late[s] > 0) /\ late[s] \in Nat
      BY <3>1 DEF TypeOK, StepType
    <3>3. late'[s] > 0 => ctxDone /\ late'[s] = 1
      BY <3>1, <3>2
    <3>4. \A t \in Steps : t # s /\ late'[t] > 0 => LevelOf[t] = level
      BY <2>1, <2>2
    <3>5. QED
      BY <2>1, <2>3, <3>1, <3>3, <3>4
  <2>8. CASE Execute(s) \/ RecordResult(s) \/ SaveOutput(s) \/ RecordFailure(s)
    BY <2>4, <2>8 DEF Execute, RecordResult, SaveOutput, RecordFailure, TypeOK, StepType
  <2>9. QED
    BY <1>4, <2>5, <2>6, <2>7, <2>8 DEF StepAction
<1>5. ASSUME NEW s \in Steps, Return(s)
      PROVE  LateEntries'
  BY <1>0, <1>5, ReturnFrame
<1>6. CASE Crash
  <2>1. /\ UNCHANGED late /\ pc' = "crashed"
        /\ \A t \in Steps : job'[t] = IF job[t] \in {"idle", "done"} THEN job[t] ELSE "dead"
    BY <1>6 DEF Crash
  <2>2. QED
    BY <1>0, <2>1
<1>7. QED
  BY <1>2, <1>3, <1>4, <1>5, <1>6, StepKinds

-----------------------------------------------------------------------------
(* What a nil error means *)

\* Engine.Cancel writes nothing but a status CANCELLED.
LEMMA ClientWrites ==
  ASSUME TypeOK, (\E c \in Cancellers : Client(c)) \/ CallerCancels \/ Done \/ UNCHANGED vars
  PROVE  dbRun' = dbRun \/ dbRun'.status = "CANCELLED"
<1>1. ASSUME NEW c \in Cancellers, CancelWrite(c)
      PROVE  dbRun' = dbRun \/ dbRun'.status = "CANCELLED"
  BY <1>1 DEF CancelWrite, TypeOK, ClientType, Run
<1>2. QED
  BY <1>1 DEF Client, CancelSignal, CancelRead, CallerCancels, Done, vars, storeVars

\* Every step of the system keeps StoredOnNil.
LEMMA StoredOnNilStep ==
  ASSUME TypeOK, StoredOnNil, [Next]_vars
  PROVE  StoredOnNil'
<1> USE DEF StoredOnNil, TerminalRun
<1>1. CASE Outside
  <2>1. CASE Start \/ EnterLevel \/ SingleDone \/ Collect \/ Report \/ Verdict
    BY <2>1 DEF Start, CreateRun, Register, EnterLevel, SingleDone, Collect, Report, Verdict
  <2>2. CASE Begin
    BY <2>2 DEF Begin
  <2>4. CASE CompleteWorkflow \/ FailWorkflow \/ CancelWorkflow
    <3>1. /\ [run EXCEPT !.status = "COMPLETED", !.progress = Total].status = "COMPLETED"
          /\ [run EXCEPT !.status = "FAILED"].status = "FAILED"
          /\ [run EXCEPT !.status = "CANCELLED"].status = "CANCELLED"
      BY DEF TypeOK, EngineType, Run
    <3>2. run'.status \in TerminalRun
      BY <2>4, <3>1 DEF CompleteWorkflow, FailWorkflow, CancelWorkflow, Finish
    <3>3. err' \/ dbRun' = run'
      BY <2>4 DEF CompleteWorkflow, FailWorkflow, CancelWorkflow, Finish, PersistRun
    <3>4. QED
      BY <3>2, <3>3
  <2>5. CASE Exit
    BY <2>5 DEF Exit, storeVars
  <2>6. CASE (\E c \in Cancellers : Client(c)) \/ CallerCancels \/ Done \/ UNCHANGED vars
    BY <2>6, ClientFrame, ClientWrites DEF engineVars
  <2>7. QED
    BY <1>1, <2>1, <2>2, <2>4, <2>5, <2>6 DEF Outside, End
<1>2. CASE Launching
  BY <1>2 DEF Launching, RunSingle, LaunchParallel
<1>3. ASSUME NEW s \in Steps, StepAction(s) \/ Return(s)
      PROVE  StoredOnNil'
  BY <1>3, StepActionFrame, ReturnFrame DEF engineVars, storeVars
<1>4. CASE Crash
  BY <1>4 DEF Crash
<1>5. QED
  BY <1>1, <1>2, <1>3, <1>4, StepKinds

-----------------------------------------------------------------------------
(* The output of the run *)

\* A result sent is waiting in the channel, and so are those sent before.
LEMMA Sending ==
  ASSUME TypeOK, NEW s \in Steps, results' \in {results, Append(results, s)}
  PROVE  /\ \A t \in Steps : Waiting(t) => Waiting(t)'
         /\ \A t \in Steps : Waiting(t)' => Waiting(t) \/ (t = s /\ results' = Append(results, s))
         /\ results' = Append(results, s) => Waiting(s)'
<1>1. results \in Seq(Steps) /\ Len(results) \in Nat
  BY LenProperties DEF TypeOK, EngineType
<1>2. CASE results' = results
  <2>1. Len(Append(results, s)) = Len(results) + 1
    BY <1>1, AppendProperties
  <2>2. results' # Append(results, s)
    BY <1>1, <1>2, <2>1
  <2>3. \A t \in Steps : Waiting(t)' <=> Waiting(t)
    BY <1>2 DEF Waiting
  <2>4. QED
    BY <2>2, <2>3
<1>3. CASE results' = Append(results, s)
  <2>1. /\ Len(results') = Len(results) + 1
        /\ \A i \in 1 .. Len(results) : results'[i] = results[i]
        /\ results'[Len(results) + 1] = s
    BY <1>1, <1>3, AppendProperties
  <2>2. QED
    BY <1>1, <1>3, <2>1 DEF Waiting
<1>4. QED
  BY <1>2, <1>3

\* A receive takes the result of one step; the others go on waiting.
LEMMA Receiving ==
  ASSUME TypeOK, results # <<>>, results' = Tail(results)
  PROVE  /\ Head(results) \in Steps /\ Waiting(Head(results))
         /\ \A t \in Steps : Waiting(t) => t = Head(results) \/ Waiting(t)'
         /\ \A t \in Steps : Waiting(t)' => Waiting(t)
<1>1. /\ results \in Seq(Steps) /\ Len(results) \in Nat \ {0} /\ Head(results) = results[1]
      /\ Head(results) \in Steps
      /\ Len(results') = Len(results) - 1
      /\ \A i \in 1 .. Len(results) - 1 : results'[i] = results[i + 1]
  BY EmptySeq, HeadTailProperties DEF TypeOK, EngineType
<1>2. ASSUME NEW t \in Steps, Waiting(t), t # Head(results)
      PROVE  Waiting(t)'
  <2>1. PICK i \in 1 .. Len(results) : results[i] = t
    BY <1>2 DEF Waiting
  <2>2. i # 1
    BY <1>1, <1>2, <2>1
  <2>3. i - 1 \in 1 .. Len(results') /\ results'[i - 1] = t
    BY <1>1, <2>1, <2>2
  <2>4. QED
    BY <2>3 DEF Waiting
<1>3. Waiting(Head(results))
  BY <1>1 DEF Waiting
<1>4. ASSUME NEW t \in Steps, Waiting(t)'
      PROVE  Waiting(t)
  <2>1. PICK i \in 1 .. Len(results') : results'[i] = t
    BY <1>4 DEF Waiting
  <2>2. i + 1 \in 1 .. Len(results) /\ results[i + 1] = t
    BY <1>1, <2>1
  <2>3. QED
    BY <2>2 DEF Waiting
<1>5. QED
  BY <1>1, <1>2, <1>3, <1>4

\* Every step of the system keeps ChannelOfLevel: a level starts with an empty
\* channel of its own, and only its steps send.
LEMMA ChannelOfLevelStep ==
  ASSUME TypeOK, Control, Quiet, ChannelOfLevel, [Next]_vars
  PROVE  ChannelOfLevel'
<1> USE DEF ChannelOfLevel
<1>1. ASSUME UNCHANGED <<job, results>>,
             pc' \in {"launch", "collect"} => level' = level /\ pc \in {"launch", "collect"}
      PROVE  ChannelOfLevel'
  BY <1>1 DEF Waiting, DoneIn, Level
<1>2. CASE Outside
  <2>0. UNCHANGED job
    BY <1>2, OutsideFrame
  <2>1. CASE Start \/ Begin \/ SingleDone \/ Report \/ Verdict
    BY <1>1, <2>0, <2>1 DEF Start, CreateRun, Register, Begin, SingleDone, Report, Verdict
  <2>2. CASE EnterLevel
    BY <2>2 DEF EnterLevel, Waiting
  <2>3. CASE Collect
    <3>1. /\ pc = "collect" /\ level' = level /\ results # <<>> /\ results' = Tail(results)
      BY <2>3 DEF Collect
    <3>2. \A t \in Steps : Waiting(t)' => Waiting(t)
      BY <3>1, Receiving
    <3>3. QED
      BY <2>0, <3>1, <3>2 DEF DoneIn, Level
  <2>4. CASE End
    BY <1>1, <2>0, <2>4
    DEF End, CompleteWorkflow, FailWorkflow, CancelWorkflow, Finish, Exit
  <2>5. CASE (\E c \in Cancellers : Client(c)) \/ CallerCancels \/ Done \/ UNCHANGED vars
    BY <1>1, <2>0, <2>5, ClientFrame DEF engineVars
  <2>6. QED
    BY <1>2, <2>1, <2>2, <2>3, <2>4, <2>5 DEF Outside
<1>3. CASE Launching
  <2>1. CASE RunSingle
    BY <2>1 DEF RunSingle
  <2>2. CASE LaunchParallel
    <3>1. PICK s \in toLaunch, in \in Inputs :
            IF in = NoValue
            THEN job' = [job EXCEPT ![s] = "done"] /\ results' = Append(results, s)
            ELSE job' = [job EXCEPT ![s] = "create"] /\ UNCHANGED results
      BY <2>2 DEF LaunchParallel, Launch
    <3>2. /\ pc = "launch" /\ level' = level /\ s \in Level(level) /\ s \in Steps
          /\ job[s] = "idle"
      BY <2>2, <3>1 DEF LaunchParallel, Control, Progressed, Level
    <3>3. \A t \in Steps : t # s => job'[t] = job[t]
      BY <3>1, <3>2 DEF TypeOK, StepType
    <3>4. results' = Append(results, s) => job'[s] = "done"
      <4>1. CASE in = NoValue
        BY <3>1, <3>2, <4>1 DEF TypeOK, StepType
      <4>2. CASE in # NoValue
        <5>1. Len(Append(results, s)) = Len(results) + 1 /\ Len(results) \in Nat
          BY <3>2, AppendProperties, LenProperties DEF TypeOK, EngineType
        <5>2. QED
          BY <3>1, <4>2, <5>1
      <4>3. QED
        BY <4>1, <4>2
    <3>5. results' \in {results, Append(results, s)}
      BY <3>1
    <3>6. \A t \in Steps : Waiting(t)' => Waiting(t) \/ (t = s /\ results' = Append(results, s))
      BY <3>2, <3>5, Sending
    <3>7. QED
      BY <3>2, <3>3, <3>4, <3>6 DEF DoneIn, Level
  <2>3. QED
    BY <1>3, <2>1, <2>2 DEF Launching
<1>4. ASSUME NEW s \in Steps, StepAction(s)
      PROVE  ChannelOfLevel'
  <2>1. /\ UNCHANGED <<pc, level, results>> /\ job[s] # "done"
        /\ \A t \in Steps : t # s => job'[t] = job[t]
    BY <1>4, StepActionFrame DEF engineVars
  <2>2. QED
    BY <2>1 DEF DoneIn, Level, Waiting
<1>5. ASSUME NEW s \in Steps, Return(s)
      PROVE  ChannelOfLevel'
  <2>1. /\ job[s] = "return" /\ job'[s] = "done" /\ \A t \in Steps : t # s => job'[t] = job[t]
        /\ UNCHANGED <<pc, level>> /\ results' \in {results, Append(results, s)}
    BY <1>5, ReturnFrame
  <2>2. s \in Level(level)
    BY <2>1, BusyStep DEF Over
  <2>3. \A t \in Steps : Waiting(t)' => Waiting(t) \/ t = s
    BY <2>1, Sending
  <2>4. QED
    BY <2>1, <2>2, <2>3 DEF DoneIn, Level
<1>6. CASE Crash
  BY <1>6 DEF Crash
<1>7. QED
  BY <1>2, <1>3, <1>4, <1>5, <1>6, StepKinds

\* Taking the result of a step: what was covered up to its level is still
\* covered, and so is that step.
LEMMA Taking ==
  ASSUME TypeOK, NEW s \in Steps, NEW n, run' = WithResult(s, n), UNCHANGED <<job, outcome>>,
         job[s] = "done",
         run.output # NoValue => outcome[run.output] = "ok" /\ job[run.output] = "done"
  PROVE  /\ run'.output # NoValue => outcome'[run'.output] = "ok" /\ job'[run'.output] = "done"
         /\ outcome[s] = "ok" => Covers(run'.output, s)
         /\ \A t \in Steps : Covers(run.output, t) /\ LevelOf[t] =< LevelOf[s]
              => Covers(run'.output, t)
<1>1. s # NoValue
  BY ValuesAssumption
<1>2. run'.output = IF outcome[s] = "ok" THEN s ELSE run.output
  BY DEF WithResult, TypeOK, EngineType, Run
<1>3. LevelOf[s] \in Nat
  BY LevelsAssumption
<1>4. QED
  BY <1>1, <1>2, <1>3 DEF Covers

\* The two receives of a result, of a level of one step and of a larger one.
LEMMA TakingOutput ==
  ASSUME TypeOK, Control, ChannelOfLevel, OutputSoFar, SingleDone \/ Collect
  PROVE  OutputSoFar'
<1>1. CASE SingleDone /\ pc' # "report"
  <2>1. UNCHANGED <<run, dbRun, job, outcome, level, results>> /\ pc' \in {"cancel", "fail"}
    BY <1>1 DEF SingleDone, stepVars, storeVars
  <2>2. QED
    BY <2>1 DEF OutputSoFar, AtLevel, Covers
<1>2. CASE SingleDone /\ pc' = "report"
  <2>1. PICK s \in Level(level) : job[s] = "done" /\ run' = WithResult(s, completed')
    BY <1>2 DEF SingleDone
  <2>2. /\ UNCHANGED <<dbRun, job, outcome, level>> /\ pc = "await"
        /\ s \in Steps /\ LevelOf[s] = level /\ level \in 1 .. Depth
        /\ Cardinality(Level(level)) = 1
    BY <1>2, <2>1 DEF SingleDone, stepVars, storeVars, Level, Control, Progressed, AtLevel
  <2>3. /\ run'.output # NoValue => outcome'[run'.output] = "ok" /\ job'[run'.output] = "done"
        /\ outcome[s] = "ok" => Covers(run'.output, s)
        /\ \A t \in Steps : Covers(run.output, t) /\ LevelOf[t] =< LevelOf[s]
             => Covers(run'.output, t)
    BY <2>1, <2>2, Taking DEF OutputSoFar
  <2>4. \A t \in Steps : LevelOf[t] \in Nat /\ level \in Nat
    BY <2>2, LevelsAssumption
  <2>5. ASSUME NEW t \in Steps, outcome[t] = "ok", LevelOf[t] =< level
        PROVE  Covers(run'.output, t)
    <3>1. CASE LevelOf[t] = level
      <4>1. t = s
        BY <2>1, <2>2, <3>1, OnlyStep DEF Level
      <4>2. QED
        BY <2>3, <2>5, <4>1
    <3>2. CASE LevelOf[t] < level
      BY <2>2, <2>3, <2>5, <3>2 DEF OutputSoFar, AtLevel
    <3>3. QED
      BY <2>4, <2>5, <3>1, <3>2
  <2>6. dbRun.status # "COMPLETED"
    BY <2>2 DEF Control, Statuses
  <2>7. QED
    BY <1>2, <2>2, <2>3, <2>4, <2>5, <2>6 DEF OutputSoFar, AtLevel, Covers
<1>3. CASE Collect
  <2> DEFINE s == Head(results)
             last == received + 1 = Cardinality(Level(level))
  <2>1. /\ pc = "collect" /\ results # <<>> /\ results' = Tail(results)
        /\ UNCHANGED <<level, job, outcome, dbRun>>
        /\ \E n : run' = WithResult(s, n)
        /\ pc' = IF last THEN "report" ELSE "collect"
    BY <1>3 DEF Collect, stepVars, storeVars, LastResult
  <2>2. s \in Steps /\ Waiting(s) /\ \A t \in Steps : Waiting(t) => t = s \/ Waiting(t)'
    BY <2>1, Receiving
  <2>3. s \in DoneIn(level)
    BY <2>1, <2>2 DEF ChannelOfLevel
  <2>4. job[s] = "done" /\ LevelOf[s] = level /\ level \in 1 .. Depth
    BY <2>1, <2>3 DEF DoneIn, Level, Control, Progressed, AtLevel
  <2>5. /\ run'.output # NoValue => outcome'[run'.output] = "ok" /\ job'[run'.output] = "done"
        /\ outcome[s] = "ok" => Covers(run'.output, s)
        /\ \A t \in Steps : Covers(run.output, t) /\ LevelOf[t] =< LevelOf[s]
             => Covers(run'.output, t)
    BY <2>1, <2>2, <2>4, Taking DEF OutputSoFar
  <2>6. \A t \in Steps : LevelOf[t] \in Nat /\ level \in Nat
    BY <2>4, LevelsAssumption
  <2>7. ASSUME NEW t \in Steps, outcome[t] = "ok", LevelOf[t] < level
        PROVE  Covers(run'.output, t)
    BY <2>1, <2>4, <2>5, <2>6, <2>7 DEF OutputSoFar, AtLevel
  <2>8. ASSUME NEW t \in DoneIn(level), outcome[t] = "ok"
        PROVE  Covers(run'.output, t) \/ Waiting(t)'
    <3>1. t \in Steps /\ LevelOf[t] = level
      BY DEF DoneIn, Level
    <3>2. Covers(run.output, t) \/ Waiting(t)
      BY <2>1, <2>8, <3>1 DEF OutputSoFar
    <3>3. QED
      BY <2>2, <2>4, <2>5, <2>6, <2>8, <3>1, <3>2
  <2>9. ASSUME last, NEW t \in Steps, outcome[t] = "ok", LevelOf[t] = level
        PROVE  Covers(run'.output, t)
    <3>1. Level(level) = DoneIn(level) /\ Len(results) = 1
      BY <2>1, <2>9, LastResultReceived
    <3>2. t \in DoneIn(level)
      BY <2>9, <3>1 DEF Level
    <3>3. Len(results') = 0
      BY <2>1, <3>1, HeadTailProperties DEF TypeOK, EngineType
    <3>4. ~Waiting(t)'
      BY <3>3 DEF Waiting
    <3>5. QED
      BY <2>8, <2>9, <3>2, <3>4
  <2>10. dbRun.status # "COMPLETED" /\ DoneIn(level)' = DoneIn(level)
    BY <2>1 DEF Control, Statuses, DoneIn, Level
  <2>11. QED
    BY <2>1, <2>5, <2>7, <2>8, <2>9, <2>10 DEF OutputSoFar, AtLevel, Covers
<1>4. QED
  BY <1>1, <1>2, <1>3

\* The executor outside the levels, and the clients, change neither the steps
\* nor the output.
LEMMA KeepingOutput ==
  ASSUME TypeOK, Control, Outputs, OutputSoFar,
         \/ Start \/ Begin \/ EnterLevel \/ Report \/ Verdict \/ End
         \/ (\E c \in Cancellers : Client(c)) \/ CallerCancels \/ Done \/ UNCHANGED vars
  PROVE  OutputSoFar'
<1> USE DEF OutputSoFar, Covers
<1>0. UNCHANGED <<job, outcome>>
  BY OutsideFrame DEF Outside
<1>1. ASSUME run'.output = run.output, dbRun' = dbRun \/ dbRun'.status # "COMPLETED",
             pc' \notin AtLevel \cup {"complete"}
      PROVE  OutputSoFar'
  BY <1>0, <1>1 DEF AtLevel
<1>2. CASE Start
  <2>1. run' = run /\ pc' \in {"rejected", "begin", "register"}
    BY <1>2 DEF Start, CreateRun, Register
  <2>2. dbRun' \in {run, dbRun} /\ run.status = "PENDING"
    BY <1>2 DEF Start, CreateRun, Register, PersistRun, storeVars, Control, Statuses, NotStarted
  <2>3. QED
    BY <1>1, <2>1, <2>2 DEF AtLevel
<1>3. CASE Begin
  <2>1. /\ run'.output = run.output /\ run'.status = "RUNNING" /\ dbRun' \in {run', dbRun}
        /\ pc' \in {"level", "exit"} /\ level' = 1
    BY <1>3 DEF Begin, PersistRun, TypeOK, EngineType, Run, Control, Progressed, NotStarted
  <2>2. \A t \in Steps : ~(LevelOf[t] < 1)
    BY LevelsAssumption
  <2>3. QED
    BY <1>0, <2>1, <2>2 DEF AtLevel
<1>4. CASE EnterLevel
  <2>1. UNCHANGED <<run, dbRun, level>> /\ pc = "level" /\ pc' \in {"cancel", "resolve", "launch"}
    BY <1>4 DEF EnterLevel, storeVars
  <2>2. \A t \in DoneIn(level) : FALSE
    BY <2>1 DEF Control, Progressed, DoneIn
  <2>3. DoneIn(level)' = DoneIn(level)
    BY <1>0, <2>1 DEF DoneIn, Level
  <2>4. QED
    BY <1>0, <2>1, <2>2, <2>3 DEF AtLevel
<1>5. CASE Report
  <2>1. /\ pc = "report" /\ run' = run /\ dbRun' \in {run, dbRun} /\ run.status = "RUNNING"
        /\ \/ pc' = "verdict" /\ level' = level
           \/ pc' = (IF level = Depth THEN "complete" ELSE "level") /\ level' = level + 1
    BY <1>5 DEF Report, PersistRun, Control, Statuses, AtLevel
  <2>2. level \in 1 .. Depth /\ \A t \in Steps : LevelOf[t] \in 1 .. Depth
    BY <2>1, LevelsAssumption DEF Control, Progressed, AtLevel
  <2>3. \A t \in Steps : outcome[t] = "ok" /\ LevelOf[t] < level + 1 => Covers(run.output, t)
    <3>1. \A t \in Steps : LevelOf[t] < level + 1 => LevelOf[t] < level \/ LevelOf[t] = level
      BY <2>2, LevelsAssumption
    <3>2. QED
      BY <2>1, <3>1 DEF AtLevel
  <2>4. level = Depth => \A t \in Steps : LevelOf[t] < level + 1
    BY <2>2, LevelsAssumption
  <2>5. CASE pc' = "verdict"
    BY <1>0, <2>1, <2>5 DEF AtLevel
  <2>6. CASE pc' # "verdict"
    BY <1>0, <2>1, <2>3, <2>4, <2>6 DEF AtLevel
  <2>7. QED
    BY <2>5, <2>6
<1>6. CASE Verdict
  BY <1>1, <1>6 DEF Verdict, storeVars, AtLevel
<1>7. CASE CompleteWorkflow
  <2>1. /\ pc = "complete" /\ pc' = "exit" /\ run'.output = run.output /\ dbRun' \in {run', dbRun}
    BY <1>7 DEF CompleteWorkflow, Finish, PersistRun, TypeOK, EngineType, Run
  <2>2. QED
    BY <1>0, <2>1 DEF AtLevel
<1>8. CASE FailWorkflow \/ CancelWorkflow
  <2>1. /\ run'.status \in {"FAILED", "CANCELLED"} /\ run'.output = run.output
        /\ dbRun' \in {run', dbRun} /\ pc' = "exit"
    BY <1>8 DEF FailWorkflow, CancelWorkflow, Finish, PersistRun, TypeOK, EngineType, Run
  <2>2. QED
    BY <1>1, <2>1 DEF AtLevel
<1>9. CASE Exit
  BY <1>1, <1>9 DEF Exit, storeVars, AtLevel
<1>10. CASE (\E c \in Cancellers : Client(c)) \/ CallerCancels \/ Done \/ UNCHANGED vars
  <2>1. UNCHANGED engineVars /\ (dbRun' = dbRun \/ dbRun'.status # "COMPLETED")
    BY <1>10, ClientFrame, ClientWrites
  <2>2. QED
    BY <1>0, <2>1 DEF engineVars, DoneIn, Level, Waiting
<1>11. QED
  BY <1>2, <1>3, <1>4, <1>5, <1>6, <1>7, <1>8, <1>9, <1>10 DEF End

\* A step that is launched, executes or returns: an output that appears is one
\* of the current level, and if its step has reported, it waits.
LEMMA ProducingOutput ==
  ASSUME TypeOK, Control, Outputs, Quiet, OutputSoFar, NEW s \in Steps,
         UNCHANGED <<run, dbRun, level>>,
         pc \in {"resolve", "await", "launch", "collect"},
         s \in Level(level), job[s] # "done",
         \A t \in Steps : t # s => job'[t] = job[t] /\ outcome'[t] = outcome[t],
         \A t \in Steps : Waiting(t) => Waiting(t)',
         pc' \in {"resolve", "await", "launch", "collect", "fail"},
         pc' \in {"launch", "collect"} => pc \in {"launch", "collect"},
         outcome'[s] = "ok" /\ job'[s] = "done" /\ pc' \in {"launch", "collect"} => Waiting(s)'
  PROVE  OutputSoFar'
<1> USE DEF OutputSoFar
<1>1. LevelOf[s] = level /\ level \in Nat
  BY LevelsAssumption DEF Level, Control, Progressed, AtLevel
<1>2. run.output # NoValue => run.output \in Steps /\ run.output # s
  BY DEF TypeOK, EngineType, Run
<1>3. dbRun.status # "COMPLETED"
  BY DEF Control, Statuses
<1>4. \A t \in Steps : Covers(run.output, t) => Covers(run'.output, t)
  BY DEF Covers
<1>5. ASSUME NEW t \in Steps, outcome'[t] = "ok"
      PROVE  /\ LevelOf[t] < level => Covers(run'.output, t)
             /\ pc' \in {"launch", "collect"} /\ t \in DoneIn(level)' =>
                  Covers(run'.output, t) \/ Waiting(t)'
  <2>1. CASE t = s
    BY <1>1, <1>5, <2>1 DEF DoneIn
  <2>2. CASE t # s
    <3>1. outcome[t] = "ok" /\ (t \in DoneIn(level)' => t \in DoneIn(level))
      BY <1>5, <2>2 DEF DoneIn, Level
    <3>2. QED
      BY <1>4, <3>1 DEF AtLevel
  <2>3. QED
    BY <2>1, <2>2
<1>6. run'.output # NoValue => outcome'[run'.output] = "ok" /\ job'[run'.output] = "done"
  BY <1>2
<1>7. QED
  BY <1>3, <1>5, <1>6 DEF AtLevel

\* Every step of the system keeps OutputSoFar.
LEMMA OutputSoFarStep ==
  ASSUME TypeOK, Control, Outputs, Quiet, ChannelOfLevel, OutputSoFar, [Next]_vars
  PROVE  OutputSoFar'
<1>1. CASE Outside
  BY <1>1, KeepingOutput, TakingOutput DEF Outside
<1>2. CASE Launching
  <2>1. PICK s \in Steps, in \in Inputs, isFirst \in BOOLEAN : Launches(s, in, isFirst)
    BY <1>2, LaunchingStep
  <2>2. /\ s \in Level(level) /\ job[s] = "idle" /\ UNCHANGED <<run, dbRun, level>>
        /\ \A t \in Steps : t # s => job'[t] = job[t] /\ outcome'[t] = outcome[t]
        /\ results' \in {results, Append(results, s)}
        /\ pc \in {"resolve", "launch"} /\ pc' \in {"await", "launch", "collect", "fail"}
        /\ pc' \in {"launch", "collect"} => pc = "launch"
        /\ outcome'[s] \in {outcome[s], "rejected"}
    BY <2>1 DEF Launches
  <2>3. outcome'[s] # "ok"
    BY <2>2 DEF Outputs
  <2>4. \A t \in Steps : Waiting(t) => Waiting(t)'
    BY <2>2, Sending
  <2>5. QED
    BY <2>2, <2>3, <2>4, ProducingOutput
<1>3. ASSUME NEW s \in Steps, StepAction(s)
      PROVE  OutputSoFar'
  <2>1. /\ UNCHANGED <<pc, run, dbRun, level, results>> /\ job[s] \notin Over
        /\ \A t \in Steps : t # s => job'[t] = job[t] /\ outcome'[t] = outcome[t]
        /\ job'[s] # "done"
    BY <1>3, StepActionFrame DEF engineVars, Over
  <2>2. s \in Level(level) /\ pc \in {"await", "launch", "collect"} /\ job[s] # "done"
    BY <2>1, BusyStep DEF Over
  <2>3. \A t \in Steps : Waiting(t) => Waiting(t)'
    BY <2>1 DEF Waiting
  <2>4. QED
    BY <2>1, <2>2, <2>3, ProducingOutput
<1>4. ASSUME NEW s \in Steps, Return(s)
      PROVE  OutputSoFar'
  <2>1. /\ UNCHANGED <<pc, run, dbRun, level, outcome>> /\ job[s] = "return"
        /\ \A t \in Steps : t # s => job'[t] = job[t]
        /\ results' \in {results, Append(results, s)}
        /\ Cardinality(Level(level)) # 1 => results' = Append(results, s)
    BY <1>4, ReturnFrame DEF storeVars
  <2>2. s \in Level(level) /\ pc \in {"await", "launch", "collect"}
    BY <2>1, BusyStep DEF Over
  <2>3. /\ \A t \in Steps : Waiting(t) => Waiting(t)'
        /\ results' = Append(results, s) => Waiting(s)'
    BY <2>1, Sending
  <2>4. pc \in {"launch", "collect"} => Waiting(s)'
    BY <2>1, <2>3 DEF Control, Counting
  <2>5. QED
    BY <2>1, <2>2, <2>3, <2>4, ProducingOutput
<1>5. CASE Crash
  <2>1. /\ UNCHANGED <<run, dbRun, outcome>> /\ pc' = "crashed"
        /\ \A t \in Steps : job[t] = "done" => job'[t] = "done"
    BY <1>5 DEF Crash, storeVars
  <2>2. run.output # NoValue => run.output \in Steps
    BY DEF TypeOK, EngineType, Run
  <2>3. QED
    BY <2>1, <2>2 DEF OutputSoFar, AtLevel, Covers
<1>6. QED
  BY <1>1, <1>2, <1>3, <1>4, <1>5, StepKinds

-----------------------------------------------------------------------------
(* The theorems *)

\* Nothing has started in the initial state.
LEMMA InitRunInv == Init => RunInv
<1> SUFFICES ASSUME Init PROVE RunInv
  OBVIOUS
<1>1. Quiet /\ Indexed /\ StoredOnNil
  BY DEF Init, Quiet, Ended, Over, Indexed, StoredOnNil
<1>2. LateEntries /\ ChannelOfLevel
  BY DEF Init, LateEntries, ChannelOfLevel
<1>3. OutputSoFar
  BY DEF Init, OutputSoFar, AtLevel, NewRun, NoRun
<1>4. QED
  BY <1>1, <1>2, <1>3 DEF RunInv

\* RunInv holds in every reachable state, on top of IInv.
THEOREM RunInvariance == Spec => [](IInv /\ RunInv)
<1>1. Init => RunInv
  BY InitRunInv
<1>2. IInv /\ RunInv /\ [Next]_vars => RunInv'
  <2> SUFFICES ASSUME IInv, RunInv, [Next]_vars
               PROVE  RunInv'
    OBVIOUS
  <2>1. /\ TypeOK /\ Control /\ Outputs
        /\ Quiet /\ Indexed /\ LateEntries /\ StoredOnNil /\ ChannelOfLevel /\ OutputSoFar
    BY DEF IInv, RunInv
  <2>2. Quiet' /\ Indexed'
    BY <2>1, QuietStep, IndexedStep
  <2>3. LateEntries' /\ StoredOnNil'
    BY <2>1, LateEntriesStep, StoredOnNilStep
  <2>4. ChannelOfLevel' /\ OutputSoFar'
    BY <2>1, ChannelOfLevelStep, OutputSoFarStep
  <2>5. QED
    BY <2>2, <2>3, <2>4 DEF RunInv
<1>3. QED
  BY <1>1, <1>2, Invariance, PTL DEF Spec

\* ListStepExecutions never lists a step before one of a lower level, in
\* whatever order the goroutines of the levels ran.
THEOREM RecordsAreOrdered == Spec => []ExecutionOrder
<1>1. IInv /\ RunInv => ExecutionOrder
  BY LowerGrows DEF RunInv, Indexed, ExecutionOrder
<1>2. QED
  BY <1>1, RunInvariance, PTL

\* After the context of the run is cancelled, by whoever, each step enters its
\* handler once more at most, and only steps of one level do.
THEOREM CancelledWorkIsBounded == Spec => []CancelBoundsWork
<1>1. IInv /\ RunInv => CancelBoundsWork
  <2> SUFFICES ASSUME IInv, RunInv
               PROVE  CancelBoundsWork
    OBVIOUS
  <2>1. \A s \in Steps : late[s] \in Nat /\ (late[s] > 0 => late[s] = 1)
    BY DEF IInv, TypeOK, StepType, RunInv, LateEntries
  <2>2. QED
    BY <2>1 DEF RunInv, LateEntries, CancelBoundsWork
<1>2. QED
  BY <1>1, RunInvariance, PTL

\* When executeWorkflow returns nil, a terminal status is in the store: every
\* write that failed shows in the error, and clients write only CANCELLED.
THEOREM NilIsStored == Spec => []NilMeansStored
<1>1. IInv /\ RunInv => NilMeansStored
  BY DEF RunInv, StoredOnNil, NilMeansStored
<1>2. QED
  BY <1>1, RunInvariance, PTL

\* The output of a run stored as COMPLETED is that of a completed step of the
\* deepest level that has one.
THEOREM OutputOfDeepest == Spec => []OutputIsDeepest
<1>1. IInv /\ RunInv => OutputIsDeepest
  <2> SUFFICES ASSUME IInv, RunInv, dbRun.status = "COMPLETED"
               PROVE  LET completedSteps == {s \in Steps : outcome[s] = "ok"} IN
                        IF completedSteps = {} THEN dbRun.output = NoValue
                        ELSE /\ dbRun.output \in completedSteps
                             /\ \A s \in completedSteps : LevelOf[s] =< LevelOf[dbRun.output]
    BY DEF OutputIsDeepest
  <2>1. /\ dbRun.output # NoValue => dbRun.output \in Steps /\ outcome[dbRun.output] = "ok"
        /\ \A t \in Steps : outcome[t] = "ok" => Covers(dbRun.output, t)
    BY DEF RunInv, OutputSoFar, IInv, TypeOK, StoreType, Run
  <2>2. QED
    BY <2>1 DEF Covers
<1>2. QED
  BY <1>1, RunInvariance, PTL

-----------------------------------------------------------------------------
(* What WorkflowEngine promises on a store that never refuses a call: the   *)
(* memory store, or any other that ignores the context and has no fault.    *)
(* There the step records, the inputs, the reason of a failure and a        *)
(* cancellation are exact.                                                  *)

ReliableStore == MaxFaults = 0 /\ ~StoreHonoursCtx

\* What the record of a step says when executeStep has reported o.
Record(o) ==
  CASE o = "ok" -> "COMPLETED"
    [] o = "skip" -> "SKIPPED"
    [] o = "failed" -> "FAILED"
    [] OTHER -> "ABSENT"

Produced(s) == outcome[s] \in {"ok", "skip"}

\* The record of a step follows executeStep, and so does its output.
Recorded ==
  \A s \in Steps :
    /\ job[s] \in {"idle", "create"} => outcome[s] = "none" /\ dbStep[s] = "ABSENT"
    /\ job[s] \in {"save", "return", "done"} =>
         outcome[s] # "none" /\ dbStep[s] = Record(outcome[s])
    /\ job[s] \in {"return", "done"} /\ Produced(s) => s \in saved

\* A step has reported a failure that ends the run.
Cause == \E s \in Steps : job[s] = "done" /\ Fatal(s)

\* The executor fails a run only for such a step.
Causes ==
  /\ pc \in {"resolve", "await", "launch", "collect", "report", "verdict"} /\ fatal => Cause
  /\ pc = "verdict" => fatal
  /\ pc = "fail" \/ run.status = "FAILED" => Cause

\* A cancelled run is stored as such when the executor has written it.
CancelStored ==
  pc \in {"exit", "returned"} /\ run.status = "CANCELLED" => dbRun.status = "CANCELLED"

ReliableInv == faults = 0 /\ Recorded /\ Causes /\ CancelStored /\ DataFlowExact

-----------------------------------------------------------------------------
(* A reliable store *)

\* No call is refused.
LEMMA NoRefusal ==
  ASSUME ReliableStore, faults = 0, NEW done, NEW ok \in BOOLEAN, StoreCall(done, ok)
  PROVE  ok /\ faults' = 0
BY DEF ReliableStore, StoreCall

\* A status persisted for a step is there.
LEMMA StepPersisted ==
  ASSUME ReliableStore, faults = 0, TypeOK, NEW s \in Steps, NEW status, PersistStep(s, status)
  PROVE  faults' = 0 /\ dbStep'[s] = status
BY NoRefusal DEF PersistStep, TypeOK, StoreType

\* A run persisted is there.
LEMMA RunPersisted ==
  ASSUME ReliableStore, faults = 0, NEW r, NEW ok \in BOOLEAN, PersistRun(r, ok)
  PROVE  ok /\ faults' = 0 /\ dbRun' = r
BY NoRefusal DEF PersistRun

\* No fault appears.
LEMMA NoFaultStep ==
  ASSUME ReliableStore, TypeOK, Control, faults = 0, [Next]_vars
  PROVE  faults' = 0
<1> USE DEF storeVars
<1>1. CASE Outside
  <2>1. CASE Start \/ Begin \/ EnterLevel \/ SingleDone \/ Collect
    BY <2>1, RunPersisted DEF Start, CreateRun, Register, Begin, EnterLevel, SingleDone, Collect
  <2>2. CASE Report \/ Verdict \/ Exit
    BY <2>2, RunPersisted DEF Report, Verdict, Exit
  <2>3. CASE CompleteWorkflow \/ FailWorkflow \/ CancelWorkflow
    BY <2>3, NoRefusal DEF CompleteWorkflow, FailWorkflow, CancelWorkflow, Finish, PersistRun
  <2>4. CASE (\E c \in Cancellers : Client(c)) \/ CallerCancels \/ Done \/ UNCHANGED vars
    BY <2>4, NoRefusal DEF Client, CancelSignal, CancelRead, CancelWrite, CallerCancels, Done, vars
  <2>5. QED
    BY <1>1, <2>1, <2>2, <2>3, <2>4 DEF Outside, End
<1>2. CASE Launching
  <2>1. PICK s \in Steps, in \in Inputs, isFirst \in BOOLEAN : Launches(s, in, isFirst)
    BY <1>2, LaunchingStep
  <2>2. QED
    BY <2>1, NoRefusal DEF Launches, ResolveStepInput
<1>3. ASSUME NEW s \in Steps, StepAction(s)
      PROVE  faults' = 0
  <2>1. CASE CreateExecution(s) \/ SaveOutput(s)
    BY <2>1, NoRefusal DEF CreateExecution, SaveOutput
  <2>2. CASE Attempt(s) \/ Backoff(s) \/ Execute(s)
    BY <2>2 DEF Attempt, Backoff, Execute
  <2>3. CASE RecordRetrying(s) \/ RecordRunning(s) \/ RecordResult(s) \/ RecordFailure(s)
    BY <2>3, StepPersisted DEF RecordRetrying, RecordRunning, RecordResult, RecordFailure
  <2>4. QED
    BY <1>3, <2>1, <2>2, <2>3 DEF StepAction
<1>4. ASSUME NEW s \in Steps, Return(s)
      PROVE  faults' = 0
  BY <1>4 DEF Return
<1>5. CASE Crash
  BY <1>5 DEF Crash
<1>6. QED
  BY <1>1, <1>2, <1>3, <1>4, <1>5, StepKinds

-----------------------------------------------------------------------------
(* The records of the steps *)

\* The actions of executeStep write what the record is to say.
LEMMA StepActionRecorded ==
  ASSUME ReliableStore, TypeOK, Outputs, faults = 0, Recorded, NEW s \in Steps, StepAction(s)
  PROVE  Recorded'
<1> USE DEF TypeOK, StepType, StoreType
<1>1. /\ \A t \in Steps : t # s =>
           job'[t] = job[t] /\ outcome'[t] = outcome[t] /\ dbStep'[t] = dbStep[t]
      /\ job'[s] \notin {"idle", "create", "done"}
  BY StepActionFrame
<1>2. ASSUME job'[s] \in {"save", "return"} =>
               outcome'[s] # "none" /\ dbStep'[s] = Record(outcome'[s]),
             \A t \in saved : t \in saved',
             job'[s] = "return" /\ outcome'[s] \in {"ok", "skip"} => s \in saved'
      PROVE  Recorded'
  BY <1>1, <1>2 DEF Recorded, Produced
<1>3. CASE CreateExecution(s)
  <2>1. job'[s] = "attempt" /\ UNCHANGED saved
    BY <1>3, NoRefusal DEF CreateExecution
  <2>2. QED
    BY <1>2, <2>1
<1>4. CASE Attempt(s) \/ Backoff(s) \/ Execute(s)
  <2>1. job'[s] \notin {"save", "return"} /\ UNCHANGED saved
    BY <1>4 DEF Attempt, Backoff, Execute, storeVars
  <2>2. QED
    BY <1>2, <2>1
<1>5. CASE RecordRetrying(s) \/ RecordRunning(s)
  <2>1. job'[s] \notin {"save", "return"} /\ UNCHANGED saved
    BY <1>5 DEF RecordRetrying, RecordRunning
  <2>2. QED
    BY <1>2, <2>1
<1>6. CASE RecordResult(s)
  <2>1. /\ job[s] = "record" /\ job'[s] = "save" /\ UNCHANGED <<saved, outcome>>
        /\ PersistStep(s, IF outcome[s] = "ok" THEN "COMPLETED" ELSE "SKIPPED")
    BY <1>6 DEF RecordResult
  <2>2. dbStep'[s] = IF outcome[s] = "ok" THEN "COMPLETED" ELSE "SKIPPED"
    BY <2>1, StepPersisted
  <2>3. outcome[s] \in {"ok", "skip"}
    BY <2>1 DEF Outputs
  <2>4. QED
    BY <1>2, <2>1, <2>2, <2>3 DEF Record
<1>7. CASE SaveOutput(s)
  <2>1. /\ job[s] = "save" /\ UNCHANGED <<dbStep, outcome>> /\ saved' = saved \cup {s}
    BY <1>7, NoRefusal DEF SaveOutput
  <2>2. QED
    BY <1>2, <2>1 DEF Recorded
<1>8. CASE RecordFailure(s)
  <2>1. outcome'[s] = "failed" /\ UNCHANGED saved /\ dbStep'[s] = "FAILED"
    BY <1>8, StepPersisted DEF RecordFailure
  <2>2. QED
    BY <1>2, <2>1 DEF Record
<1>9. QED
  BY <1>3, <1>4, <1>5, <1>6, <1>7, <1>8 DEF StepAction

\* Every step of the system keeps Recorded.
LEMMA RecordedStep ==
  ASSUME ReliableStore, TypeOK, Control, Outputs, faults = 0, Recorded, [Next]_vars
  PROVE  Recorded'
<1>1. CASE Outside
  BY <1>1, OutsideFrame DEF Recorded, Produced
<1>2. CASE Launching
  <2>1. PICK s \in Steps, in \in Inputs, isFirst \in BOOLEAN : Launches(s, in, isFirst)
    BY <1>2, LaunchingStep
  <2>2. outcome[s] = "none" /\ dbStep[s] = "ABSENT"
    BY <2>1 DEF Launches, Recorded
  <2>3. \/ job'[s] \in {"idle", "create"} /\ outcome'[s] = "none"
        \/ job'[s] = "done" /\ outcome'[s] = "rejected"
    BY <2>1, <2>2 DEF Launches
  <2>4. /\ UNCHANGED <<dbStep, saved>>
        /\ \A t \in Steps : t # s => job'[t] = job[t] /\ outcome'[t] = outcome[t]
    BY <2>1 DEF Launches
  <2>5. QED
    BY <2>2, <2>3, <2>4 DEF Recorded, Produced, Record
<1>3. ASSUME NEW s \in Steps, StepAction(s)
      PROVE  Recorded'
  BY <1>3, StepActionRecorded
<1>4. ASSUME NEW s \in Steps, Return(s)
      PROVE  Recorded'
  BY <1>4, ReturnFrame DEF Recorded, Produced, storeVars
<1>5. CASE Crash
  <2>1. /\ UNCHANGED <<outcome, dbStep, saved>>
        /\ \A t \in Steps : job'[t] = IF job[t] \in {"idle", "done"} THEN job[t] ELSE "dead"
    BY <1>5 DEF Crash, storeVars
  <2>2. QED
    BY <2>1 DEF Recorded, Produced
<1>6. QED
  BY <1>1, <1>2, <1>3, <1>4, <1>5, StepKinds

-----------------------------------------------------------------------------
(* The inputs *)

\* What a step has reported stays.
LEMMA ReportedForGood ==
  ASSUME TypeOK, Control, [Next]_vars, NEW t \in Steps, job[t] = "done"
  PROVE  job'[t] = "done" /\ outcome'[t] = outcome[t]
<1>1. CASE Outside
  BY <1>1, OutsideFrame
<1>2. CASE Launching
  <2>1. PICK s \in Steps, in \in Inputs, isFirst \in BOOLEAN : Launches(s, in, isFirst)
    BY <1>2, LaunchingStep
  <2>2. QED
    BY <2>1 DEF Launches
<1>3. ASSUME NEW s \in Steps, StepAction(s)
      PROVE  job'[t] = "done" /\ outcome'[t] = outcome[t]
  BY <1>3, StepActionFrame
<1>4. ASSUME NEW s \in Steps, Return(s)
      PROVE  job'[t] = "done" /\ outcome'[t] = outcome[t]
  BY <1>4, ReturnFrame
<1>5. CASE Crash
  BY <1>5 DEF Crash
<1>6. QED
  BY <1>1, <1>2, <1>3, <1>4, <1>5, StepKinds

\* The first predecessor of a step is a step of a lower level.
LEMMA FirstIsLower ==
  ASSUME NEW s \in Steps, Previous[s] # <<>>
  PROVE  Previous[s][1] \in Steps /\ LevelOf[Previous[s][1]] < LevelOf[s]
<1>1. Previous[s] \in Seq(Steps) /\ Len(Previous[s]) \in Nat \ {0}
  BY EmptySeq, PreviousAssumption
<1>2. 1 \in 1 .. Len(Previous[s]) /\ Previous[s][1] \in Steps
  BY <1>1
<1>3. QED
  BY <1>2, PreviousAssumption

\* On a reliable store the input of a step is found: the output of its first
\* predecessor if that produced one, and null if it may fail and did.
LEMMA Resolved ==
  ASSUME ReliableStore, TypeOK, Control, Outputs, faults = 0, Recorded,
         NEW s \in Steps, NEW in \in Inputs, NEW isFirst \in BOOLEAN, Launches(s, in, isFirst)
  PROVE  /\ in # NoValue
         /\ Previous[s] # <<>> =>
              /\ job[Previous[s][1]] = "done"
              /\ in = IF Produced(Previous[s][1]) THEN Previous[s][1] ELSE NullInput
<1>1. CASE Previous[s] = <<>>
  BY <1>1, ValuesAssumption DEF Launches, ResolveStepInput
<1>2. CASE Previous[s] # <<>>
  <2> DEFINE p == Previous[s][1]
  <2>1. p \in Steps /\ LevelOf[p] < LevelOf[s]
    BY <1>2, FirstIsLower
  <2>2. LevelOf[s] = level /\ pc \in {"resolve", "launch"}
    BY DEF Launches, Level
  <2>3. job[p] = "done" /\ ~Fatal(p)
    BY <2>1, <2>2 DEF Control, Progressed, AtLevel, Lower
  <2>4. in = IF p \in saved THEN p ELSE Fallback(p)
    BY <1>2, NoRefusal DEF Launches, ResolveStepInput, FirstPredecessor
  <2>5. CASE Produced(p)
    <3>1. p \in saved
      BY <2>1, <2>3, <2>5 DEF Recorded
    <3>2. QED
      BY <1>2, <2>1, <2>3, <2>4, <2>5, <3>1, ValuesAssumption
  <2>6. CASE ~Produced(p)
    <3>1. Failed(p)
      BY <2>1, <2>3, <2>6 DEF Recorded, Produced, Failed, TypeOK, StepType, Outcomes
    <3>2. Fallback(p) = NullInput
      BY <2>3, <3>1 DEF Fatal, Fallback
    <3>3. in = NullInput
      BY <2>4, <2>6, <3>2 DEF Outputs, Produced
    <3>4. QED
      BY <1>2, <2>3, <2>6, <3>3, ValuesAssumption
  <2>7. QED
    BY <2>5, <2>6
<1>3. QED
  BY <1>1, <1>2

\* Every step of the system keeps DataFlowExact: an input is chosen when the
\* predecessor has reported, and what that reported stays.
LEMMA DataFlowExactStep ==
  ASSUME ReliableStore, TypeOK, Control, Outputs, faults = 0, Recorded, Indexed,
         DataFlowExact, [Next]_vars
  PROVE  DataFlowExact'
<1>1. ASSUME NEW t \in Steps, input[t] # NoValue, Previous[t] # <<>>
      PROVE  outcome'[Previous[t][1]] = outcome[Previous[t][1]]
  <2>1. Previous[t][1] \in Steps /\ LevelOf[Previous[t][1]] < LevelOf[t]
    BY <1>1, FirstIsLower
  <2>2. job[Previous[t][1]] = "done"
    BY <1>1, <2>1 DEF Indexed, Control, LevelBarrier
  <2>3. QED
    BY <2>1, <2>2, ReportedForGood
<1>2. CASE UNCHANGED input
  BY <1>1, <1>2 DEF DataFlowExact
<1>3. CASE Launching
  <2>1. PICK s \in Steps, in \in Inputs, isFirst \in BOOLEAN : Launches(s, in, isFirst)
    BY <1>3, LaunchingStep
  <2>2. /\ in # NoValue
        /\ Previous[s] # <<>> =>
             /\ job[Previous[s][1]] = "done"
             /\ in = IF Produced(Previous[s][1]) THEN Previous[s][1] ELSE NullInput
    BY <2>1, Resolved
  <2>3. input'[s] = in /\ \A t \in Steps : t # s => input'[t] = input[t]
    BY <2>1, <2>2 DEF Launches
  <2>4. Previous[s] # <<>> => outcome'[Previous[s][1]] = outcome[Previous[s][1]]
    BY <2>2, FirstIsLower, ReportedForGood
  <2>5. QED
    BY <1>1, <2>2, <2>3, <2>4 DEF DataFlowExact, Produced
<1>4. QED
  BY <1>2, <1>3, OutsideFrame, StepActionFrame, ReturnFrame, StepKinds DEF Crash

-----------------------------------------------------------------------------
(* The end of the run *)

\* A failure that ended a level stays its cause.
LEMMA CauseStays ==
  ASSUME TypeOK, Control, [Next]_vars, Cause
  PROVE  Cause'
BY ReportedForGood DEF Cause, Fatal, Failed

\* Every step of the system keeps Causes.
LEMMA CausesStep ==
  ASSUME ReliableStore, TypeOK, Control, Outputs, ChannelOfLevel, faults = 0, Recorded, Causes,
         [Next]_vars
  PROVE  Causes'
<1> USE DEF Causes
<1>0. Cause => Cause'
  BY CauseStays
<1>1. CASE Outside
  <2>0. UNCHANGED <<job, outcome>>
    BY <1>1, OutsideFrame
  <2>1. CASE Start
    BY <1>0, <2>1 DEF Start, CreateRun, Register
  <2>2. CASE Begin
    <3>1. pc' \in {"level", "exit"} /\ run'.status = "RUNNING"
      BY <2>2 DEF Begin, TypeOK, EngineType, Run
    <3>2. QED
      BY <3>1
  <2>3. CASE EnterLevel
    BY <1>0, <2>3 DEF EnterLevel
  <2>4. CASE SingleDone
    <3>1. PICK s \in Level(level) :
            /\ job[s] = "done" /\ pc = "await"
            /\ UNCHANGED fatal /\ run'.status = run.status
            /\ \/ pc' \in {"cancel", "report"}
               \/ pc' = "fail" /\ Fatal(s)
      BY <2>4 DEF SingleDone, WithResult, TypeOK, EngineType, Run
    <3>2. pc' = "fail" => Cause
      BY <3>1 DEF Cause, Level
    <3>3. QED
      BY <1>0, <3>1, <3>2
  <2>5. CASE Collect
    <3>1. /\ pc = "collect" /\ results # <<>> /\ results' = Tail(results)
          /\ fatal' = (fatal \/ Fatal(Head(results))) /\ run'.status = run.status
          /\ pc' \in {"collect", "report"}
      BY <2>5 DEF Collect, WithResult, TypeOK, EngineType, Run
    <3>2. Head(results) \in Steps /\ job[Head(results)] = "done"
      BY <3>1, Receiving DEF ChannelOfLevel, DoneIn
    <3>3. fatal' => Cause
      BY <3>1, <3>2 DEF Cause
    <3>4. QED
      BY <1>0, <3>1, <3>3
  <2>6. CASE Report \/ Verdict
    BY <1>0, <2>6 DEF Report, Verdict
  <2>7. CASE End
    <3>1. /\ pc' \in {"exit", "returned"}
          /\ (run'.status = "FAILED" => run.status = "FAILED" \/ pc = "fail")
      BY <2>7 DEF End, CompleteWorkflow, FailWorkflow, CancelWorkflow, Finish, Exit,
                  TypeOK, EngineType, Run
    <3>2. QED
      BY <1>0, <3>1
  <2>8. CASE (\E c \in Cancellers : Client(c)) \/ CallerCancels \/ Done \/ UNCHANGED vars
    BY <1>0, <2>8, ClientFrame DEF engineVars
  <2>9. QED
    BY <1>1, <2>1, <2>2, <2>3, <2>4, <2>5, <2>6, <2>7, <2>8 DEF Outside
<1>2. CASE Launching
  <2>1. PICK s \in Steps, in \in Inputs, isFirst \in BOOLEAN : Launches(s, in, isFirst)
    BY <1>2, LaunchingStep
  <2>2. in # NoValue
    BY <2>1, Resolved
  <2>3. /\ pc \in {"resolve", "launch"} /\ pc' \in {"await", "launch", "collect"}
        /\ UNCHANGED <<run, fatal>>
    BY <2>1, <2>2 DEF Launches
  <2>4. QED
    BY <1>0, <2>3
<1>3. ASSUME NEW s \in Steps, StepAction(s) \/ Return(s)
      PROVE  Causes'
  BY <1>0, <1>3, StepActionFrame, ReturnFrame DEF engineVars
<1>4. CASE Crash
  BY <1>0, <1>4 DEF Crash
<1>5. QED
  BY <1>1, <1>2, <1>3, <1>4, StepKinds

\* Every step of the system keeps CancelStored.
LEMMA CancelStoredStep ==
  ASSUME ReliableStore, TypeOK, Control, faults = 0, CancelStored, [Next]_vars
  PROVE  CancelStored'
<1> USE DEF CancelStored
<1>1. CASE Outside
  <2>1. CASE Start \/ EnterLevel \/ SingleDone \/ Collect \/ Report \/ Verdict
    BY <2>1 DEF Start, CreateRun, Register, EnterLevel, SingleDone, Collect, Report, Verdict
  <2>2. CASE Begin
    BY <2>2 DEF Begin, TypeOK, EngineType, Run
  <2>3. CASE CompleteWorkflow \/ FailWorkflow \/ CancelWorkflow
    BY <2>3, NoRefusal DEF CompleteWorkflow, FailWorkflow, CancelWorkflow, Finish, PersistRun
  <2>4. CASE Exit
    BY <2>4 DEF Exit, storeVars
  <2>5. CASE (\E c \in Cancellers : Client(c)) \/ CallerCancels \/ Done \/ UNCHANGED vars
    BY <2>5, ClientFrame, ClientWrites DEF engineVars
  <2>6. QED
    BY <1>1, <2>1, <2>2, <2>3, <2>4, <2>5 DEF Outside, End
<1>2. CASE Launching
  BY <1>2 DEF Launching, RunSingle, LaunchParallel
<1>3. ASSUME NEW s \in Steps, StepAction(s) \/ Return(s)
      PROVE  CancelStored'
  BY <1>3, StepActionFrame, ReturnFrame DEF engineVars, storeVars
<1>4. CASE Crash
  BY <1>4 DEF Crash
<1>5. QED
  BY <1>1, <1>2, <1>3, <1>4, StepKinds

-----------------------------------------------------------------------------
(* The theorems *)

\* ReliableInv holds in every reachable state, on top of IInv and RunInv.
THEOREM ReliableInvariance ==
  ASSUME ReliableStore
  PROVE  Spec => [](IInv /\ RunInv /\ ReliableInv)
<1>1. Init => ReliableInv
  BY DEF Init, ReliableInv, ReliableStore, Recorded, Produced, Causes, CancelStored,
         DataFlowExact, NewRun
<1>2. IInv /\ RunInv /\ ReliableInv /\ [Next]_vars => ReliableInv'
  <2> SUFFICES ASSUME IInv, RunInv, ReliableInv, [Next]_vars
               PROVE  ReliableInv'
    OBVIOUS
  <2>1. /\ TypeOK /\ Control /\ Outputs /\ Indexed /\ ChannelOfLevel
        /\ faults = 0 /\ Recorded /\ Causes /\ CancelStored /\ DataFlowExact
    BY DEF IInv, RunInv, ReliableInv
  <2>2. faults' = 0 /\ Recorded'
    BY <2>1, NoFaultStep, RecordedStep
  <2>3. Causes' /\ CancelStored'
    BY <2>1, CausesStep, CancelStoredStep
  <2>4. DataFlowExact'
    BY <2>1, DataFlowExactStep
  <2>5. QED
    BY <2>2, <2>3, <2>4 DEF ReliableInv
<1>3. QED
  BY <1>1, <1>2, RunInvariance, PTL DEF Spec

\* On a reliable store the input of a step is determined by its first
\* predecessor: its output, and null exactly when it failed.
THEOREM InputsAreExact ==
  ASSUME ReliableStore
  PROVE  Spec => []DataFlowExact
<1>1. ReliableInv => DataFlowExact
  BY DEF ReliableInv
<1>2. QED
  BY <1>1, ReliableInvariance, PTL

\* When the executor has returned, every step record is terminal and says what
\* executeStep reported, and steps that were not executed have none.
THEOREM RecordsAreSettled ==
  ASSUME ReliableStore
  PROVE  Spec => []RecordsSettled
<1>1. IInv /\ RunInv /\ ReliableInv => RecordsSettled
  BY DEF RunInv, Quiet, Ended, ReliableInv, Recorded, Record, RecordsSettled
<1>2. QED
  BY <1>1, ReliableInvariance, PTL

\* A run ends as FAILED only because a step that may not fail did.
THEOREM FailuresHaveCause ==
  ASSUME ReliableStore
  PROVE  Spec => []FailedHasCause
<1>1. ReliableInv => FailedHasCause
  BY DEF ReliableInv, Causes, Cause, Fatal, FailedHasCause
<1>2. QED
  BY <1>1, ReliableInvariance, PTL

\* A run its executor ended as CANCELLED is stored as CANCELLED.
THEOREM CancellationsArePersisted ==
  ASSUME ReliableStore
  PROVE  Spec => []CancelledIsPersisted
<1>1. ReliableInv => CancelledIsPersisted
  BY DEF ReliableInv, CancelStored, CancelledIsPersisted
<1>2. QED
  BY <1>1, ReliableInvariance, PTL

===============================================================================
